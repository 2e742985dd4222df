------------------------ MODULE ProviderHooksProofs ------------------------
(***************************************************************************)
(* What is proved of the hooks of a launch (ProviderHooks), for any number   *)
(* of prompts, tools, hooks on their way, acts of the user and crashes.  It  *)
(* is built in four layers, each an inductive invariant that the next one    *)
(* uses:                                                                     *)
(*   TypeInv    the values, the capture times that name the hooks, and what   *)
(*              was judged, acknowledged or written is not on its way again;  *)
(*   AliveInv   while the process lives, Claude's own bookkeeping, and that   *)
(*              no hook speaks for a prompt or a tool that has not been;      *)
(*   NamedInv   when hooks name their prompt, the times, prompts and tools    *)
(*              that the ordering guard holds;                               *)
(*   LatestInv  for the latest prompt: the order in which its hooks may still *)
(*              be heard (OrderOK), that its last Stop will close it          *)
(*              (StopOK), and that what it asks is requested or shown (AskOK). *)
(* TypeInv gives TypeOK, TypeInv and AliveInv give the two action properties, *)
(* and LatestInv gives FinishedIsReview and WaitIsShown.                      *)
(***************************************************************************)
EXTENDS ProviderHooks, TLAPS, WellFoundedInduction, FiniteSetTheorems

-----------------------------------------------------------------------------
(* The values of the model.                                                *)

Events == {"UserPromptSubmit", "PreToolUse", "PermissionRequest", "PermissionDenied", "PostToolUse", "Stop"}
Classes == {"", "tool", "question"}

Opt(S) == {<<>>} \cup {<<x>> : x \in S}

Hooks == {h \in [at : Nat \ {0}, event : Events, prompt : Nat, tool : Nat, class : Classes, wake : BOOLEAN] :
             h.event \in ToolEvents \cup Completions => h.tool # None}

(* A map from tools to what was seen of them.                               *)
Seen == [prompt : Nat, class : Classes, at : Nat]
ToolMaps == UNION {[T -> Seen] : T \in SUBSET (Nat \ {0})}

Fences == [scope : Nat, at : Nat, tools : SUBSET (Nat \ {0}), awaiting : BOOLEAN]

Guards == [active : Nat, activeAt : Nat, foreground : BOOLEAN, completedAt : Nat,
           retired : SUBSET Nat, pending : ToolMaps, completed : ToolMaps, submittedAt : Nat,
           key : Opt(Nat), awaiting : BOOLEAN, background : SUBSET Nat, anonymous : BOOLEAN,
           delivered : SUBSET Nat, fence : Opt(Fences)]

Kinds == {"question", "permission"}
Reasons == {"", "hook", "attention", "error", "interrupted", "unconfirmed", "exit"}

Waits == [kind : Kinds, status : Statuses, prompt : Nat, tool : Nat,
          openedAt : Nat, updatedAt : Nat, submittedAt : Nat]

Sessions == [state : {"running", "review"}, reason : Reasons, wait : Opt(Waits), evidence : BOOLEAN,
             live : BOOLEAN, recovery : BOOLEAN, lost : BOOLEAN, clean : BOOLEAN]

(* A session of a time up to n, that waits for nobody while it runs.        *)
SessionOf(s, n) ==
    /\ s \in Sessions
    /\ s.state = "running" => s.wait = <<>> /\ s.reason = ""
    /\ s.wait # <<>> => s.wait[1].openedAt <= n

(* What Claude knows of a tool that is open, and Claude.                    *)
Working1 == [prompt : Nat, class : {"tool", "question"}, asked : Nat]
OpenTools == UNION {[T -> Working1] : T \in SUBSET (Nat \ {0})}

Endings == {"", "stop", "cut"}
Agents == [turn : Nat, asking : Nat, open : OpenTools, wakes : SUBSET Nat, ended : Endings,
           last : Nat, blind : BOOLEAN, stray : BOOLEAN, prompts : Nat, tools : Nat]

Terminals == [armed : BOOLEAN, pending : BOOLEAN, fence : Nat, worked : BOOLEAN, rendered : BOOLEAN]

Counters == [hooks : Nat, user : Nat, wakes : Nat, crashes : Nat]

HooksAt(D) == {h \in Hooks : h.at \in D}

(* Receipts, whose deliveries are among those that were received.           *)
ReceiptsOK(r) == r.ids \in SUBSET Nat /\ r.kept \in Seq(HooksAt(r.ids))

(* The deliveries of a set of hooks are none of D.                          *)
Apart(D, H) == \A h \in H : h.at \notin D

ValuesOK ==
    /\ now \in Nat
    /\ agent \in Agents /\ terminal \in Terminals /\ acts \in Counters
    /\ process \in {"live", "exited", "cut", "startup"}
    /\ guard \in Guards
    /\ SessionOf(session, now)
    /\ ReceiptsOK(receipts)

DiskOK ==
    /\ SessionOf(saved.session, now)
    /\ ReceiptsOK(saved.receipts)
    /\ saved.fence \in Opt(Fences)

(* Hooks that are not yet on disk: no two of them were captured at a time.   *)
TransportOK ==
    /\ net \subseteq Hooks /\ unacked \subseteq Hooks
    /\ \A h \in net \cup unacked : h.at <= now
    /\ \A h, k \in net \cup unacked : h.at = k.at => h = k

(* What was judged is not on its way, what is not acknowledged is not on disk, *)
(* and nothing was judged before it was captured.                           *)
JudgedOK ==
    /\ \A d \in guard.delivered \cup receipts.ids \cup saved.receipts.ids : d <= now
    /\ Apart(guard.delivered, net)
    /\ Apart(receipts.ids, net)
    /\ Apart(saved.receipts.ids, net \cup unacked)

TypeInv == ValuesOK /\ DiskOK /\ TransportOK /\ JudgedOK

-----------------------------------------------------------------------------
(* Operators of the library.                                               *)

LEMMA MaxOfTwo ==
    ASSUME NEW a \in Nat, NEW b \in Nat
    PROVE  /\ Max({a, b}) \in Nat /\ Max({a, b}) \in {a, b}
           /\ Max({a, b}) >= a /\ Max({a, b}) >= b
<1>1. CASE a >= b
  BY <1>1 DEF Max
<1>2. CASE b > a
  BY <1>2 DEF Max
<1> QED BY <1>1, <1>2

(* A set of naturals that holds 0 and what follows each of its members is all *)
(* of them, as the smallest one that it left out would follow a member.       *)
LEMMA NatSet ==
    ASSUME NEW P, 0 \in P, \A k \in Nat : k \in P => k + 1 \in P
    PROVE  Nat \subseteq P
<1>1. SUFFICES ASSUME Nat \ P # {} PROVE FALSE
  OBVIOUS
<1>2. IsWellFoundedOn(OpToRel(<, Nat), Nat)
  BY NatLessThanWellFounded
<1>3. PICK m \in Nat \ P : \A y \in Nat \ P : ~(<<y, m>> \in OpToRel(<, Nat))
  BY <1>1, <1>2, WFMin
<1>4. \A y \in Nat \ P : ~(y < m)
  BY <1>3 DEF OpToRel
<1>5. m - 1 \in Nat /\ m - 1 \in P
  BY <1>4
<1> QED BY <1>5

(* The greatest index of a nonempty set of indices.                         *)
LEMMA MaxOfIndices ==
    ASSUME NEW n \in Nat, NEW s \in SUBSET (1 .. n), s # {}
    PROVE  Max(s) \in s /\ \A x \in s : Max(s) >= x
<1> DEFINE Bounds == {k \in Nat : \A r \in SUBSET (1 .. k) : r # {} => \E x \in r : \A y \in r : x >= y}
<1>1. 0 \in Bounds
  <2>1. 1 .. 0 = {}
    OBVIOUS
  <2> QED BY <2>1
<1>2. ASSUME NEW k \in Nat, k \in Bounds PROVE k + 1 \in Bounds
  <2>1. SUFFICES ASSUME NEW r \in SUBSET (1 .. k + 1), r # {}
                 PROVE  \E x \in r : \A y \in r : x >= y
    OBVIOUS
  <2>2. CASE k + 1 \in r
    BY <2>2
  <2>3. CASE k + 1 \notin r
    <3>1. r \in SUBSET (1 .. k)
      BY <2>3
    <3> QED BY <3>1, <2>1, <1>2
  <2> QED BY <2>2, <2>3
<1> HIDE DEF Bounds
<1>3. Nat \subseteq Bounds
  BY <1>1, <1>2, NatSet
<1>4. \E x \in s : \A y \in s : x >= y
  BY <1>3 DEF Bounds
<1> QED BY <1>4 DEF Max

(* A function of sets of indices that is in S at the empty set and stays in  *)
(* S when the greatest index is added is in S everywhere.                   *)
LEMMA FoldStays ==
    ASSUME NEW S, NEW n \in Nat, NEW f, f[{}] \in S,
           \A s \in SUBSET (1 .. n) : s # {} /\ f[s \ {Max(s)}] \in S => f[s] \in S
    PROVE  \A s \in SUBSET (1 .. n) : f[s] \in S
<1> DEFINE Good == {k \in Nat : k <= n => \A s \in SUBSET (1 .. k) : f[s] \in S}
<1>1. 0 \in Good
  <2>1. \A s \in SUBSET (1 .. 0) : s = {}
    OBVIOUS
  <2> QED BY <2>1
<1>2. ASSUME NEW k \in Nat, k \in Good PROVE k + 1 \in Good
  <2>0. SUFFICES ASSUME k + 1 <= n, NEW s \in SUBSET (1 .. k + 1) PROVE f[s] \in S
    OBVIOUS
  <2>1. SUFFICES ASSUME s # {} PROVE f[s] \in S
    OBVIOUS
  <2>2. Max(s) \in s /\ \A x \in s : Max(s) >= x
    <3>1. k + 1 \in Nat
      OBVIOUS
    <3> QED BY <2>1, <3>1, MaxOfIndices
  <2>3. ASSUME NEW x \in s \ {Max(s)} PROVE x \in 1 .. k
    <3>1. x \in 1 .. k + 1 /\ Max(s) \in 1 .. k + 1 /\ x # Max(s) /\ Max(s) >= x
      BY <2>2
    <3> QED BY <3>1
  <2>4. f[s \ {Max(s)}] \in S
    BY <2>0, <2>3, <1>2
  <2>5. s \in SUBSET (1 .. n)
    BY <2>0
  <2> QED BY <2>1, <2>4, <2>5
<1> HIDE DEF Good
<1>3. Nat \subseteq Good
  BY <1>1, <1>2, NatSet
<1> QED BY <1>3 DEF Good

(* Such a function exists, for every way to add an index.                   *)
Adds(op, S, n) == op \in [S \X (1 .. n) -> S]

Accumulates(f, op, base, S, n) ==
    /\ f \in [SUBSET (1 .. n) -> S]
    /\ f[{}] = base
    /\ \A s \in SUBSET (1 .. n) : s # {} => f[s] = op[<<f[s \ {Max(s)}], Max(s)>>]

LEMMA FoldExists ==
    ASSUME NEW S, NEW base \in S, NEW n \in Nat, NEW op, Adds(op, S, n)
    PROVE  \E f : Accumulates(f, op, base, S, n)
<1>0. op \in [S \X (1 .. n) -> S]
  BY DEF Adds
<1> DEFINE Folds(f, k) == /\ f \in [SUBSET (1 .. k) -> S]
                         /\ f[{}] = base
                         /\ \A s \in SUBSET (1 .. k) :
                               s # {} => f[s] = op[<<f[s \ {Max(s)}], Max(s)>>]
           Has(k) == k <= n => \E f : Folds(f, k)
           Good == {k \in Nat : Has(k)}
<1>1. Has(0)
  <2>1. \A s \in SUBSET (1 .. 0) : s = {}
    OBVIOUS
  <2>2. Folds([s \in SUBSET (1 .. 0) |-> base], 0)
    BY <2>1
  <2> QED BY <2>2
<1>2. ASSUME NEW k \in Nat, Has(k) PROVE Has(k + 1)
  <2>0. SUFFICES ASSUME k + 1 <= n PROVE \E f : Folds(f, k + 1)
    OBVIOUS
  <2>00. k <= n
    BY <2>0
  <2>1. PICK f : Folds(f, k)
    BY <1>2, <2>00
  <2>2. 1 .. k \subseteq 1 .. k + 1 /\ 1 .. k + 1 \subseteq 1 .. n /\ k + 1 \in Nat /\ k + 1 \in 1 .. n
    BY <2>0
  <2>3. ASSUME NEW s \in SUBSET (1 .. k + 1), ~(s \subseteq 1 .. k)
        PROVE  Max(s) = k + 1 /\ s \ {k + 1} \in SUBSET (1 .. k)
    <3>1. k + 1 \in s
      BY <2>3
    <3>2. Max(s) \in s /\ \A x \in s : Max(s) >= x
      BY <2>2, <3>1, MaxOfIndices
    <3>3. Max(s) = k + 1
      <4>1. Max(s) >= k + 1 /\ Max(s) \in 1 .. k + 1
        BY <3>1, <3>2
      <4> QED BY <4>1
    <3> QED BY <3>3
  <2> DEFINE g == [s \in SUBSET (1 .. k + 1) |->
                     IF s \subseteq 1 .. k THEN f[s] ELSE op[<<f[s \ {k + 1}], k + 1>>]]
  <2>4. g \in [SUBSET (1 .. k + 1) -> S]
    <3>1. ASSUME NEW s \in SUBSET (1 .. k + 1), s \subseteq 1 .. k PROVE f[s] \in S
      BY <2>1, <3>1
    <3>2. ASSUME NEW s \in SUBSET (1 .. k + 1), ~(s \subseteq 1 .. k)
          PROVE  op[<<f[s \ {k + 1}], k + 1>>] \in S
      <4>1. f[s \ {k + 1}] \in S
        BY <2>1, <2>3, <3>2
      <4> QED BY <1>0, <4>1, <2>2
    <3> QED BY <3>1, <3>2
  <2>5. g[{}] = base
    BY <2>1
  <2>6. ASSUME NEW s \in SUBSET (1 .. k + 1), s # {}
        PROVE  g[s] = op[<<g[s \ {Max(s)}], Max(s)>>]
    <3>1. CASE s \subseteq 1 .. k
      <4>1. g[s \ {Max(s)}] = f[s \ {Max(s)}]
        BY <3>1
      <4> QED BY <2>1, <2>6, <3>1, <4>1
    <3>2. CASE ~(s \subseteq 1 .. k)
      <4>1. Max(s) = k + 1 /\ s \ {k + 1} \in SUBSET (1 .. k) /\ s \ {k + 1} \in SUBSET (1 .. k + 1)
        BY <2>3, <3>2
      <4>2. g[s \ {Max(s)}] = f[s \ {k + 1}]
        BY <4>1
      <4> QED BY <3>2, <4>1, <4>2
    <3> QED BY <3>1, <3>2
  <2> HIDE DEF g
  <2> QED BY <2>4, <2>5, <2>6
<1>3. Nat \subseteq Good
  <2> HIDE DEF Has
  <2>1. 0 \in Good /\ \A k \in Nat : k \in Good => k + 1 \in Good
    BY <1>1, <1>2
  <2> HIDE DEF Good
  <2> QED BY <2>1, NatSet
<1>4. n \in Good
  <2> HIDE DEF Good
  <2> QED BY <1>3
<1>5. Has(n)
  <2> HIDE DEF Has
  <2> QED BY <1>4
<1>6. n <= n
  OBVIOUS
<1>7. PICK f : Folds(f, n)
  <2> HIDE DEF Folds
  <2> QED BY <1>5, <1>6
<1> QED BY <1>7 DEF Accumulates

-----------------------------------------------------------------------------
(* Receipts.                                                               *)

(* What the compaction leaves is a sequence of the same receipts.           *)
LEMMA CompactedReceipts ==
    ASSUME NEW H, NEW r \in Seq(H)
    PROVE  Compacted(r) \in Seq(H)
<1> DEFINE n == Len(r)
           S == Seq(H)
           Next1(k, kept) == IF IsKept(r, k) THEN Append(kept, r[k]) ELSE kept
           op == [x \in S \X (1 .. n) |-> Next1(x[2], x[1])]
           seq == [i \in DOMAIN r |-> i]
           Body1(f, s) == IF s = {} THEN <<>>
                          ELSE IF IsKept(r, seq[Max(s)]) THEN Append(f[s \ {Max(s)}], r[seq[Max(s)]])
                          ELSE f[s \ {Max(s)}]
           Body2(f, s) == IF s = {} THEN <<>> ELSE Next1(Max(s), f[s \ {Max(s)}])
           Good(f) == f = [s \in SUBSET DOMAIN seq |-> Body1(f, s)]
           Filters(f) == f = [s \in SUBSET (1 .. n) |-> Body2(f, s)]
<1>1. n \in Nat /\ DOMAIN r = 1 .. n
  OBVIOUS
<1>2. ASSUME NEW k \in 1 .. n, NEW kept \in S PROVE Next1(k, kept) \in S
  BY <1>1
<1>0. <<>> \in S
  OBVIOUS
<1> HIDE DEF n, S
<1>3. op \in [S \X (1 .. n) -> S]
  <2> HIDE DEF Next1
  <2> QED BY <1>2
<1>4. PICK g : Accumulates(g, op, <<>>, S, n)
  <2>1. Adds(op, S, n)
    <3> HIDE DEF op
    <3> QED BY <1>3 DEF Adds
  <2> HIDE DEF op
  <2> QED BY <1>0, <1>1, <2>1, FoldExists
<1>5. ASSUME NEW s \in SUBSET (1 .. n), s # {} PROVE Max(s) \in 1 .. n
  BY <1>1, <1>5, MaxOfIndices
<1> HIDE DEF Next1
<1>6. Filters(g)
  <2>1. ASSUME NEW s \in SUBSET (1 .. n), s # {} PROVE g[s] = Next1(Max(s), g[s \ {Max(s)}])
    <3>1. g[s \ {Max(s)}] \in S /\ Max(s) \in 1 .. n
      BY <1>4, <1>5, <2>1 DEF Accumulates
    <3>2. <<g[s \ {Max(s)}], Max(s)>> \in S \X (1 .. n)
      BY <3>1
    <3>3. op[<<g[s \ {Max(s)}], Max(s)>>] = Next1(Max(s), g[s \ {Max(s)}])
      BY <3>2
    <3> HIDE DEF op
    <3> QED BY <1>4, <2>1, <3>3 DEF Accumulates
  <2> HIDE DEF op
  <2> QED BY <1>4, <2>1 DEF Accumulates
<1>7. ASSUME NEW f PROVE Good(f) <=> Filters(f)
  <2>1. DOMAIN seq = 1 .. n /\ \A k \in 1 .. n : seq[k] = k
    BY <1>1
  <2> HIDE DEF seq
  <2>2. \A s \in SUBSET (1 .. n) : s # {} => seq[Max(s)] = Max(s)
    BY <1>5, <2>1
  <2>3. \A s \in SUBSET (1 .. n) : Body1(f, s) = Body2(f, s)
    BY <2>2 DEF Next1
  <2> HIDE DEF Body1, Body2
  <2> QED BY <2>1, <2>3
<1>8. PICK f : Filters(f) /\ Compacted(r) = f[1 .. n]
  <2>1. Compacted(r) = (CHOOSE f : Good(f))[DOMAIN seq]
    BY DEF Compacted, FoldLeftDomain, FoldLeft, MapThenFoldSet
  <2>2. DOMAIN seq = 1 .. n
    BY <1>1
  <2>3. Good(g)
    BY <1>6, <1>7
  <2> HIDE DEF Good, seq
  <2>4. Good(CHOOSE f : Good(f))
    BY <2>3
  <2> HIDE DEF Filters
  <2> QED BY <2>1, <2>2, <2>4, <1>7
<1>9. \A s \in SUBSET (1 .. n) : f[s] = Body2(f, s)
  <2> HIDE DEF Body2
  <2> QED BY <1>8
<1>10. f[{}] \in S
  BY <1>0, <1>9
<1>11. ASSUME NEW s \in SUBSET (1 .. n), s # {}, f[s \ {Max(s)}] \in S PROVE f[s] \in S
  <2>1. f[s] = Next1(Max(s), f[s \ {Max(s)}])
    BY <1>9, <1>11
  <2> QED BY <2>1, <1>2, <1>5, <1>11
<1>12. \A s \in SUBSET (1 .. n) : f[s] \in S
  <2> HIDE DEF Filters
  <2> QED BY <1>1, <1>10, <1>11, FoldStays
<1> QED BY <1>8, <1>12 DEF S

-----------------------------------------------------------------------------
(* Types of the guard's operators.                                          *)

LEMMA OptElement ==
    ASSUME NEW S, NEW x \in Opt(S), x # <<>>
    PROVE  x[1] \in S /\ x = <<x[1]>> /\ DOMAIN x = {1}
BY DEF Opt

LEMMA MapElement ==
    ASSUME NEW f \in ToolMaps
    PROVE  /\ f \in [DOMAIN f -> Seen] /\ DOMAIN f \subseteq Nat /\ 0 \notin DOMAIN f
           /\ \A t \in DOMAIN f : f[t] \in Seen
BY DEF ToolMaps

LEMMA IsMap ==
    ASSUME NEW T \in SUBSET (Nat \ {0}), NEW f \in [T -> Seen]
    PROVE  f \in ToolMaps
BY DEF ToolMaps

LEMMA RestrictMap ==
    ASSUME NEW f \in ToolMaps, NEW T \in SUBSET DOMAIN f
    PROVE  /\ Restrict(f, T) \in ToolMaps /\ DOMAIN Restrict(f, T) = T
           /\ \A t \in T : Restrict(f, T)[t] = f[t]
<1>1. Restrict(f, T) \in [T -> Seen] /\ T \in SUBSET (Nat \ {0})
  BY MapElement DEF Restrict
<1> QED BY <1>1, IsMap DEF Restrict

LEMMA PutMap ==
    ASSUME NEW f \in ToolMaps, NEW t \in Nat \ {0}, NEW v \in Seen
    PROVE  /\ Put(f, t, v) \in ToolMaps /\ DOMAIN Put(f, t, v) = DOMAIN f \cup {t}
           /\ Put(f, t, v)[t] = v
           /\ \A u \in DOMAIN f : u # t => Put(f, t, v)[u] = f[u]
<1>1. Put(f, t, v) \in [DOMAIN f \cup {t} -> Seen] /\ DOMAIN f \cup {t} \in SUBSET (Nat \ {0})
  BY MapElement DEF Put
<1> QED BY <1>1, IsMap DEF Put

LEMMA OverMap ==
    ASSUME NEW f \in ToolMaps, NEW g \in ToolMaps
    PROVE  /\ Over(f, g) \in ToolMaps /\ DOMAIN Over(f, g) = DOMAIN f \cup DOMAIN g
           /\ \A t \in DOMAIN f : Over(f, g)[t] = f[t]
           /\ \A t \in DOMAIN g \ DOMAIN f : Over(f, g)[t] = g[t]
<1>1. Over(f, g) \in [DOMAIN f \cup DOMAIN g -> Seen] /\ DOMAIN f \cup DOMAIN g \in SUBSET (Nat \ {0})
  BY MapElement DEF Over
<1> QED BY <1>1, IsMap DEF Over

(* The tools that closing a prompt's tools closes.                          *)
Closing(g, prompt) == {t \in DOMAIN g.pending : g.pending[t].prompt \in {None, prompt}}

(* What a tool that is closed leaves among the completed ones.              *)
Entry(g, t, at) == [g.pending[t] EXCEPT !.at = Max({@, at})]

LEMMA ClosePendingType ==
    ASSUME NEW g \in Guards, NEW p \in Nat, NEW at \in Nat
    PROVE  /\ ClosePending(g, p, at) \in Guards
           /\ DOMAIN ClosePending(g, p, at).pending = DOMAIN g.pending \ Closing(g, p)
           /\ \A t \in DOMAIN g.pending \ Closing(g, p) :
                 ClosePending(g, p, at).pending[t] = g.pending[t]
           /\ DOMAIN ClosePending(g, p, at).completed = DOMAIN g.completed \cup Closing(g, p)
           /\ \A t \in Closing(g, p) :
                 ClosePending(g, p, at).completed[t] = Entry(g, t, at)
           /\ \A t \in DOMAIN g.completed \ Closing(g, p) :
                 ClosePending(g, p, at).completed[t] = g.completed[t]
<1> DEFINE C == Closing(g, p)
           done == [t \in C |-> Entry(g, t, at)]
           left == Restrict(g.pending, DOMAIN g.pending \ C)
<1>1. g.pending \in ToolMaps /\ g.completed \in ToolMaps
  BY DEF Guards
<1>2. C \subseteq DOMAIN g.pending /\ DOMAIN g.pending \subseteq Nat \ {0}
  BY <1>1, MapElement DEF Closing
<1>3. ASSUME NEW t \in C PROVE Entry(g, t, at) \in Seen
  <2>1. g.pending[t] \in Seen
    BY <1>1, <1>2, MapElement
  <2>2. Max({g.pending[t].at, at}) \in Nat
    BY <2>1, MaxOfTwo DEF Seen
  <2> QED BY <2>1, <2>2 DEF Seen, Entry
<1>4. done \in [C -> Seen]
  <2> HIDE DEF C
  <2> QED BY <1>3
<1>5. done \in ToolMaps /\ DOMAIN done = C /\ \A t \in C : done[t] = Entry(g, t, at)
  <2>1. C \in SUBSET (Nat \ {0})
    BY <1>2
  <2> HIDE DEF C
  <2>2. DOMAIN done = C /\ \A t \in C : done[t] = Entry(g, t, at)
    OBVIOUS
  <2> HIDE DEF done
  <2> QED BY <1>4, <2>1, <2>2, IsMap
<1>6. ClosePending(g, p, at) = [g EXCEPT !.pending = left, !.completed = Over(done, g.completed)]
  BY DEF ClosePending, Closing, Entry
<1>7. left \in ToolMaps /\ DOMAIN left = DOMAIN g.pending \ C /\ \A t \in DOMAIN g.pending \ C : left[t] = g.pending[t]
  <2> HIDE DEF C
  <2> QED BY <1>1, RestrictMap
<1> HIDE DEF C, done, left
<1>8. /\ Over(done, g.completed) \in ToolMaps
      /\ DOMAIN Over(done, g.completed) = C \cup DOMAIN g.completed
      /\ \A t \in C : Over(done, g.completed)[t] = Entry(g, t, at)
      /\ \A t \in DOMAIN g.completed \ C : Over(done, g.completed)[t] = g.completed[t]
  BY <1>1, <1>5, OverMap
<1>9. /\ ClosePending(g, p, at).pending = left
      /\ ClosePending(g, p, at).completed = Over(done, g.completed)
      /\ ClosePending(g, p, at) \in Guards
  BY <1>6, <1>7, <1>8 DEF Guards
<1> QED BY <1>7, <1>8, <1>9 DEF C

(* The rest of the guard is left alone.                                     *)
LEMMA ClosePendingRest ==
    ASSUME NEW g \in Guards, NEW p, NEW at
    PROVE  LET c == ClosePending(g, p, at)
           IN  /\ c.active = g.active /\ c.activeAt = g.activeAt /\ c.foreground = g.foreground
               /\ c.completedAt = g.completedAt /\ c.retired = g.retired
               /\ c.submittedAt = g.submittedAt /\ c.key = g.key /\ c.awaiting = g.awaiting
               /\ c.background = g.background /\ c.anonymous = g.anonymous
               /\ c.delivered = g.delivered /\ c.fence = g.fence
BY DEF ClosePending, Guards

LEMMA ClosePendingGuard ==
    ASSUME NEW g \in Guards, NEW p \in Nat, NEW at \in Nat
    PROVE  ClosePending(g, p, at) \in Guards /\ ClosePending(g, p, at).delivered = g.delivered
<1>1. ClosePending(g, p, at) \in Guards
  BY ClosePendingType
<1>2. ClosePending(g, p, at).delivered = g.delivered
  BY ClosePendingRest
<1> QED BY <1>1, <1>2

LEMMA NewGuardType == NewGuard \in Guards
<1>1. <<>> \in ToolMaps
  <2>1. <<>> \in [{} -> Seen]
    OBVIOUS
  <2> QED BY <2>1, IsMap
<1> QED BY <1>1 DEF NewGuard, Guards, Opt, None

LEMMA FenceAfterType ==
    ASSUME NEW f \in Opt(Fences), NEW h
    PROVE  FenceAfter(f, h) \in Opt(Fences)
<1>1. CASE f = <<>>
  BY <1>1 DEF FenceAfter
<1>2. CASE f # <<>>
  <2>1. f[1] \in Fences
    BY <1>2, OptElement
  <2>2. [f[1] EXCEPT !.awaiting = FALSE] \in Fences
    BY <2>1 DEF Fences
  <2>3. <<[f[1] EXCEPT !.awaiting = FALSE]>> \in Opt(Fences)
    BY <2>2 DEF Opt
  <2> QED BY <2>3 DEF FenceAfter
<1> QED BY <1>1, <1>2

LEMMA AfterSubmitType ==
    ASSUME NEW g \in Guards, NEW h \in Hooks
    PROVE  AfterSubmit(g, h) \in Guards
<1>1. RetireActive(g) \in SUBSET Nat
  BY DEF RetireActive, Guards
<1>2. <<>> \in Opt(Nat)
  BY DEF Opt
<1>3. h.at \in Nat
  BY DEF Hooks
<1> QED BY <1>1, <1>2, <1>3 DEF AfterSubmit, Guards, None

LEMMA AfterPromptType ==
    ASSUME NEW g \in Guards, NEW h \in Hooks
    PROVE  AfterPrompt(g, h) \in Guards
<1>1. RetireActive(g) \in SUBSET Nat
  BY DEF RetireActive, Guards
<1>2. h.at \in Nat /\ h.prompt \in Nat /\ g.activeAt \in Nat
  BY DEF Hooks, Guards
<1>3. Max({g.activeAt, h.at}) \in Nat
  BY <1>2, MaxOfTwo
<1>4. CASE h.prompt = None
  BY <1>4 DEF AfterPrompt
<1>5. CASE h.prompt # None /\ h.prompt = g.active
  BY <1>3, <1>5 DEF AfterPrompt, Guards
<1>6. CASE h.prompt # None /\ h.prompt # g.active /\ h.at > g.activeAt
  <2>1. AfterPrompt(g, h) = [g EXCEPT !.retired = RetireActive(g), !.active = h.prompt, !.activeAt = h.at,
                                      !.foreground = TRUE, !.awaiting = FALSE]
    BY <1>6 DEF AfterPrompt
  <2>2. h.prompt \in Nat /\ h.at \in Nat
    BY <1>2
  <2> QED BY Zenon, <2>1, <2>2, <1>1 DEF Guards
<1>7. CASE h.prompt # None /\ h.prompt # g.active /\ ~(h.at > g.activeAt)
  BY <1>7 DEF AfterPrompt
<1> QED BY <1>4, <1>5, <1>6, <1>7

LEMMA AfterToolType ==
    ASSUME NEW g \in Guards, NEW h \in Hooks
    PROVE  AfterTool(g, h) \in Guards
<1>0. g.pending \in ToolMaps /\ g.completed \in ToolMaps
  BY DEF Guards
<1>1. CASE h.event = "PreToolUse"
  <2>1. h.tool \in Nat \ {0} /\ [prompt |-> h.prompt, class |-> h.class, at |-> h.at] \in Seen
    BY <1>1 DEF Hooks, Seen, ToolEvents, None
  <2>2. Put(g.pending, h.tool, [prompt |-> h.prompt, class |-> h.class, at |-> h.at]) \in ToolMaps
    BY <1>0, <2>1, PutMap
  <2>3. AfterTool(g, h) = [g EXCEPT !.pending = Put(@, h.tool, [prompt |-> h.prompt, class |-> h.class, at |-> h.at])]
    BY <1>1 DEF AfterTool, Completions
  <2> QED BY Zenon, <2>2, <2>3 DEF Guards
<1>2. CASE h.event \in Completions
  <2> DEFINE prompt == IF h.tool \in DOMAIN g.pending /\ g.pending[h.tool].prompt # None
                       THEN g.pending[h.tool].prompt ELSE h.prompt
             done == [prompt |-> prompt, class |-> h.class, at |-> h.at]
  <2>1. h.tool \in Nat \ {0} /\ h.prompt \in Nat /\ h.class \in Classes /\ h.at \in Nat
    BY <1>2 DEF Hooks, None
  <2>2. prompt \in Nat
    BY <1>0, <2>1, MapElement DEF Seen
  <2> HIDE DEF prompt
  <2>3. done \in Seen
    BY <2>1, <2>2 DEF Seen
  <2>4. Restrict(g.pending, DOMAIN g.pending \ {h.tool}) \in ToolMaps
    BY <1>0, RestrictMap
  <2>5. Put(g.completed, h.tool, done) \in ToolMaps
    BY <1>0, <2>1, <2>3, PutMap
  <2> HIDE DEF done
  <2>6. AfterTool(g, h) = [g EXCEPT !.pending = Restrict(@, DOMAIN @ \ {h.tool}),
                                    !.completed = Put(@, h.tool, done)]
    BY <1>2 DEF AfterTool, done, prompt, Completions
  <2> QED BY Zenon, <2>4, <2>5, <2>6 DEF Guards
<1>3. CASE h.event # "PreToolUse" /\ h.event \notin Completions
  BY <1>3 DEF AfterTool
<1> QED BY <1>1, <1>2, <1>3

(* The Stop's own part of the guard, before it closes the tools of its prompt. *)
Ended(g, h) == IF h.prompt # None THEN h.prompt ELSE g.active
Known(g, h) == {Ended(g, h)} \ {None}

Fenced1(g, h) ==
    [g EXCEPT !.completedAt = Max({@, h.at}),
              !.background = IF h.wake THEN @ \cup Known(g, h) ELSE @,
              !.anonymous = @ \/ (h.wake /\ Known(g, h) = {}),
              !.retired = IF h.wake THEN @ ELSE @ \cup Known(g, h)]
Freed(g, h) ==
    IF h.prompt \in {None, g.active}
    THEN [Fenced1(g, h) EXCEPT !.active = None, !.activeAt = 0, !.foreground = FALSE]
    ELSE Fenced1(g, h)

LEMMA AfterStopIs ==
    ASSUME NEW g, NEW h, h.event = "Stop"
    PROVE  AfterStop(g, h) =
              IF h.wake THEN Freed(g, h)
              ELSE [ClosePending(Freed(g, h), Ended(g, h), h.at) EXCEPT
                       !.anonymous = FALSE, !.background = @ \ Known(g, h)]
BY Zenon DEF AfterStop, Freed, Fenced1, Known, Ended

LEMMA FreedType ==
    ASSUME NEW g \in Guards, NEW h \in Hooks
    PROVE  Freed(g, h) \in Guards /\ Ended(g, h) \in Nat /\ Known(g, h) \in SUBSET Nat
<1>1. g.completedAt \in Nat /\ g.active \in Nat /\ h.at \in Nat /\ h.prompt \in Nat
  BY DEF Guards, Hooks
<1>2. Max({g.completedAt, h.at}) \in Nat
  BY <1>1, MaxOfTwo
<1>3. Ended(g, h) \in Nat
  BY <1>1 DEF Ended
<1>4. Known(g, h) \in SUBSET Nat
  BY <1>3 DEF Known
<1>5. g.background \in SUBSET Nat /\ g.retired \in SUBSET Nat
  BY DEF Guards
<1>6. /\ (IF h.wake THEN g.background \cup Known(g, h) ELSE g.background) \in SUBSET Nat
      /\ (IF h.wake THEN g.retired ELSE g.retired \cup Known(g, h)) \in SUBSET Nat
  BY <1>4, <1>5
<1>7. (g.anonymous \/ (h.wake /\ Known(g, h) = {})) \in BOOLEAN
  BY Zenon
<1>8. Fenced1(g, h) \in Guards
  BY Zenon, <1>2, <1>6, <1>7 DEF Guards, Fenced1
<1>9. 0 \in Nat
  OBVIOUS
<1>10. [Fenced1(g, h) EXCEPT !.active = None, !.activeAt = 0, !.foreground = FALSE] \in Guards
  BY Zenon, <1>8, <1>9 DEF Guards, None
<1> QED BY Zenon, <1>3, <1>4, <1>8, <1>10 DEF Freed

LEMMA AfterStopType ==
    ASSUME NEW g \in Guards, NEW h \in Hooks
    PROVE  AfterStop(g, h) \in Guards
<1>1. CASE h.event # "Stop"
  BY <1>1 DEF AfterStop
<1>2. CASE h.event = "Stop"
  <2>1. Freed(g, h) \in Guards /\ Ended(g, h) \in Nat /\ Known(g, h) \in SUBSET Nat
    BY FreedType
  <2>2. h.at \in Nat
    BY DEF Hooks
  <2> DEFINE c == ClosePending(Freed(g, h), Ended(g, h), h.at)
  <2>3. c \in Guards
    BY <2>1, <2>2, ClosePendingType
  <2> HIDE DEF c
  <2>4. c.background \ Known(g, h) \in SUBSET Nat
    BY <2>3 DEF Guards
  <2>5. [c EXCEPT !.anonymous = FALSE, !.background = @ \ Known(g, h)] \in Guards
    BY Zenon, <2>3, <2>4 DEF Guards
  <2> QED BY Zenon, <1>2, <2>1, <2>5, AfterStopIs DEF c
<1> QED BY <1>1, <1>2

(* The stages of a commit.                                                  *)
Heard(g, h) == [g EXCEPT !.delivered = @ \cup {h.at}]
Moved(g, h) == [Heard(g, h) EXCEPT !.fence = FenceAfter(@, h)]

LEMMA CommittedIs ==
    ASSUME NEW g, NEW h, NEW advance \in BOOLEAN
    PROVE  Committed(g, h, advance) =
              IF advance THEN AfterStop(AfterTool(AfterPrompt(AfterSubmit(Moved(g, h), h), h), h), h)
              ELSE Heard(g, h)
BY DEF Committed, Moved, Heard

LEMMA HeardType ==
    ASSUME NEW g \in Guards, NEW h \in Hooks
    PROVE  Heard(g, h) \in Guards /\ Moved(g, h) \in Guards
<1>1. g.delivered \cup {h.at} \in SUBSET Nat
  BY DEF Guards, Hooks
<1>2. Heard(g, h) \in Guards
  BY Zenon, <1>1 DEF Guards, Heard
<1>3. FenceAfter(Heard(g, h).fence, h) \in Opt(Fences)
  BY <1>2, FenceAfterType DEF Guards
<1>4. Moved(g, h) \in Guards
  BY Zenon, <1>2, <1>3 DEF Guards, Moved
<1> QED BY <1>2, <1>4

LEMMA CommittedType ==
    ASSUME NEW g \in Guards, NEW h \in Hooks, NEW advance \in BOOLEAN
    PROVE  Committed(g, h, advance) \in Guards
BY HeardType, AfterSubmitType, AfterPromptType, AfterToolType, AfterStopType, CommittedIs

LEMMA AfterStopDelivered ==
    ASSUME NEW g \in Guards, NEW h \in Hooks
    PROVE  AfterStop(g, h).delivered = g.delivered
<1>1. CASE h.event # "Stop"
  BY <1>1 DEF AfterStop
<1>2. CASE h.event = "Stop"
  <2>1. Freed(g, h) \in Guards
    BY FreedType
  <2>2. Freed(g, h).delivered = g.delivered
    BY DEF Freed, Fenced1, Guards
  <2> DEFINE c == ClosePending(Freed(g, h), Ended(g, h), h.at)
  <2>3. c.delivered = Freed(g, h).delivered /\ c \in Guards
    <3>1. Ended(g, h) \in Nat /\ h.at \in Nat
      BY FreedType DEF Hooks
    <3> QED BY <2>1, <3>1, ClosePendingGuard
  <2> HIDE DEF c
  <2>4. [c EXCEPT !.anonymous = FALSE, !.background = @ \ Known(g, h)].delivered = c.delivered
    BY <2>3 DEF Guards
  <2> QED BY Zenon, <1>2, <2>2, <2>3, <2>4, AfterStopIs DEF c
<1> QED BY <1>1, <1>2

LEMMA AfterToolDelivered ==
    ASSUME NEW g \in Guards, NEW h \in Hooks
    PROVE  AfterTool(g, h).delivered = g.delivered
BY DEF AfterTool, Guards

LEMMA AfterPromptDelivered ==
    ASSUME NEW g \in Guards, NEW h \in Hooks
    PROVE  AfterPrompt(g, h).delivered = g.delivered
BY DEF AfterPrompt, Guards

LEMMA AfterSubmitDelivered ==
    ASSUME NEW g \in Guards, NEW h \in Hooks
    PROVE  AfterSubmit(g, h).delivered = g.delivered
BY DEF AfterSubmit, Guards

LEMMA CommittedDelivered ==
    ASSUME NEW g \in Guards, NEW h \in Hooks, NEW advance \in BOOLEAN
    PROVE  Committed(g, h, advance).delivered = g.delivered \cup {h.at}
<1>1. Heard(g, h).delivered = g.delivered \cup {h.at} /\ Moved(g, h).delivered = g.delivered \cup {h.at}
  BY DEF Heard, Moved, Guards
<1>2. Heard(g, h) \in Guards /\ Moved(g, h) \in Guards
  BY HeardType
<1> DEFINE g1 == AfterSubmit(Moved(g, h), h)
           g2 == AfterPrompt(g1, h)
           g3 == AfterTool(g2, h)
<1>3. g1 \in Guards /\ g1.delivered = Moved(g, h).delivered
  BY <1>2, AfterSubmitType, AfterSubmitDelivered
<1>4. g2 \in Guards /\ g2.delivered = g1.delivered
  BY <1>3, AfterPromptType, AfterPromptDelivered
<1>5. g3 \in Guards /\ g3.delivered = g2.delivered
  BY <1>4, AfterToolType, AfterToolDelivered
<1>6. AfterStop(g3, h).delivered = g3.delivered
  BY <1>5, AfterStopDelivered
<1> QED BY <1>1, <1>3, <1>4, <1>5, <1>6, CommittedIs

-----------------------------------------------------------------------------
(* What the user and the terminal do to the guard.                          *)

LEMMA SubmittedType ==
    ASSUME NEW g \in Guards, NEW at \in Nat, NEW tool
    PROVE  Submitted(g, at, tool) \in Guards /\ Submitted(g, at, tool).delivered = g.delivered
<1>1. Restrict(g.pending, DOMAIN g.pending \ {tool}) \in ToolMaps
  BY RestrictMap DEF Guards
<1>2. Max({g.submittedAt, at}) \in Nat
  BY MaxOfTwo DEF Guards
<1>3. Submitted(g, at, tool) \in Guards
  BY Zenon, <1>1, <1>2 DEF Guards, Submitted
<1>4. Submitted(g, at, tool).delivered = g.delivered
  BY DEF Guards, Submitted
<1> QED BY <1>3, <1>4

LEMMA EscapePressedType ==
    ASSUME NEW g \in Guards
    PROVE  EscapePressed(g) \in Guards /\ EscapePressed(g).delivered = g.delivered
<1>1. <<g.active>> \in Opt(Nat)
  BY DEF Guards, Opt
<1>2. EscapePressed(g) \in Guards
  BY Zenon, <1>1 DEF Guards, EscapePressed
<1>3. EscapePressed(g).delivered = g.delivered
  BY DEF Guards, EscapePressed
<1> QED BY <1>2, <1>3

(* The prompt that a rendered Escape is about.                              *)
Aimed(g) == IF g.key # <<>> /\ g.key[1] # None THEN g.key[1] ELSE g.active

ClosedByRender(g, at) == ClosePending([g EXCEPT !.key = <<>>], Aimed(g), at)

LEMMA InterruptedIs ==
    ASSUME NEW g, NEW at
    PROVE  Interrupted(g, at) =
             LET closed == ClosedByRender(g, at)
                 retired == [closed EXCEPT !.retired = @ \cup ({Aimed(g)} \ {None}), !.awaiting = TRUE]
             IN  IF WakeExpected(g, Aimed(g)) THEN closed
                 ELSE IF Aimed(g) = None \/ g.active = Aimed(g)
                      THEN [retired EXCEPT !.active = None, !.activeAt = 0, !.foreground = FALSE]
                      ELSE retired
BY Zenon DEF Interrupted, ClosedByRender, Aimed

LEMMA ClosedByRenderType ==
    ASSUME NEW g \in Guards, NEW at \in Nat
    PROVE  /\ Aimed(g) \in Nat
           /\ [g EXCEPT !.key = <<>>] \in Guards
           /\ ClosedByRender(g, at) \in Guards
           /\ ClosedByRender(g, at).delivered = g.delivered
<1>1. Aimed(g) \in Nat
  BY OptElement DEF Aimed, Guards
<1>2. <<>> \in Opt(Nat)
  BY DEF Opt
<1>3. [g EXCEPT !.key = <<>>] \in Guards
  BY Zenon, <1>2 DEF Guards
<1>4. [g EXCEPT !.key = <<>>].delivered = g.delivered
  BY DEF Guards
<1> DEFINE base == [g EXCEPT !.key = <<>>]
<1> HIDE DEF base
<1>5. ClosePending(base, Aimed(g), at) \in Guards /\ ClosePending(base, Aimed(g), at).delivered = base.delivered
  BY <1>1, <1>3, ClosePendingGuard DEF base
<1> QED BY <1>1, <1>3, <1>4, <1>5 DEF ClosedByRender, base

LEMMA InterruptedType ==
    ASSUME NEW g \in Guards, NEW at \in Nat
    PROVE  Interrupted(g, at) \in Guards /\ Interrupted(g, at).delivered = g.delivered
<1> DEFINE closed == ClosedByRender(g, at)
           retired == [closed EXCEPT !.retired = @ \cup ({Aimed(g)} \ {None}), !.awaiting = TRUE]
           freed == [retired EXCEPT !.active = None, !.activeAt = 0, !.foreground = FALSE]
<1>1. closed \in Guards /\ closed.delivered = g.delivered /\ Aimed(g) \in Nat
  BY ClosedByRenderType
<1>2. Interrupted(g, at) \in {closed, retired, freed}
  BY Zenon, InterruptedIs
<1> HIDE DEF closed
<1>3. closed.retired \cup ({Aimed(g)} \ {None}) \in SUBSET Nat
  BY <1>1 DEF Guards
<1>4. retired \in Guards
  BY Zenon, <1>1, <1>3 DEF Guards
<1>5. retired.delivered = g.delivered
  BY <1>1 DEF Guards
<1> HIDE DEF retired
<1>6. freed \in Guards
  <2>1. 0 \in Nat
    OBVIOUS
  <2> QED BY Zenon, <1>4, <2>1 DEF Guards, None
<1>7. freed.delivered = g.delivered
  BY <1>4, <1>5 DEF Guards
<1> HIDE DEF freed
<1> QED BY <1>1, <1>2, <1>4, <1>5, <1>6, <1>7

(* The tools that a Ctrl-C fences.                                          *)
FencedBy(g, at) ==
    [scope |-> g.active, at |-> at, tools |-> Closing(g, g.active), awaiting |-> TRUE]

LEMMA CtrlCPressedType ==
    ASSUME NEW g \in Guards, NEW at \in Nat
    PROVE  /\ CtrlCPressed(g, at) = ClosePending([g EXCEPT !.fence = <<FencedBy(g, at)>>], g.active, at)
           /\ [g EXCEPT !.fence = <<FencedBy(g, at)>>] \in Guards
           /\ CtrlCPressed(g, at) \in Guards
           /\ CtrlCPressed(g, at).delivered = g.delivered
<1>1. CtrlCPressed(g, at) = ClosePending([g EXCEPT !.fence = <<FencedBy(g, at)>>], g.active, at)
  BY Zenon DEF CtrlCPressed, FencedBy, Closing
<1>2. g.active \in Nat /\ g.pending \in ToolMaps
  BY DEF Guards
<1>3. Closing(g, g.active) \in SUBSET (Nat \ {0})
  BY <1>2, MapElement DEF Closing
<1>4. FencedBy(g, at) \in Fences
  BY <1>2, <1>3 DEF FencedBy, Fences
<1>5. <<FencedBy(g, at)>> \in Opt(Fences)
  BY Zenon, <1>4 DEF Opt
<1>6. [g EXCEPT !.fence = <<FencedBy(g, at)>>] \in Guards
  BY Zenon, <1>5 DEF Guards
<1>7. [g EXCEPT !.fence = <<FencedBy(g, at)>>].delivered = g.delivered
  BY DEF Guards
<1> DEFINE base == [g EXCEPT !.fence = <<FencedBy(g, at)>>]
<1> HIDE DEF base
<1>8. ClosePending(base, g.active, at) \in Guards /\ ClosePending(base, g.active, at).delivered = base.delivered
  BY <1>2, <1>6, ClosePendingGuard DEF base
<1> QED BY <1>1, <1>6, <1>7, <1>8 DEF base

-----------------------------------------------------------------------------
(* The guard that is rebuilt from receipts knows no delivery beyond them.   *)

GuardsOf(D) == {g \in Guards : g.delivered \subseteq D}

LEMMA ReplayedType ==
    ASSUME NEW D, NEW r \in Seq(HooksAt(D))
    PROVE  Replayed(r) \in Guards /\ Replayed(r).delivered \subseteq D
<1> DEFINE n == Len(r)
           S == GuardsOf(D)
           Step(g, k) == IF Accepts(g, r[k]) THEN Committed(g, r[k], TRUE) ELSE g
           op == [x \in S \X (1 .. n) |-> Step(x[1], x[2])]
           Body(f, s) == IF s = {} THEN NewGuard ELSE Step(f[s \ {Max(s)}], Max(s))
           Good(f) == f = [s \in SUBSET DOMAIN r |-> Body(f, s)]
<1>1. n \in Nat /\ DOMAIN r = 1 .. n
  OBVIOUS
<1>2. ASSUME NEW k \in 1 .. n, NEW g \in S PROVE Step(g, k) \in S
  <2>1. g \in Guards /\ g.delivered \subseteq D /\ r[k] \in Hooks /\ r[k].at \in D
    BY DEF GuardsOf, HooksAt
  <2>2. Committed(g, r[k], TRUE) \in Guards /\ Committed(g, r[k], TRUE).delivered = g.delivered \cup {r[k].at}
    BY <2>1, CommittedType, CommittedDelivered
  <2> QED BY <2>1, <2>2 DEF GuardsOf
<1>0. NewGuard \in S
  BY NewGuardType DEF NewGuard, GuardsOf
<1> HIDE DEF n, S
<1>3. op \in [S \X (1 .. n) -> S]
  <2> HIDE DEF Step
  <2> QED BY <1>2
<1>4. PICK g : Accumulates(g, op, NewGuard, S, n)
  <2>1. Adds(op, S, n)
    <3> HIDE DEF op
    <3> QED BY <1>3 DEF Adds
  <2> HIDE DEF op
  <2> QED BY <1>0, <1>1, <2>1, FoldExists
<1>5. ASSUME NEW s \in SUBSET (1 .. n), s # {} PROVE Max(s) \in 1 .. n
  BY <1>1, <1>5, MaxOfIndices
<1> HIDE DEF Step
<1>6. ASSUME NEW s \in SUBSET (1 .. n) PROVE g[s] = Body(g, s)
  <2>1. CASE s = {}
    BY <1>4, <2>1 DEF Accumulates
  <2>2. CASE s # {}
    <3>1. g[s \ {Max(s)}] \in S /\ Max(s) \in 1 .. n
      BY <1>4, <1>5, <2>2 DEF Accumulates
    <3>2. <<g[s \ {Max(s)}], Max(s)>> \in S \X (1 .. n)
      BY <3>1
    <3>3. op[<<g[s \ {Max(s)}], Max(s)>>] = Step(g[s \ {Max(s)}], Max(s))
      BY <3>2
    <3> HIDE DEF op
    <3> QED BY <1>4, <2>2, <3>3 DEF Accumulates
  <2> QED BY <2>1, <2>2
<1>7. Good(g)
  <2>1. g \in [SUBSET DOMAIN r -> S]
    BY <1>1, <1>4 DEF Accumulates
  <2>2. \A s \in SUBSET DOMAIN r : g[s] = Body(g, s)
    BY <1>1, <1>6
  <2> HIDE DEF Body
  <2> QED BY <2>1, <2>2
<1>8. PICK f : Good(f) /\ Replayed(r) = f[1 .. n]
  <2>1. Replayed(r) = (CHOOSE f : Good(f))[DOMAIN r]
    BY DEF Replayed, FoldLeft, MapThenFoldSet, Step
  <2> HIDE DEF Good
  <2>2. Good(CHOOSE f : Good(f))
    BY <1>7
  <2> QED BY <2>1, <2>2, <1>1
<1>9. \A s \in SUBSET (1 .. n) : f[s] = Body(f, s)
  <2> HIDE DEF Body
  <2> QED BY <1>1, <1>8
<1>10. f[{}] \in S
  BY <1>0, <1>9
<1>11. ASSUME NEW s \in SUBSET (1 .. n), s # {}, f[s \ {Max(s)}] \in S PROVE f[s] \in S
  <2>1. f[s] = Step(f[s \ {Max(s)}], Max(s))
    BY <1>9, <1>11
  <2> QED BY <2>1, <1>2, <1>5, <1>11
<1>12. \A s \in SUBSET (1 .. n) : f[s] \in S
  <2> HIDE DEF Good
  <2> QED BY <1>1, <1>10, <1>11, FoldStays
<1> QED BY <1>8, <1>12 DEF S, GuardsOf

LEMMA RestoredType ==
    ASSUME NEW D \in SUBSET Nat, NEW r \in Seq(HooksAt(D)), NEW fence \in Opt(Fences),
           NEW at \in Nat, NEW tool
    PROVE  Restored(r, D, fence, at, tool) \in Guards /\ Restored(r, D, fence, at, tool).delivered = D
<1> DEFINE replayed == [Replayed(r) EXCEPT !.delivered = @ \cup D]
           Closed(f, t) ==
             IF t \in DOMAIN replayed.pending
             THEN [replayed.pending[t] EXCEPT !.at = Max({@, f.at})]
             ELSE [prompt |-> f.scope, class |-> "", at |-> f.at]
           done == [t \in fence[1].tools |-> Closed(fence[1], t)]
           fenced == IF fence = <<>> THEN replayed
                     ELSE [replayed EXCEPT
                         !.fence = fence,
                         !.pending = Restrict(@, DOMAIN @ \ fence[1].tools),
                         !.completed = Over(@, done)]
<1>1. Replayed(r) \in Guards /\ Replayed(r).delivered \subseteq D
  BY ReplayedType
<1>2. replayed \in Guards /\ replayed.delivered = D
  <2>1. Replayed(r).delivered \cup D = D
    BY <1>1
  <2>2. replayed \in Guards
    BY Zenon, <1>1, <2>1 DEF Guards
  <2>3. replayed.delivered = D
    BY <1>1, <2>1 DEF Guards
  <2> QED BY <2>2, <2>3
<1>3. Restored(r, D, fence, at, tool) = IF at = 0 THEN fenced ELSE Submitted(fenced, at, tool)
  BY Zenon DEF Restored
<1> HIDE DEF replayed
<1>4. fenced \in Guards /\ fenced.delivered = D
  <2>1. CASE fence = <<>>
    BY <1>2, <2>1
  <2>2. CASE fence # <<>>
    <3>1. fence[1] \in Fences
      BY <2>2, OptElement
    <3>2. fence[1].tools \in SUBSET (Nat \ {0}) /\ fence[1].at \in Nat /\ fence[1].scope \in Nat
      BY <3>1 DEF Fences
    <3>3. replayed.pending \in ToolMaps /\ replayed.completed \in ToolMaps
      BY <1>2 DEF Guards
    <3>4. ASSUME NEW t \in fence[1].tools PROVE Closed(fence[1], t) \in Seen
      <4>1. CASE t \in DOMAIN replayed.pending
        <5>1. replayed.pending[t] \in Seen
          BY <3>3, <4>1, MapElement
        <5>2. Max({replayed.pending[t].at, fence[1].at}) \in Nat
          BY <3>2, <5>1, MaxOfTwo DEF Seen
        <5> QED BY <4>1, <5>1, <5>2 DEF Seen
      <4>2. CASE t \notin DOMAIN replayed.pending
        BY <3>2, <4>2 DEF Seen, Classes
      <4> QED BY <4>1, <4>2
    <3> HIDE DEF Closed
    <3>5. done \in [fence[1].tools -> Seen]
      BY <3>4
    <3> HIDE DEF done
    <3>6. done \in ToolMaps
      BY <3>2, <3>5, IsMap
    <3>7. Over(replayed.completed, done) \in ToolMaps
      BY <3>3, <3>6, OverMap
    <3>8. Restrict(replayed.pending, DOMAIN replayed.pending \ fence[1].tools) \in ToolMaps
      BY <3>3, RestrictMap
    <3>9. [replayed EXCEPT !.fence = fence,
                           !.pending = Restrict(@, DOMAIN @ \ fence[1].tools),
                           !.completed = Over(@, done)] \in Guards
      BY Zenon, <1>2, <3>7, <3>8 DEF Guards
    <3>10. [replayed EXCEPT !.fence = fence,
                           !.pending = Restrict(@, DOMAIN @ \ fence[1].tools),
                           !.completed = Over(@, done)].delivered = D
      BY <1>2 DEF Guards
    <3> QED BY Zenon, <2>2, <3>9, <3>10
  <2> QED BY <2>1, <2>2
<1> HIDE DEF fenced
<1> QED BY <1>3, <1>4, SubmittedType

-----------------------------------------------------------------------------
(* Types of the session's operators.                                        *)

LEMMA OptUpdate ==
    ASSUME NEW S, NEW x \in Opt(S), x # <<>>, NEW v
    PROVE  [x EXCEPT ![1] = v] = <<v>>
<1>1. PICK y \in S : x = <<y>>
  BY DEF Opt
<1> QED BY <1>1

LEMMA IsOpt ==
    ASSUME NEW S, NEW v \in S
    PROVE  <<v>> \in Opt(S) /\ <<v>> # <<>> /\ <<v>>[1] = v /\ DOMAIN <<v>> = {1}
BY DEF Opt

LEMMA CorrelatedType ==
    ASSUME NEW g \in Guards, NEW h
    PROVE  Correlated(g, h) \in Nat /\ (Correlated(g, h) # None => Correlated(g, h) \in DOMAIN g.pending)
<1> DEFINE candidates == {t \in DOMAIN g.pending : g.pending[t].at <= h.at /\ MatchesTool(g.pending[t], h)}
<1>1. candidates \subseteq DOMAIN g.pending /\ DOMAIN g.pending \subseteq Nat
  BY MapElement DEF Guards
<1>2. Correlated(g, h) = IF h.event = "PermissionRequest" /\ Cardinality(candidates) = 1
                         THEN CHOOSE t \in candidates : TRUE ELSE None
  BY Zenon DEF Correlated
<1> HIDE DEF candidates
<1>3. Cardinality(candidates) = 1 => candidates # {}
  BY FS_EmptySet
<1>4. 0 \in Nat
  OBVIOUS
<1> QED BY <1>1, <1>2, <1>3, <1>4 DEF None

LEMMA OpenedType ==
    ASSUME NEW h \in Hooks, NEW tool \in Nat, InteractionKind(h) # ""
    PROVE  Opened(h, tool) \in Waits /\ Opened(h, tool).openedAt = h.at
<1>1. InteractionKind(h) \in Kinds
  BY DEF InteractionKind, Kinds
<1>2. h.at \in Nat /\ h.prompt \in Nat /\ h.tool \in Nat
  BY DEF Hooks
<1>3. (IF tool # None THEN tool ELSE h.tool) \in Nat
  BY <1>2
<1>4. "waiting" \in Statuses
  BY DEF Statuses
<1>5. 0 \in Nat
  OBVIOUS
<1> QED BY <1>1, <1>2, <1>3, <1>4, <1>5 DEF Opened, Waits

LEMMA RefreshedType ==
    ASSUME NEW w \in Waits, NEW next \in Waits
    PROVE  Refreshed(w, next) \in Waits /\ Refreshed(w, next).openedAt = w.openedAt
<1>1. /\ Max({w.updatedAt, next.updatedAt}) \in Nat
      /\ (IF w.tool # None THEN w.tool ELSE next.tool) \in Nat
      /\ (IF w.prompt # None THEN w.prompt ELSE next.prompt) \in Nat
  BY MaxOfTwo DEF Waits
<1>2. Refreshed(w, next) \in Waits
  BY Zenon, <1>1 DEF Waits, Refreshed
<1>3. Refreshed(w, next).openedAt = w.openedAt
  BY DEF Waits, Refreshed
<1> QED BY <1>2, <1>3

LEMMA UnknowableType ==
    ASSUME NEW s \in Sessions, NEW w \in Waits, s.wait = <<w>>
    PROVE  Unknowable(s) \in Sessions
           /\ Unknowable(s).state = "review" /\ Unknowable(s).reason = "error"
           /\ Unknowable(s).wait = <<[w EXCEPT !.status = "resolution_unknown"]>>
           /\ [w EXCEPT !.status = "resolution_unknown"] \in Waits
<1> DEFINE v == [w EXCEPT !.status = "resolution_unknown"]
<1>1. v \in Waits
  BY Zenon DEF Waits, Statuses
<1>2. [i \in DOMAIN s.wait |-> [s.wait[i] EXCEPT !.status = "resolution_unknown"]] = <<v>>
  BY DEF v
<1>3. <<v>> \in Opt(Waits)
  BY <1>1, IsOpt
<1> HIDE DEF v
<1>4. Unknowable(s) = [s EXCEPT !.state = "review", !.reason = "error", !.live = FALSE, !.evidence = FALSE,
                                !.wait = <<v>>, !.recovery = FALSE, !.lost = TRUE]
  BY Zenon, <1>2 DEF Unknowable
<1>5. Unknowable(s) \in Sessions
  BY Zenon, <1>3, <1>4 DEF Sessions, Reasons
<1>6. Unknowable(s).state = "review" /\ Unknowable(s).reason = "error" /\ Unknowable(s).wait = <<v>>
  BY <1>4 DEF Sessions
<1> QED BY <1>1, <1>5, <1>6 DEF v

(* The standings of a process that let a hook through.                      *)
Standings == {"live", "exited", "startup"}

LEMMA WaitPut ==
    ASSUME NEW s \in Sessions, NEW w \in Waits
    PROVE  /\ [s EXCEPT !.wait = <<w>>] \in Sessions
           /\ [s EXCEPT !.wait = <<w>>].wait = <<w>>
           /\ [s EXCEPT !.wait = <<w>>].state = s.state
           /\ [s EXCEPT !.wait = <<w>>].reason = s.reason
<1>1. <<w>> \in Opt(Waits)
  BY IsOpt
<1>2. [s EXCEPT !.wait = <<w>>] \in Sessions
  BY Zenon, <1>1 DEF Sessions
<1>3. /\ [s EXCEPT !.wait = <<w>>].wait = <<w>> /\ [s EXCEPT !.wait = <<w>>].state = s.state
      /\ [s EXCEPT !.wait = <<w>>].reason = s.reason
  BY DEF Sessions
<1> QED BY <1>2, <1>3

LEMMA ShownWaitType ==
    ASSUME NEW s \in Sessions, s.state = "review", NEW w \in Waits, NEW context \in Standings
    PROVE  /\ ShownWait(s, w, context) \in Sessions
           /\ ShownWait(s, w, context).state = "review"
           /\ ShownWait(s, w, context).wait # <<>>
           /\ ShownWait(s, w, context).wait[1].openedAt = w.openedAt
<1> DEFINE waiting == [s EXCEPT !.wait = <<w>>]
<1>1. waiting \in Sessions /\ waiting.wait = <<w>> /\ waiting.state = "review"
  BY WaitPut
<1>2. <<w>> # <<>> /\ <<w>>[1] = w
  OBVIOUS
<1> HIDE DEF waiting
<1>3. CASE context = "exited"
  <2> DEFINE v == [w EXCEPT !.status = "resolution_unknown"]
  <2>1. ShownWait(s, w, context) = Unknowable(waiting)
    BY <1>3 DEF ShownWait, waiting
  <2>2. Unknowable(waiting) \in Sessions /\ Unknowable(waiting).state = "review" /\ Unknowable(waiting).wait = <<v>>
    BY <1>1, UnknowableType
  <2>3. v.openedAt = w.openedAt
    BY DEF Waits
  <2> HIDE DEF v
  <2>4. <<v>> # <<>> /\ <<v>>[1] = v
    OBVIOUS
  <2> QED BY <1>3, <2>1, <2>2, <2>3, <2>4
<1>4. CASE context = "startup"
  <2>1. ShownWait(s, w, context) = [waiting EXCEPT !.live = FALSE, !.recovery = TRUE]
    BY <1>4 DEF ShownWait, waiting
  <2>2. [waiting EXCEPT !.live = FALSE, !.recovery = TRUE] \in Sessions
    BY Zenon, <1>1 DEF Sessions
  <2>3. /\ [waiting EXCEPT !.live = FALSE, !.recovery = TRUE].wait = <<w>>
        /\ [waiting EXCEPT !.live = FALSE, !.recovery = TRUE].state = "review"
    BY <1>1 DEF Sessions
  <2> QED BY <1>2, <1>4, <2>1, <2>2, <2>3
<1>5. CASE context = "live"
  <2>1. ShownWait(s, w, context) = waiting
    BY <1>5 DEF ShownWait, waiting
  <2> QED BY <1>1, <1>2, <2>1 DEF waiting
<1> QED BY <1>3, <1>4, <1>5 DEF Standings

LEMMA ShownWaitLive ==
    ASSUME NEW s, NEW w
    PROVE  ShownWait(s, w, "live") = [s EXCEPT !.wait = <<w>>]
BY Zenon DEF ShownWait

LEMMA WorkingType ==
    ASSUME NEW s \in Sessions, NEW context \in Standings
    PROVE  /\ Working(s, context) \in Sessions /\ Working(s, context).wait = <<>>
           /\ Working(s, context).state = "running" => Working(s, context).reason = ""
           /\ Working(s, context).state = IF context = "live" THEN "running" ELSE "review"
<1> DEFINE ended == [s EXCEPT !.state = "review", !.wait = <<>>, !.evidence = FALSE, !.live = FALSE]
<1>0. <<>> \in Opt(Waits)
  BY DEF Opt
<1>1. CASE context = "live"
  <2> DEFINE r == [s EXCEPT !.state = "running", !.reason = "", !.wait = <<>>, !.evidence = TRUE]
  <2>1. Working(s, context) = r
    BY <1>1 DEF Working
  <2>2. r \in Sessions
    BY Zenon, <1>0 DEF Sessions, Reasons
  <2>3. r.wait = <<>> /\ r.state = "running" /\ r.reason = ""
    BY DEF Sessions
  <2> HIDE DEF r
  <2> QED BY <1>1, <2>1, <2>2, <2>3
<1>2. CASE context = "startup"
  <2> DEFINE r == [ended EXCEPT !.reason = "interrupted", !.recovery = TRUE]
  <2>1. Working(s, context) = r
    BY <1>2 DEF Working
  <2>2. r \in Sessions
    BY Zenon, <1>0 DEF Sessions, Reasons
  <2>3. r.wait = <<>> /\ r.state = "review"
    BY DEF Sessions
  <2> HIDE DEF r
  <2> QED BY <1>2, <2>1, <2>2, <2>3
<1>3. CASE context = "exited"
  <2> DEFINE reason == IF s.clean THEN "exit" ELSE "error"
             r == [ended EXCEPT !.reason = reason, !.recovery = FALSE, !.lost = FALSE]
  <2>1. Working(s, context) = r
    BY <1>3 DEF Working
  <2>0. reason \in Reasons
    BY DEF Reasons
  <2> HIDE DEF reason
  <2>2. r \in Sessions
    BY Zenon, <1>0, <2>0 DEF Sessions
  <2>3. r.wait = <<>> /\ r.state = "review"
    BY DEF Sessions
  <2> HIDE DEF r
  <2> QED BY <1>3, <2>1, <2>2, <2>3
<1> QED BY <1>1, <1>2, <1>3 DEF Standings

LEMMA ReviewedType ==
    ASSUME NEW s \in Sessions, NEW context, NEW settles \in BOOLEAN
    PROVE  /\ Reviewed(s, context, settles) \in Sessions /\ Reviewed(s, context, settles).wait = <<>>
           /\ Reviewed(s, context, settles).state = "review" /\ Reviewed(s, context, settles).reason = "hook"
<1> DEFINE done == [s EXCEPT !.state = "review", !.reason = "hook", !.wait = <<>>, !.evidence = FALSE]
<1>1. <<>> \in Opt(Waits)
  BY DEF Opt
<1>2. done \in Sessions
  BY Zenon, <1>1 DEF Sessions, Reasons
<1>3. done.wait = <<>> /\ done.state = "review" /\ done.reason = "hook"
  BY DEF Sessions
<1> HIDE DEF done
<1> DEFINE gone == [done EXCEPT !.live = FALSE, !.recovery = FALSE, !.lost = @ /\ ~settles]
<1>4. (done.lost /\ ~settles) \in BOOLEAN
  BY Zenon
<1>5. gone \in Sessions
  BY Zenon, <1>2, <1>4 DEF Sessions
<1>6. gone.wait = <<>> /\ gone.state = "review" /\ gone.reason = "hook"
  BY <1>2, <1>3 DEF Sessions
<1>7. Reviewed(s, context, settles) = IF context = "live" THEN done ELSE gone
  BY Zenon DEF Reviewed, done
<1> HIDE DEF gone
<1> QED BY <1>2, <1>3, <1>5, <1>6, <1>7

(* The arms of the reducer while a wait is outstanding; they exclude each    *)
(* other, by the event of the hook.                                         *)
MovesOn(w, h) == ~NamesTool(w, h) /\ (Resolves(w, h) \/ WorkResumed(w, h) \/ LaterPrompt(w, h))
Named(w, h) == [w EXCEPT !.tool = h.tool]
Refused(w, h) == [w EXCEPT !.status = "response_submitted", !.updatedAt = h.at,
                           !.submittedAt = IF @ # 0 THEN @ ELSE h.at]

LEMMA DuringWaitIs ==
    ASSUME NEW s \in Sessions, NEW w \in Waits, s.wait = <<w>>, NEW h \in Hooks, NEW context
    PROVE  /\ NamesTool(w, h) =>
                 ReduceDuringWait(s, h, context) = Result([s EXCEPT !.wait = <<Named(w, h)>>], TRUE)
           /\ MovesOn(w, h) =>
                 ReduceDuringWait(s, h, context) = Result(Working(s, context), TRUE)
           /\ Denies(w, h) =>
                 ReduceDuringWait(s, h, context) = Result(ShownWait(s, Refused(w, h), context), TRUE)
           /\ CompletesWait(w, h) =>
                 ReduceDuringWait(s, h, context) = Result(Reviewed(s, context, TRUE), TRUE)
           /\ ~NamesTool(w, h) /\ ~MovesOn(w, h) /\ ~Denies(w, h) /\ ~CompletesWait(w, h) =>
                 ReduceDuringWait(s, h, context) = Result(s, h.event \in ToolEvents \cup Completions)
<1>1. s.wait[1] = w
  OBVIOUS
<1>2. /\ NamesTool(w, h) => h.event = "PreToolUse"
      /\ MovesOn(w, h) => h.event \in {"UserPromptSubmit", "PreToolUse", "PostToolUse"}
      /\ Denies(w, h) => h.event = "PermissionDenied"
      /\ CompletesWait(w, h) => h.event = "Stop"
  BY DEF NamesTool, MovesOn, Resolves, WorkResumed, LaterPrompt, Denies, CompletesWait, ToolEnds, ToolEvents
<1>3. MovesOn(w, h) => ~NamesTool(w, h)
  BY DEF MovesOn
<1>4. [s EXCEPT !.wait[1].tool = h.tool] = [s EXCEPT !.wait = <<Named(w, h)>>]
  <2>1. [s.wait EXCEPT ![1] = Named(w, h)] = <<Named(w, h)>>
    <3>1. s.wait \in Opt(Waits) /\ s.wait # <<>>
      BY IsOpt
    <3> QED BY <3>1, OptUpdate
  <2> QED BY Zenon, <1>1, <2>1 DEF Named
<1>5. ReduceDuringWait(s, h, context) =
        CASE NamesTool(w, h) -> Result([s EXCEPT !.wait = <<Named(w, h)>>], TRUE)
          [] MovesOn(w, h) -> Result(Working(s, context), TRUE)
          [] Denies(w, h) -> Result(ShownWait(s, Refused(w, h), context), TRUE)
          [] CompletesWait(w, h) -> Result(Reviewed(s, context, TRUE), TRUE)
          [] OTHER -> Result(s, h.event \in ToolEvents \cup Completions)
  <2>1. [w EXCEPT !.status = "response_submitted", !.updatedAt = h.at,
                  !.submittedAt = IF @ # 0 THEN @ ELSE h.at] = Refused(w, h)
    BY Zenon DEF Refused
  <2> QED BY Zenon, <1>1, <1>4, <2>1 DEF ReduceDuringWait, MovesOn
<1> QED BY Zenon, <1>2, <1>3, <1>5

LEMMA ResultIs ==
    ASSUME NEW s, NEW o
    PROVE  Result(s, o).session = s /\ Result(s, o).observed = o
BY DEF Result

LEMMA NamedType ==
    ASSUME NEW w \in Waits, NEW h \in Hooks
    PROVE  Named(w, h) \in Waits /\ Named(w, h).openedAt = w.openedAt
<1>1. h.tool \in Nat
  BY DEF Hooks
<1>2. Named(w, h) \in Waits
  BY Zenon, <1>1 DEF Named, Waits
<1>3. Named(w, h).openedAt = w.openedAt
  BY DEF Named, Waits
<1> QED BY <1>2, <1>3

LEMMA RefusedType ==
    ASSUME NEW w \in Waits, NEW h \in Hooks
    PROVE  Refused(w, h) \in Waits /\ Refused(w, h).openedAt = w.openedAt
<1>1. h.at \in Nat /\ (IF w.submittedAt # 0 THEN w.submittedAt ELSE h.at) \in Nat
  BY DEF Hooks, Waits
<1>2. Refused(w, h) \in Waits
  BY Zenon, <1>1 DEF Refused, Waits, Statuses
<1>3. Refused(w, h).openedAt = w.openedAt
  BY DEF Refused, Waits
<1> QED BY <1>2, <1>3

LEMMA SessionWait ==
    ASSUME NEW s \in Sessions, s.wait # <<>>
    PROVE  s.wait[1] \in Waits /\ s.wait = <<s.wait[1]>>
BY OptElement DEF Sessions

GoodResult(r, n) == SessionOf(r.session, n) /\ r.observed \in BOOLEAN

LEMMA IsGoodResult ==
    ASSUME NEW n, NEW x, SessionOf(x, n), NEW o \in BOOLEAN
    PROVE  GoodResult(Result(x, o), n)
BY Zenon, ResultIs DEF GoodResult

LEMMA DuringWaitType ==
    ASSUME NEW n, NEW s, SessionOf(s, n), s.wait # <<>>, NEW h \in Hooks, NEW context \in Standings
    PROVE  GoodResult(ReduceDuringWait(s, h, context), n)
<1>1. s \in Sessions /\ s.state = "review"
  BY DEF SessionOf, Sessions
<1>2. PICK w \in Waits : s.wait = <<w>> /\ w.openedAt <= n
  BY <1>1, SessionWait DEF SessionOf
<1> DEFINE r == ReduceDuringWait(s, h, context)
<1>0. /\ NamesTool(w, h) => r = Result([s EXCEPT !.wait = <<Named(w, h)>>], TRUE)
      /\ MovesOn(w, h) => r = Result(Working(s, context), TRUE)
      /\ Denies(w, h) => r = Result(ShownWait(s, Refused(w, h), context), TRUE)
      /\ CompletesWait(w, h) => r = Result(Reviewed(s, context, TRUE), TRUE)
      /\ ~NamesTool(w, h) /\ ~MovesOn(w, h) /\ ~Denies(w, h) /\ ~CompletesWait(w, h) =>
            r = Result(s, h.event \in ToolEvents \cup Completions)
  BY Zenon, <1>1, <1>2, DuringWaitIs
<1>3. SessionOf([s EXCEPT !.wait = <<Named(w, h)>>], n)
  <2>1. Named(w, h) \in Waits /\ Named(w, h).openedAt = w.openedAt
    BY NamedType
  <2> DEFINE x == [s EXCEPT !.wait = <<Named(w, h)>>]
  <2>2. x \in Sessions /\ x.wait = <<Named(w, h)>> /\ x.state = s.state
    BY Zenon, <1>1, <2>1, WaitPut
  <2> HIDE DEF x
  <2>3. SessionOf(x, n)
    BY <1>1, <1>2, <2>1, <2>2 DEF SessionOf
  <2> QED BY <2>3 DEF x
<1>4. SessionOf(Working(s, context), n)
  BY <1>1, WorkingType DEF SessionOf
<1>5. SessionOf(ShownWait(s, Refused(w, h), context), n)
  <2>1. Refused(w, h) \in Waits /\ Refused(w, h).openedAt = w.openedAt
    BY RefusedType
  <2> DEFINE x == ShownWait(s, Refused(w, h), context)
  <2>2. x \in Sessions /\ x.state = "review" /\ x.wait[1].openedAt = Refused(w, h).openedAt
    BY Zenon, <1>1, <2>1, ShownWaitType
  <2> HIDE DEF x
  <2>3. SessionOf(x, n)
    BY <1>2, <2>1, <2>2 DEF SessionOf
  <2> QED BY <2>3 DEF x
<1>6. SessionOf(Reviewed(s, context, TRUE), n)
  BY <1>1, ReviewedType DEF SessionOf
<1>7. TRUE \in BOOLEAN /\ (h.event \in ToolEvents \cup Completions) \in BOOLEAN
  <2>1. (h.event \in ToolEvents \cup Completions) \in BOOLEAN
    BY SMT
  <2> QED BY Zenon, <2>1
<1> HIDE DEF r
<1>8. GoodResult(r, n)
  BY Zenon, <1>0, <1>3, <1>4, <1>5, <1>6, <1>7, IsGoodResult
<1> QED BY <1>8 DEF r

(* The arms of the reducer with nothing to wait for.                        *)
LEMMA WithoutWaitIs ==
    ASSUME NEW s, NEW h, NEW context
    PROVE  /\ h.event = "PreToolUse" =>
                 ReduceWithoutWait(s, h, context) =
                    Result(IF s.state = "running" \/ CanReturn(s, context) THEN Working(s, context) ELSE s, TRUE)
           /\ h.event = "Stop" =>
                 ReduceWithoutWait(s, h, context) =
                    Result(IF s.state = "running" \/ s.reason \in {"interrupted", "unconfirmed"}
                           THEN Reviewed(s, context, FALSE) ELSE s, TRUE)
           /\ h.event \in {"UserPromptSubmit", "PostToolUse"} =>
                 ReduceWithoutWait(s, h, context) = Result(Working(s, context), TRUE)
           /\ h.event \notin {"PreToolUse", "Stop", "UserPromptSubmit", "PostToolUse"} =>
                 ReduceWithoutWait(s, h, context) = Result(s, TRUE)
BY Zenon DEF ReduceWithoutWait

LEMMA WithoutWaitType ==
    ASSUME NEW n, NEW s, SessionOf(s, n), NEW h \in Hooks, NEW context \in Standings
    PROVE  GoodResult(ReduceWithoutWait(s, h, context), n)
<1>1. s \in Sessions
  BY DEF SessionOf
<1>2. SessionOf(Working(s, context), n)
  BY <1>1, WorkingType DEF SessionOf
<1>3. SessionOf(Reviewed(s, context, FALSE), n)
  BY <1>1, ReviewedType DEF SessionOf
<1>4. \E x \in {s, Working(s, context), Reviewed(s, context, FALSE)} :
         ReduceWithoutWait(s, h, context) = Result(x, TRUE)
  BY Zenon, WithoutWaitIs
<1>5. TRUE \in BOOLEAN
  BY Zenon
<1> QED BY Zenon, <1>2, <1>3, <1>4, <1>5, IsGoodResult

(* A hook that opens a dialog.                                              *)
Asked(s, h) == [s EXCEPT !.state = "review", !.evidence = FALSE,
                         !.reason = IF InteractionKind(h) = "permission" THEN "hook" ELSE "attention"]
Shown(s, h, tool) ==
    IF s.wait # <<>> /\ SameInteraction(s.wait[1], Opened(h, tool))
    THEN Refreshed(s.wait[1], Opened(h, tool)) ELSE Opened(h, tool)

LEMMA ReduceIs ==
    ASSUME NEW s, NEW h, NEW tool, NEW context
    PROVE  /\ context = "unconfirmed" => Reduce(s, h, tool, context) = Result(s, FALSE)
           /\ context # "unconfirmed" /\ InteractionKind(h) # "" =>
                 Reduce(s, h, tool, context) = Result(ShownWait(Asked(s, h), Shown(s, h, tool), context), TRUE)
           /\ context # "unconfirmed" /\ InteractionKind(h) = "" /\ s.wait # <<>> =>
                 Reduce(s, h, tool, context) = ReduceDuringWait(s, h, context)
           /\ context # "unconfirmed" /\ InteractionKind(h) = "" /\ s.wait = <<>> =>
                 Reduce(s, h, tool, context) = ReduceWithoutWait(s, h, context)
<1>1. Opened(h, tool).kind = InteractionKind(h)
  BY DEF Opened
<1> QED BY Zenon, <1>1 DEF Reduce, Asked, Shown

LEMMA AskedType ==
    ASSUME NEW s \in Sessions, NEW h
    PROVE  Asked(s, h) \in Sessions /\ Asked(s, h).state = "review"
<1>1. (IF InteractionKind(h) = "permission" THEN "hook" ELSE "attention") \in Reasons
  BY DEF Reasons
<1>2. Asked(s, h) \in Sessions
  BY Zenon, <1>1 DEF Asked, Sessions
<1>3. Asked(s, h).state = "review"
  BY DEF Asked, Sessions
<1> QED BY <1>2, <1>3

LEMMA ShownType ==
    ASSUME NEW n, NEW s, SessionOf(s, n), NEW h \in Hooks, h.at <= n, NEW tool \in Nat, InteractionKind(h) # ""
    PROVE  Shown(s, h, tool) \in Waits /\ Shown(s, h, tool).openedAt <= n
<1>1. Opened(h, tool) \in Waits /\ Opened(h, tool).openedAt <= n
  BY OpenedType
<1>2. CASE s.wait # <<>> /\ SameInteraction(s.wait[1], Opened(h, tool))
  <2>1. s.wait[1] \in Waits /\ s.wait[1].openedAt <= n
    BY <1>2, SessionWait DEF SessionOf
  <2> QED BY <1>1, <1>2, <2>1, RefreshedType DEF Shown
<1>3. CASE ~(s.wait # <<>> /\ SameInteraction(s.wait[1], Opened(h, tool)))
  BY <1>1, <1>3 DEF Shown
<1> QED BY <1>2, <1>3

LEMMA ReduceType ==
    ASSUME NEW n, NEW s, SessionOf(s, n), NEW h \in Hooks, h.at <= n, NEW tool \in Nat,
           NEW context \in Standings \cup {"unconfirmed"}
    PROVE  GoodResult(Reduce(s, h, tool, context), n)
<1> DEFINE r == Reduce(s, h, tool, context)
<1>0. TRUE \in BOOLEAN /\ FALSE \in BOOLEAN
  BY Zenon
<1>1. CASE context = "unconfirmed"
  <2>1. r = Result(s, FALSE)
    BY Zenon, <1>1, ReduceIs
  <2> HIDE DEF r
  <2>2. GoodResult(r, n)
    BY Zenon, <1>0, <2>1, IsGoodResult
  <2> QED BY <2>2 DEF r
<1>2. CASE context # "unconfirmed" /\ InteractionKind(h) # ""
  <2>1. context \in Standings
    BY <1>2
  <2>2. s \in Sessions
    BY DEF SessionOf
  <2>3. r = Result(ShownWait(Asked(s, h), Shown(s, h, tool), context), TRUE)
    BY Zenon, <1>2, ReduceIs
  <2>4. Asked(s, h) \in Sessions /\ Asked(s, h).state = "review"
    BY <2>2, AskedType
  <2>5. Shown(s, h, tool) \in Waits /\ Shown(s, h, tool).openedAt <= n
    BY <1>2, ShownType
  <2> DEFINE x == ShownWait(Asked(s, h), Shown(s, h, tool), context)
  <2>6. x \in Sessions /\ x.state = "review" /\ x.wait[1].openedAt = Shown(s, h, tool).openedAt
    BY Zenon, <2>1, <2>4, <2>5, ShownWaitType
  <2> HIDE DEF x
  <2>7. SessionOf(x, n)
    BY <2>5, <2>6 DEF SessionOf
  <2> QED BY Zenon, <1>0, <2>3, <2>7, IsGoodResult DEF x
<1>3. CASE context # "unconfirmed" /\ InteractionKind(h) = "" /\ s.wait # <<>>
  <2>1. context \in Standings
    BY <1>3
  <2>2. GoodResult(ReduceDuringWait(s, h, context), n)
    BY Zenon, <1>3, <2>1, DuringWaitType
  <2> QED BY Zenon, <1>3, <2>2, ReduceIs
<1>4. CASE context # "unconfirmed" /\ InteractionKind(h) = "" /\ s.wait = <<>>
  <2>1. context \in Standings
    BY <1>4
  <2>2. GoodResult(ReduceWithoutWait(s, h, context), n)
    BY Zenon, <2>1, WithoutWaitType
  <2> QED BY Zenon, <1>4, <2>2, ReduceIs
<1> QED BY Zenon, <1>1, <1>2, <1>3, <1>4

LEMMA SessionLater ==
    ASSUME NEW n \in Nat, NEW m \in Nat, n <= m, NEW s, SessionOf(s, n)
    PROVE  SessionOf(s, m)
<1>1. CASE s.wait = <<>>
  BY <1>1 DEF SessionOf
<1>2. CASE s.wait # <<>>
  <2>1. s.wait[1].openedAt \in Nat /\ s.wait[1].openedAt <= n
    BY <1>2, SessionWait DEF SessionOf, Waits
  <2>2. s.wait[1].openedAt <= m
    BY <2>1
  <2> QED BY <2>2 DEF SessionOf
<1> QED BY <1>1, <1>2

LEMMA CutType ==
    ASSUME NEW n, NEW s, SessionOf(s, n)
    PROVE  SessionOf(Cut(s), n) /\ Cut(s).wait = <<>> /\ Cut(s).state = "review" /\ Cut(s).reason = "interrupted"
<1>1. s \in Sessions
  BY DEF SessionOf
<1>2. <<>> \in Opt(Waits)
  BY DEF Opt
<1>3. Cut(s) \in Sessions
  BY Zenon, <1>1, <1>2 DEF Cut, Sessions, Reasons
<1>4. Cut(s).wait = <<>> /\ Cut(s).state = "review" /\ Cut(s).reason = "interrupted"
  BY <1>1 DEF Cut, Sessions
<1> QED BY <1>3, <1>4 DEF SessionOf

(* A wait that has got its answer.                                          *)
Replied(w, at) == [w EXCEPT !.status = "response_submitted", !.updatedAt = at, !.submittedAt = at]

LEMMA AnsweredIs ==
    ASSUME NEW s \in Sessions, NEW w \in Waits, s.wait = <<w>>, NEW at \in Nat,
           s.state = "review", NeedsInput(s)
    PROVE  /\ Answered(s, at) = [s EXCEPT !.wait = <<Replied(w, at)>>]
           /\ Replied(w, at) \in Waits /\ Replied(w, at).openedAt = w.openedAt
<1>1. s.wait[1] = w /\ s.wait \in Opt(Waits) /\ s.wait # <<>>
  BY IsOpt
<1>2. Replied(w, at) \in Waits
  BY Zenon DEF Replied, Waits, Statuses
<1>3. Replied(w, at).openedAt = w.openedAt
  BY DEF Replied, Waits
<1>4. [s.wait EXCEPT ![1] = Replied(w, at)] = <<Replied(w, at)>>
  BY <1>1, OptUpdate
<1>5. Answered(s, at) = [s EXCEPT !.wait = <<Replied(w, at)>>]
  BY Zenon, <1>1, <1>4 DEF Answered, Replied
<1> QED BY <1>2, <1>3, <1>5

LEMMA AnsweredType ==
    ASSUME NEW n, NEW s, SessionOf(s, n), NEW at \in Nat
    PROVE  SessionOf(Answered(s, at), n)
<1>1. CASE ~(s.state = "review" /\ NeedsInput(s))
  BY <1>1 DEF Answered
<1>2. CASE s.state = "review" /\ NeedsInput(s)
  <2>1. s \in Sessions /\ s.wait # <<>>
    BY <1>2 DEF SessionOf, NeedsInput
  <2>2. PICK w \in Waits : s.wait = <<w>> /\ w.openedAt <= n
    BY <2>1, SessionWait DEF SessionOf
  <2>3. /\ Answered(s, at) = [s EXCEPT !.wait = <<Replied(w, at)>>]
        /\ Replied(w, at) \in Waits /\ Replied(w, at).openedAt = w.openedAt
    BY Zenon, <1>2, <2>1, <2>2, AnsweredIs
  <2> DEFINE x == [s EXCEPT !.wait = <<Replied(w, at)>>]
  <2>4. x \in Sessions /\ x.wait = <<Replied(w, at)>> /\ x.state = s.state
    BY Zenon, <2>1, <2>3, WaitPut
  <2> HIDE DEF x
  <2>5. SessionOf(x, n)
    BY <1>2, <2>2, <2>3, <2>4 DEF SessionOf
  <2> QED BY <2>3, <2>5 DEF x
<1> QED BY <1>1, <1>2

LEMMA ExitedType ==
    ASSUME NEW n, NEW s, SessionOf(s, n), NEW clean \in BOOLEAN, NEW interrupted \in BOOLEAN,
           NEW worked \in BOOLEAN
    PROVE  SessionOf(Exited(s, clean, interrupted, worked), n)
<1> DEFINE gone == [s EXCEPT !.live = FALSE, !.evidence = FALSE, !.clean = clean]
           reason == IF interrupted THEN "interrupted" ELSE IF clean /\ worked THEN "exit" ELSE "error"
           r1 == [gone EXCEPT !.state = "review", !.reason = reason, !.wait = <<>>]
           r2 == [gone EXCEPT !.reason = "interrupted", !.wait = <<>>]
           r3 == [gone EXCEPT !.reason = "error", !.lost = TRUE, !.wait[1].status = "resolution_unknown"]
           r4 == [gone EXCEPT !.reason = reason]
<1>1. s \in Sessions
  BY DEF SessionOf
<1>2. gone \in Sessions
  BY Zenon, <1>1 DEF Sessions
<1>3. gone.wait = s.wait /\ gone.state = s.state /\ gone.reason = s.reason
  BY <1>1 DEF Sessions
<1>4. reason \in Reasons
  BY DEF Reasons
<1>0. <<>> \in Opt(Waits)
  BY DEF Opt
<1>5. \/ Exited(s, clean, interrupted, worked) = gone
      \/ Exited(s, clean, interrupted, worked) = r1
      \/ s.state = "review" /\ Exited(s, clean, interrupted, worked) = r2
      \/ s.state = "review" /\ s.wait # <<>> /\ Exited(s, clean, interrupted, worked) = r3
      \/ s.state = "review" /\ Exited(s, clean, interrupted, worked) = r4
  <2>1. CASE s.state = "running"
    BY Zenon, <2>1 DEF Exited
  <2>2. CASE s.state # "running"
    <3>1. s.state = "review"
      BY <1>1, <2>2 DEF Sessions
    <3>2. CASE s.wait # <<>> /\ interrupted /\ s.recovery
      BY Zenon, <2>2, <3>1, <3>2 DEF Exited
    <3>3. CASE s.wait # <<>> /\ interrupted /\ ~s.recovery
      BY Zenon, <2>2, <3>1, <3>3 DEF Exited
    <3>4. CASE s.wait # <<>> /\ ~interrupted
      BY Zenon, <2>2, <3>1, <3>4 DEF Exited
    <3>5. CASE s.wait = <<>> /\ s.reason = "unconfirmed"
      BY Zenon, <2>2, <3>1, <3>5 DEF Exited
    <3>6. CASE s.wait = <<>> /\ s.reason # "unconfirmed"
      BY Zenon, <2>2, <3>1, <3>6 DEF Exited
    <3> QED BY Zenon, <3>2, <3>3, <3>4, <3>5, <3>6
  <2> QED BY <2>1, <2>2
<1> HIDE DEF gone, reason
<1>6. SessionOf(gone, n)
  BY <1>2, <1>3 DEF SessionOf
<1>7. SessionOf(r1, n)
  <2>1. r1 \in Sessions
    BY Zenon, <1>0, <1>2, <1>4 DEF Sessions
  <2>2. r1.wait = <<>> /\ r1.state = "review"
    BY <1>2 DEF Sessions
  <2> QED BY <2>1, <2>2 DEF SessionOf
<1>8. ASSUME s.state = "review" PROVE SessionOf(r2, n)
  <2>1. r2 \in Sessions
    BY Zenon, <1>0, <1>2 DEF Sessions, Reasons
  <2>2. r2.wait = <<>> /\ r2.state = "review"
    BY <1>2, <1>3, <1>8 DEF Sessions
  <2> QED BY <2>1, <2>2 DEF SessionOf
<1>9. ASSUME s.state = "review", s.wait # <<>> PROVE SessionOf(r3, n)
  <2>1. PICK w \in Waits : s.wait = <<w>> /\ w.openedAt <= n
    BY <1>1, <1>9, SessionWait DEF SessionOf
  <2> DEFINE v == [w EXCEPT !.status = "resolution_unknown"]
             x == gone.wait
             r == [gone EXCEPT !.reason = "error", !.lost = TRUE, !.wait = <<v>>]
  <2>2. v \in Waits
    BY Zenon DEF Waits, Statuses
  <2>3. v.openedAt = w.openedAt
    BY DEF Waits
  <2>4. x = <<w>> /\ x[1] = w /\ x \in Opt(Waits) /\ x # <<>>
    BY <1>3, <2>1, IsOpt
  <2> HIDE DEF x
  <2>5. [x EXCEPT ![1] = [x[1] EXCEPT !.status = "resolution_unknown"]] = <<v>>
    <3>1. [x[1] EXCEPT !.status = "resolution_unknown"] = v
      BY <2>4
    <3> HIDE DEF v
    <3> QED BY <2>4, <3>1, OptUpdate
  <2> HIDE DEF v
  <2>6. r3 = r
    <3>1. [gone EXCEPT !.reason = "error", !.lost = TRUE].wait = x
      BY <1>2 DEF Sessions, x
    <3> QED BY Zenon, <2>5, <3>1
  <2>7. <<v>> \in Opt(Waits) /\ <<v>> # <<>> /\ <<v>>[1] = v
    BY <2>2, IsOpt
  <2>8. r \in Sessions
    BY Zenon, <1>2, <2>7 DEF Sessions, Reasons
  <2>9. r.wait = <<v>> /\ r.state = "review"
    BY <1>2, <1>3, <1>9 DEF Sessions
  <2> HIDE DEF r, r3
  <2>10. SessionOf(r, n)
    BY <2>1, <2>3, <2>7, <2>8, <2>9 DEF SessionOf
  <2> QED BY <2>6, <2>10
<1>10. ASSUME s.state = "review" PROVE SessionOf(r4, n)
  <2>1. r4 \in Sessions
    BY Zenon, <1>2, <1>4 DEF Sessions
  <2>2. r4.wait = gone.wait /\ r4.state = gone.state
    BY <1>2 DEF Sessions
  <2> HIDE DEF r4
  <2> QED BY <1>3, <1>10, <2>1, <2>2 DEF SessionOf
<1> HIDE DEF r1, r2, r3, r4
<1> QED BY Zenon, <1>5, <1>6, <1>7, <1>8, <1>9, <1>10

LEMMA HydratedType ==
    ASSUME NEW n, NEW s, SessionOf(s, n)
    PROVE  SessionOf(Hydrated(s), n) /\ Hydrated(s).state = "review"
<1> DEFINE found == [s EXCEPT !.live = FALSE, !.evidence = FALSE]
           lost == [found EXCEPT !.state = "review", !.reason = "interrupted", !.wait = <<>>, !.recovery = TRUE]
           kept == [found EXCEPT !.recovery = RecoveryRequired(s)]
<1>1. s \in Sessions
  BY DEF SessionOf
<1>2. found \in Sessions
  BY Zenon, <1>1 DEF Sessions
<1>3. found.wait = s.wait /\ found.state = s.state /\ found.reason = s.reason
  BY <1>1 DEF Sessions
<1>4. Hydrated(s) = IF s.state = "running" \/ s.reason = "unconfirmed" THEN lost ELSE kept
  BY Zenon DEF Hydrated
<1> HIDE DEF found
<1>5. lost \in Sessions
  <2>1. <<>> \in Opt(Waits)
    BY DEF Opt
  <2> QED BY Zenon, <1>2, <2>1 DEF Sessions, Reasons
<1>6. lost.wait = <<>> /\ lost.state = "review"
  BY <1>2 DEF Sessions
<1>7. RecoveryRequired(s) \in BOOLEAN
  BY <1>1 DEF RecoveryRequired, Sessions
<1>8. kept \in Sessions
  BY Zenon, <1>2, <1>7 DEF Sessions
<1>9. kept.wait = s.wait /\ kept.state = s.state /\ kept.reason = s.reason
  BY <1>2, <1>3 DEF Sessions
<1> HIDE DEF lost, kept
<1>10. SessionOf(lost, n)
  BY <1>5, <1>6 DEF SessionOf
<1>11. SessionOf(kept, n)
  BY <1>8, <1>9 DEF SessionOf
<1>12. s.state # "running" => s.state = "review"
  BY <1>1 DEF Sessions
<1> QED BY Zenon, <1>4, <1>6, <1>9, <1>10, <1>11, <1>12

-----------------------------------------------------------------------------
(* Type correctness.                                                       *)

LEMMA TypeInit == Init => TypeInv
<1> SUFFICES ASSUME Init PROVE TypeInv
  OBVIOUS
<1>1. SessionOf(Launched, 0)
  BY DEF SessionOf, Launched, Sessions, Reasons, Opt
<1>2. ReceiptsOK(NoReceipts)
  BY DEF ReceiptsOK, NoReceipts
<1>3. Quiet \in Agents
  <2>1. <<>> \in [{} -> Working1]
    OBVIOUS
  <2>2. <<>> \in OpenTools
    BY <2>1 DEF OpenTools
  <2> QED BY <2>2 DEF Quiet, Agents, Endings, None
<1>4. Untouched \in Terminals /\ [hooks |-> 0, user |-> 0, wakes |-> 0, crashes |-> 0] \in Counters
  BY DEF Untouched, Terminals, Counters
<1>5. NewGuard \in Guards
  BY NewGuardType
<1>6. ValuesOK
  BY <1>1, <1>2, <1>3, <1>4, <1>5 DEF Init, ValuesOK
<1>7. DiskOK
  <2>1. saved.session = Launched /\ saved.receipts = NoReceipts /\ saved.fence = <<>> /\ now = 0
    BY DEF Init, Durable, NewGuard
  <2> QED BY <1>1, <1>2, <2>1 DEF DiskOK, Opt
<1>8. TransportOK /\ JudgedOK
  BY DEF Init, TransportOK, JudgedOK, Apart, NewGuard, NoReceipts, Durable
<1> QED BY <1>6, <1>7, <1>8 DEF TypeInv

(* A hook is captured, and only Claude changes beside the transport.        *)
LEMMA CaptureType ==
    ASSUME TypeInv, NEW event \in Events, NEW prompt \in Nat, NEW tool \in Nat, NEW class \in Classes,
           NEW wake \in BOOLEAN, event \in ToolEvents \cup Completions => tool # None,
           Capture(event, prompt, tool, class, wake), agent' \in Agents,
           UNCHANGED <<unacked, process, session, guard, receipts, saved, terminal>>
    PROVE  TypeInv'
<1>1. PICK named \in Nat :
          net' = net \cup {[at |-> now + 1, event |-> event, prompt |-> named, tool |-> tool,
                            class |-> class, wake |-> wake]}
  BY DEF Capture, None
<1> DEFINE new == [at |-> now + 1, event |-> event, prompt |-> named, tool |-> tool, class |-> class, wake |-> wake]
<1>2. now \in Nat /\ now' = now + 1 /\ now' \in Nat
  BY DEF Capture, TypeInv, ValuesOK
<1>3. new \in Hooks /\ new.at = now + 1
  BY <1>2 DEF Hooks
<1> HIDE DEF new
<1>4. net' = net \cup {new}
  BY <1>1 DEF new
<1>5. acts' \in Counters
  <2> DEFINE a == [acts EXCEPT !.hooks = @ + 1]
             b == [a EXCEPT !.wakes = IF wake THEN @ + 1 ELSE @]
  <2>1. acts \in Counters
    BY DEF TypeInv, ValuesOK
  <2>2. acts.hooks + 1 \in Nat
    BY <2>1 DEF Counters
  <2>3. a \in Counters
    BY Zenon, <2>1, <2>2 DEF Counters
  <2> HIDE DEF a
  <2>4. (IF wake THEN a.wakes + 1 ELSE a.wakes) \in Nat
    BY <2>3 DEF Counters
  <2>5. b \in Counters
    BY Zenon, <2>3, <2>4 DEF Counters
  <2> QED BY <2>5 DEF Capture, a
<1>6. SessionOf(session, now') /\ SessionOf(saved.session, now')
  BY <1>2, SessionLater DEF TypeInv, ValuesOK, DiskOK
<1>7. ValuesOK'
  BY <1>2, <1>5, <1>6 DEF TypeInv, ValuesOK
<1>8. DiskOK'
  BY <1>6 DEF TypeInv, DiskOK
<1>9. TransportOK'
  <2>1. net \subseteq Hooks /\ unacked \subseteq Hooks /\ \A h \in net \cup unacked : h.at \in Nat /\ h.at <= now
    BY DEF TypeInv, TransportOK, Hooks
  <2>2. \A h \in net \cup unacked : h.at # new.at /\ h.at <= now'
    BY <1>2, <1>3, <2>1
  <2> QED BY <1>2, <1>3, <1>4, <2>1, <2>2 DEF TypeInv, TransportOK
<1>10. JudgedOK'
  <2>1. \A h \in net \cup unacked : h.at \in Nat /\ h.at <= now
    BY DEF TypeInv, TransportOK, Hooks
  <2>2. \A d \in guard.delivered \cup receipts.ids \cup saved.receipts.ids : d \in Nat /\ d <= now
    BY DEF TypeInv, JudgedOK, ValuesOK, DiskOK, ReceiptsOK, Guards
  <2>3. \A d \in guard.delivered \cup receipts.ids \cup saved.receipts.ids : d # new.at /\ d <= now'
    BY <1>2, <1>3, <2>2
  <2>4. \A h \in net' : h \in net \/ h = new
    BY <1>4
  <2> QED BY <2>1, <2>3, <2>4 DEF TypeInv, JudgedOK, Apart
<1> QED BY <1>7, <1>8, <1>9, <1>10 DEF TypeInv

LEMMA OpenElement ==
    ASSUME NEW f \in OpenTools
    PROVE  /\ DOMAIN f \subseteq Nat /\ 0 \notin DOMAIN f
           /\ \A t \in DOMAIN f : f[t] \in Working1
BY DEF OpenTools

LEMMA IsOpenTools ==
    ASSUME NEW T \in SUBSET (Nat \ {0}), NEW f \in [T -> Working1]
    PROVE  f \in OpenTools
BY DEF OpenTools

LEMMA RestrictOpen ==
    ASSUME NEW f \in OpenTools, NEW T \in SUBSET DOMAIN f
    PROVE  Restrict(f, T) \in OpenTools
<1>1. Restrict(f, T) \in [T -> Working1] /\ T \in SUBSET (Nat \ {0})
  BY OpenElement DEF Restrict
<1> QED BY <1>1, IsOpenTools

LEMMA PutOpen ==
    ASSUME NEW f \in OpenTools, NEW t \in Nat \ {0}, NEW v \in Working1
    PROVE  Put(f, t, v) \in OpenTools
<1>1. Put(f, t, v) \in [DOMAIN f \cup {t} -> Working1] /\ DOMAIN f \cup {t} \in SUBSET (Nat \ {0})
  BY OpenElement DEF Put
<1> QED BY <1>1, IsOpenTools

LEMMA AgentType ==
    ASSUME TypeInv
    PROVE  /\ agent \in Agents /\ agent.turn \in Nat /\ agent.asking \in Nat /\ agent.open \in OpenTools
           /\ agent.wakes \in SUBSET Nat /\ agent.prompts \in Nat /\ agent.tools \in Nat /\ now \in Nat
           /\ \A t \in DOMAIN agent.open : t \in Nat \ {0} /\ agent.open[t] \in Working1
           /\ \A t : Without(t) \in OpenTools
           /\ Blind \in BOOLEAN /\ agent.stray \in BOOLEAN
<1>1. agent \in Agents /\ now \in Nat
  BY DEF TypeInv, ValuesOK
<1>2. /\ agent.turn \in Nat /\ agent.asking \in Nat /\ agent.open \in OpenTools
      /\ agent.wakes \in SUBSET Nat /\ agent.prompts \in Nat /\ agent.tools \in Nat
      /\ agent.blind \in BOOLEAN /\ agent.stray \in BOOLEAN
  BY <1>1 DEF Agents
<1>3. \A t \in DOMAIN agent.open : t \in Nat \ {0} /\ agent.open[t] \in Working1
  BY <1>2, OpenElement
<1>4. \A t : Without(t) \in OpenTools
  BY <1>2, RestrictOpen DEF Without
<1>5. Blind \in BOOLEAN
  BY <1>2 DEF Blind
<1> QED BY <1>1, <1>2, <1>3, <1>4, <1>5

LEMMA SubmitType == ASSUME TypeInv, Submit PROVE TypeInv'
<1>1. agent \in Agents /\ agent.prompts + 1 \in Nat
  BY AgentType
<1>2. agent' \in Agents
  BY Zenon, <1>1 DEF Submit, Agents, Endings
<1>3. "UserPromptSubmit" \in Events /\ "UserPromptSubmit" \notin ToolEvents \cup Completions /\ "" \in Classes
      /\ FALSE \in BOOLEAN /\ None \in Nat
  BY DEF Events, ToolEvents, Completions, Classes, None
<1>4. /\ Capture("UserPromptSubmit", agent.prompts + 1, None, "", FALSE)
      /\ UNCHANGED <<unacked, process, session, guard, receipts, saved, terminal>>
  BY DEF Submit
<1> QED BY <1>1, <1>2, <1>3, <1>4, CaptureType

LEMMA StartToolType == ASSUME TypeInv, NEW class \in {"tool", "question"}, StartTool(class) PROVE TypeInv'
<1> DEFINE tool == agent.tools + 1
           opened == [prompt |-> agent.turn, class |-> class, asked |-> IF class = "question" THEN now + 1 ELSE 0]
<1>1. agent \in Agents /\ tool \in Nat \ {0} /\ now + 1 \in Nat /\ agent.turn \in Nat /\ agent.open \in OpenTools
      /\ Blind \in BOOLEAN
  BY AgentType
<1>2. opened \in Working1
  BY <1>1 DEF Working1
<1>3. Put(agent.open, tool, opened) \in OpenTools
  BY <1>1, <1>2, PutOpen
<1>4. (IF class = "question" THEN tool ELSE None) \in Nat /\ tool \in Nat
  BY <1>1 DEF None
<1>5. (IF class = "question" THEN Blind ELSE agent.blind) \in BOOLEAN
  BY <1>1 DEF Agents
<1>6. agent' = [agent EXCEPT !.tools = tool, !.open = Put(@, tool, opened),
                             !.asking = IF class = "question" THEN tool ELSE None,
                             !.blind = IF class = "question" THEN Blind ELSE @]
  BY Zenon DEF StartTool
<1> HIDE DEF tool, opened
<1>7. agent' \in Agents
  BY Zenon, <1>1, <1>3, <1>4, <1>5, <1>6 DEF Agents
<1>8. "PreToolUse" \in Events /\ class \in Classes /\ FALSE \in BOOLEAN /\ tool # None
  BY <1>1 DEF Events, Classes, None
<1>9. /\ Capture("PreToolUse", agent.turn, tool, class, FALSE)
      /\ UNCHANGED <<unacked, process, session, guard, receipts, saved, terminal>>
  BY DEF StartTool, tool
<1> QED BY <1>1, <1>4, <1>7, <1>8, <1>9, CaptureType

LEMMA AskPermissionType == ASSUME TypeInv, NEW tool, AskPermission(tool) PROVE TypeInv'
<1>1. agent \in Agents /\ now + 1 \in Nat /\ agent.turn \in Nat /\ agent.open \in OpenTools /\ Blind \in BOOLEAN
  BY AgentType
<1>2. tool \in DOMAIN agent.open
  BY DEF AskPermission, CurrentTools
<1>3. tool \in Nat /\ agent.open[tool] \in Working1
  BY <1>2, AgentType
<1>4. [agent.open[tool] EXCEPT !.asked = now + 1] \in Working1
  BY <1>1, <1>3 DEF Working1
<1> DEFINE asked == [agent.open EXCEPT ![tool] = [agent.open[tool] EXCEPT !.asked = now + 1]]
<1>5. asked \in OpenTools
  BY <1>1, <1>4 DEF OpenTools
<1>6. agent' = [agent EXCEPT !.asking = tool, !.open = asked, !.blind = Blind]
  <2>1. [agent EXCEPT !.asking = tool].open = agent.open
    BY <1>1 DEF Agents
  <2> QED BY Zenon, <2>1 DEF AskPermission
<1> HIDE DEF asked
<1>7. agent' \in Agents
  BY Zenon, <1>1, <1>3, <1>5, <1>6 DEF Agents
<1>8. "PermissionRequest" \in Events /\ "PermissionRequest" \notin ToolEvents \cup Completions /\ "tool" \in Classes
      /\ FALSE \in BOOLEAN /\ None \in Nat
  BY DEF Events, ToolEvents, Completions, Classes, None
<1>9. /\ Capture("PermissionRequest", agent.turn, None, "tool", FALSE)
      /\ UNCHANGED <<unacked, process, session, guard, receipts, saved, terminal>>
  BY DEF AskPermission
<1> QED BY <1>1, <1>7, <1>8, <1>9, CaptureType

LEMMA AutoDenyType == ASSUME TypeInv, NEW tool, AutoDeny(tool) PROVE TypeInv'
<1>1. agent \in Agents /\ agent.turn \in Nat /\ Without(tool) \in OpenTools /\ Blind \in BOOLEAN
  BY AgentType
<1>2. tool \in DOMAIN agent.open
  BY DEF AutoDeny, CurrentTools
<1>3. tool \in Nat /\ tool # None
  BY <1>2, AgentType DEF None
<1>4. (IF agent.asking = tool THEN Blind ELSE agent.blind) \in BOOLEAN /\ None \in Nat
  BY <1>1 DEF Agents, None
<1>7. agent' \in Agents
  BY Zenon, <1>1, <1>4 DEF Agents, AutoDeny
<1>8. "PermissionDenied" \in Events /\ "tool" \in Classes /\ FALSE \in BOOLEAN
  BY DEF Events, Classes
<1>9. /\ Capture("PermissionDenied", agent.turn, tool, "tool", FALSE)
      /\ UNCHANGED <<unacked, process, session, guard, receipts, saved, terminal>>
  BY DEF AutoDeny
<1> QED BY <1>1, <1>3, <1>7, <1>8, <1>9, CaptureType

LEMMA EndToolType == ASSUME TypeInv, NEW tool, EndTool(tool) PROVE TypeInv'
<1>1. agent \in Agents /\ Without(tool) \in OpenTools
  BY AgentType
<1>2. tool \in DOMAIN agent.open
  BY DEF EndTool
<1>3. tool \in Nat /\ tool # None /\ agent.open[tool].prompt \in Nat /\ agent.open[tool].class \in Classes
  BY <1>2, AgentType DEF None, Working1, Classes
<1>4. (agent.stray \/ agent.open[tool].prompt # agent.prompts) \in BOOLEAN
  BY AgentType
<1>7. agent' \in Agents
  BY Zenon, <1>1, <1>4 DEF Agents, EndTool
<1>8. "PostToolUse" \in Events /\ FALSE \in BOOLEAN
  BY DEF Events
<1>9. /\ Capture("PostToolUse", agent.open[tool].prompt, tool, agent.open[tool].class, FALSE)
      /\ UNCHANGED <<unacked, process, session, guard, receipts, saved, terminal>>
  BY DEF EndTool
<1> QED BY <1>3, <1>7, <1>8, <1>9, CaptureType

LEMMA StopType == ASSUME TypeInv, NEW wake \in BOOLEAN, Stop(wake) PROVE TypeInv'
<1>1. agent \in Agents /\ agent.turn \in Nat /\ agent.wakes \in SUBSET Nat
  BY AgentType
<1>2. (IF wake THEN agent.wakes \cup {agent.turn} ELSE agent.wakes \ {agent.turn}) \in SUBSET Nat /\ None \in Nat
  BY <1>1 DEF None
<1>3. agent' = [agent EXCEPT !.turn = None, !.ended = "stop", !.last = agent.turn,
                             !.wakes = IF wake THEN @ \cup {agent.turn} ELSE @ \ {agent.turn}]
  BY Zenon DEF Stop
<1>7. agent' \in Agents
  BY Zenon, <1>1, <1>2, <1>3 DEF Agents, Endings
<1>8. "Stop" \in Events /\ "Stop" \notin ToolEvents \cup Completions /\ "" \in Classes
  BY DEF Events, ToolEvents, Completions, Classes
<1>9. /\ Capture("Stop", agent.turn, None, "", wake)
      /\ UNCHANGED <<unacked, process, session, guard, receipts, saved, terminal>>
  BY DEF Stop
<1> QED BY <1>1, <1>2, <1>7, <1>8, <1>9, CaptureType

LEMMA WakeType == ASSUME TypeInv, NEW prompt, Wake(prompt) PROVE TypeInv'
<1>1. agent \in Agents /\ agent.wakes \in SUBSET Nat /\ agent.stray \in BOOLEAN
  BY AgentType
<1>2. prompt \in Nat
  BY <1>1 DEF Wake
<1>3. (agent.stray \/ prompt # agent.prompts) \in BOOLEAN
  BY <1>1
<1>4. agent' \in Agents
  BY Zenon, <1>1, <1>2, <1>3 DEF Agents, Endings, Wake
<1> QED BY <1>4 DEF Wake, TypeInv, ValuesOK, DiskOK, TransportOK, JudgedOK

(* The clock ticks, and the guard has judged nothing new.                   *)
LEMMA TickType ==
    ASSUME TypeInv, now' = now + 1, acts' \in Counters, agent' \in Agents, terminal' \in Terminals,
           guard' \in Guards, guard'.delivered = guard.delivered, SessionOf(session', now),
           UNCHANGED <<net, unacked, process, receipts, saved>>
    PROVE  TypeInv'
<1>1. now \in Nat /\ now' \in Nat /\ now <= now'
  BY DEF TypeInv, ValuesOK
<1>2. SessionOf(session', now') /\ SessionOf(saved.session, now')
  BY <1>1, SessionLater DEF TypeInv, DiskOK
<1>3. ValuesOK'
  BY <1>1, <1>2 DEF TypeInv, ValuesOK
<1>4. DiskOK'
  BY <1>2 DEF TypeInv, DiskOK
<1>5. TransportOK'
  <2>1. \A h \in net \cup unacked : h.at \in Nat /\ h.at <= now
    BY DEF TypeInv, TransportOK, Hooks
  <2>2. \A h \in net \cup unacked : h.at <= now'
    BY <1>1, <2>1
  <2> QED BY <2>2 DEF TypeInv, TransportOK
<1>6. JudgedOK'
  <2>1. \A d \in guard.delivered \cup receipts.ids \cup saved.receipts.ids : d \in Nat /\ d <= now
    BY DEF TypeInv, JudgedOK, ValuesOK, DiskOK, ReceiptsOK, Guards
  <2>2. \A d \in guard.delivered \cup receipts.ids \cup saved.receipts.ids : d <= now'
    BY <1>1, <2>1
  <2> QED BY <2>2 DEF TypeInv, JudgedOK, Apart
<1> QED BY <1>3, <1>4, <1>5, <1>6 DEF TypeInv

LEMMA ActedType == ASSUME TypeInv, Act PROVE acts' \in Counters /\ now' = now + 1 /\ now + 1 \in Nat
<1>1. acts \in Counters /\ now \in Nat
  BY DEF TypeInv, ValuesOK
<1>2. acts.user + 1 \in Nat
  BY <1>1 DEF Counters
<1>3. acts' \in Counters
  BY Zenon, <1>1, <1>2 DEF Act, Counters
<1> QED BY <1>1, <1>3 DEF Act

LEMMA RecordAnswerType ==
    ASSUME TypeInv, NEW g \in Guards, g.delivered = guard.delivered, RecordAnswer(g)
    PROVE  guard' \in Guards /\ guard'.delivered = guard.delivered /\ SessionOf(session', now)
<1>1. SessionOf(session, now) /\ now + 1 \in Nat
  BY DEF TypeInv, ValuesOK
<1>2. CASE NeedsInput(session)
  <2>1. guard' = Submitted(g, now + 1, session.wait[1].tool) /\ session' = Answered(session, now + 1)
    BY <1>2 DEF RecordAnswer
  <2> QED BY <1>1, <2>1, SubmittedType, AnsweredType
<1>3. CASE ~NeedsInput(session)
  <2>1. guard' = g /\ session' = session
    BY <1>3 DEF RecordAnswer
  <2> QED BY <1>1, <2>1
<1> QED BY <1>2, <1>3

LEMMA DialogType ==
    ASSUME TypeInv
    PROVE  Granted \in Agents /\ Denied \in Agents /\ Unasked \in Agents /\ CutTurn \in Agents
<1>1. agent \in Agents /\ Blind \in BOOLEAN /\ Without(agent.asking) \in OpenTools /\ None \in Nat
      /\ agent.turn \in Nat
  BY AgentType DEF None
<1>2. Granted \in Agents
  BY Zenon, <1>1 DEF Granted, Agents
<1>3. Denied \in Agents
  BY Zenon, <1>1, <1>2 DEF Denied, Agents
<1>4. Unasked \in Agents
  BY Zenon, <1>1 DEF Unasked, Agents
<1>5. CutTurn \in Agents
  BY Zenon, <1>1, <1>2 DEF CutTurn, Agents, Endings
<1> QED BY <1>2, <1>3, <1>4, <1>5

LEMMA AnswerType == ASSUME TypeInv, Answer PROVE TypeInv'
<1>1. acts' \in Counters /\ now' = now + 1
  BY ActedType DEF Answer
<1>2. agent' \in Agents
  BY DialogType DEF Answer
<1>3. terminal' \in Terminals
  BY DEF Answer, TypeInv, ValuesOK
<1>4. guard' \in Guards /\ guard'.delivered = guard.delivered /\ SessionOf(session', now)
  BY RecordAnswerType DEF Answer, TypeInv, ValuesOK
<1> QED BY <1>1, <1>2, <1>3, <1>4, TickType DEF Answer

LEMMA EscapeType == ASSUME TypeInv, Escape PROVE TypeInv'
<1>1. acts' \in Counters /\ now' = now + 1
  BY ActedType DEF Escape
<1>2. agent' \in Agents
  BY DialogType DEF Escape
<1>3. terminal' \in Terminals
  <2>1. terminal \in Terminals /\ (terminal.armed \/ MayRenderInterruption(session)) \in BOOLEAN
    BY DEF TypeInv, ValuesOK
  <2> QED BY Zenon, <2>1 DEF Escape, Terminals
<1>4. EscapePressed(guard) \in Guards /\ EscapePressed(guard).delivered = guard.delivered
  BY EscapePressedType DEF TypeInv, ValuesOK
<1>5. RecordAnswer(EscapePressed(guard))
  BY DEF Escape
<1>6. guard' \in Guards /\ guard'.delivered = guard.delivered /\ SessionOf(session', now)
  BY <1>4, <1>5, RecordAnswerType
<1> QED BY <1>1, <1>2, <1>3, <1>6, TickType DEF Escape

LEMMA CtrlCType == ASSUME TypeInv, CtrlC PROVE TypeInv'
<1>1. acts' \in Counters /\ now' = now + 1 /\ now + 1 \in Nat
  BY ActedType DEF CtrlC
<1>2. agent' \in Agents
  BY DialogType, AgentType DEF CtrlC
<1>3. terminal' \in Terminals
  <2>1. terminal \in Terminals
    BY DEF TypeInv, ValuesOK
  <2> QED BY Zenon, <1>1, <2>1 DEF CtrlC, Terminals
<1>4. guard' \in Guards /\ guard'.delivered = guard.delivered
  BY <1>1, CtrlCPressedType DEF CtrlC, TypeInv, ValuesOK
<1>5. SessionOf(session', now)
  BY CutType DEF CtrlC, TypeInv, ValuesOK
<1> QED BY <1>1, <1>2, <1>3, <1>4, <1>5, TickType DEF CtrlC

LEMMA RenderType == ASSUME TypeInv, Render PROVE TypeInv'
<1>1. terminal \in Terminals /\ now + 1 \in Nat /\ guard \in Guards
  BY DEF TypeInv, ValuesOK
<1>2. CASE EscapeIsCurrent(guard)
  <2>1. terminal' \in Terminals
    BY Zenon, <1>1, <1>2 DEF Render, Terminals
  <2>2. guard' \in Guards /\ guard'.delivered = guard.delivered
    BY <1>1, <1>2, InterruptedType DEF Render, AfterRender
  <2>3. SessionOf(session', now)
    BY <1>2, CutType DEF Render, TypeInv, ValuesOK
  <2>4. /\ now' = now + 1 /\ acts' \in Counters /\ agent' \in Agents
        /\ UNCHANGED <<net, unacked, process, receipts, saved>>
    BY <1>2 DEF Render, TypeInv, ValuesOK
  <2> QED BY <2>1, <2>2, <2>3, <2>4, TickType
<1>3. CASE ~EscapeIsCurrent(guard)
  <2>1. terminal' \in Terminals
    BY Zenon, <1>1, <1>3 DEF Render, Terminals
  <2> QED BY <1>3, <2>1 DEF Render, TypeInv, ValuesOK, DiskOK, TransportOK, JudgedOK
<1> QED BY <1>2, <1>3

LEMMA DisarmType == ASSUME TypeInv, Disarm \/ CtrlCSettles PROVE TypeInv'
<1>1. terminal \in Terminals
  BY DEF TypeInv, ValuesOK
<1>2. terminal' \in Terminals
  BY Zenon, <1>1 DEF Disarm, CtrlCSettles, Terminals
<1> QED BY <1>2 DEF Disarm, CtrlCSettles, TypeInv, ValuesOK, DiskOK, TransportOK, JudgedOK

LEMMA LaunchTimesOutType == ASSUME TypeInv, LaunchTimesOut PROVE TypeInv'
<1>1. SessionOf(session, now) /\ session \in Sessions
  BY DEF TypeInv, ValuesOK, SessionOf
<1>2. session' \in Sessions
  BY Zenon, <1>1 DEF LaunchTimesOut, Sessions, Reasons
<1>3. session'.wait = session.wait /\ session'.state = "review"
  BY <1>1 DEF LaunchTimesOut, Sessions
<1>4. SessionOf(session', now)
  BY <1>1, <1>2, <1>3 DEF SessionOf
<1> QED BY <1>4 DEF LaunchTimesOut, TypeInv, ValuesOK, DiskOK, TransportOK, JudgedOK

LEMMA LoseType == ASSUME TypeInv, NEW h, Lose(h) PROVE TypeInv'
BY DEF Lose, TypeInv, ValuesOK, DiskOK, TransportOK, JudgedOK, Apart

LEMMA ReceivedType ==
    ASSUME NEW r, ReceiptsOK(r), NEW h \in Hooks
    PROVE  ReceiptsOK(Received(r, h)) /\ Received(r, h).ids = r.ids \cup {h.at}
<1> DEFINE D == r.ids \cup {h.at}
           H == HooksAt(D)
<1>1. D \in SUBSET Nat
  BY DEF ReceiptsOK, Hooks
<1>2. h \in H /\ HooksAt(r.ids) \subseteq H
  BY DEF HooksAt
<1>3. r.kept \in Seq(HooksAt(r.ids))
  BY DEF ReceiptsOK
<1> HIDE DEF H
<1>4. r.kept \in Seq(H)
  BY <1>2, <1>3
<1>5. Append(r.kept, h) \in Seq(H)
  BY <1>2, <1>4
<1>6. WithReceipt(r.kept, h) \in Seq(H)
  <2>1. Compacted(Append(r.kept, h)) \in Seq(H)
    BY <1>5, CompactedReceipts
  <2> QED BY Zenon, <1>4, <2>1 DEF WithReceipt
<1>7. Received(r, h).ids = D /\ Received(r, h).kept = WithReceipt(r.kept, h)
  BY DEF Received
<1>8. ReceiptsOK(Received(r, h))
  BY Zenon, <1>1, <1>6, <1>7 DEF ReceiptsOK, H
<1> QED BY <1>7, <1>8

LEMMA TerminalAfterType ==
    ASSUME TypeInv, NEW h, NEW observed \in BOOLEAN, session' \in Sessions
    PROVE  TerminalAfter(terminal, h, observed) \in Terminals
<1>1. terminal \in Terminals
  BY DEF TypeInv, ValuesOK
<1> DEFINE resumed == session.state # "running" /\ session'.state = "running"
           worked == session'.evidence
           finished == h.event = "Stop" /\ observed /\ session'.wait = <<>>
<1>2. worked \in BOOLEAN
  BY DEF Sessions
<1>3. /\ (terminal.armed /\ ~resumed) \in BOOLEAN
      /\ (terminal.pending /\ ~(resumed \/ (observed /\ worked) \/ finished)) \in BOOLEAN
      /\ (terminal.worked \/ worked) \in BOOLEAN
  BY <1>1, <1>2 DEF Terminals
<1>4. TerminalAfter(terminal, h, observed) =
        [terminal EXCEPT !.armed = terminal.armed /\ ~resumed,
                         !.pending = terminal.pending /\ ~(resumed \/ (observed /\ worked) \/ finished),
                         !.worked = terminal.worked \/ worked]
  BY Zenon DEF TerminalAfter
<1> QED BY Zenon, <1>1, <1>3, <1>4 DEF Terminals

(* What a hook that is judged makes of the session.                         *)
Judgement(h) == Reduce(session, h, Correlated(guard, h), Context(h))
Observed(h) == Accepts(guard, h) /\ Judgement(h).observed

LEMMA DeliverIs ==
    ASSUME NEW h, Deliver(h)
    PROVE  /\ h \in net /\ net' = net \ {h}
           /\ session' = IF Accepts(guard, h) THEN Judgement(h).session ELSE session
           /\ guard' = Committed(guard, h, Observed(h))
           /\ receipts' = IF Observed(h) THEN Received(receipts, h) ELSE receipts
           /\ terminal' = IF Alive THEN TerminalAfter(terminal, h, Observed(h)) ELSE terminal
           /\ unacked' \subseteq unacked \cup {h}
           /\ UNCHANGED <<now, agent, process, saved, acts>>
BY DEF Deliver, Ingest, Judgement, Observed

LEMMA ContextType ==
    ASSUME TypeInv, NEW h
    PROVE  Context(h) \in Standings \cup {"unconfirmed"}
<1>1. process \in {"live", "exited", "cut", "startup"}
  BY DEF TypeInv, ValuesOK
<1> QED BY <1>1 DEF Context, Standings

LEMMA DeliveredType ==
    ASSUME TypeInv, NEW h \in net
    PROVE  /\ h \in Hooks /\ h.at <= now
           /\ SessionOf(Judgement(h).session, now) /\ Judgement(h).observed \in BOOLEAN
           /\ Observed(h) \in BOOLEAN
<1>1. h \in Hooks /\ h.at <= now /\ SessionOf(session, now) /\ guard \in Guards
  BY DEF TypeInv, TransportOK, ValuesOK
<1>2. Correlated(guard, h) \in Nat
  BY <1>1, CorrelatedType
<1>3. Context(h) \in Standings \cup {"unconfirmed"}
  BY ContextType
<1>4. GoodResult(Judgement(h), now)
  BY Zenon, <1>1, <1>2, <1>3, ReduceType DEF Judgement
<1>5. Observed(h) \in BOOLEAN
  BY DEF Observed
<1> QED BY <1>1, <1>4, <1>5 DEF GoodResult

LEMMA DeliverType == ASSUME TypeInv, NEW h, Deliver(h) PROVE TypeInv'
<1>0. /\ h \in net /\ net' = net \ {h}
      /\ session' = IF Accepts(guard, h) THEN Judgement(h).session ELSE session
      /\ guard' = Committed(guard, h, Observed(h))
      /\ receipts' = IF Observed(h) THEN Received(receipts, h) ELSE receipts
      /\ terminal' = IF Alive THEN TerminalAfter(terminal, h, Observed(h)) ELSE terminal
      /\ unacked' \subseteq unacked \cup {h}
      /\ UNCHANGED <<now, agent, process, saved, acts>>
  BY DeliverIs
<1>1. /\ h \in Hooks /\ h.at <= now /\ SessionOf(Judgement(h).session, now) /\ Observed(h) \in BOOLEAN
      /\ guard \in Guards /\ SessionOf(session, now) /\ ReceiptsOK(receipts)
  BY <1>0, DeliveredType DEF TypeInv, ValuesOK
<1>2. SessionOf(session', now) /\ session' \in Sessions
  BY <1>0, <1>1 DEF SessionOf
<1>3. guard' \in Guards /\ guard'.delivered = guard.delivered \cup {h.at}
  BY <1>0, <1>1, CommittedType, CommittedDelivered
<1>4. ReceiptsOK(receipts') /\ receipts'.ids \subseteq receipts.ids \cup {h.at}
  BY <1>0, <1>1, ReceivedType
<1>5. terminal' \in Terminals
  <2>1. TerminalAfter(terminal, h, Observed(h)) \in Terminals
    BY <1>1, <1>2, TerminalAfterType
  <2> QED BY <1>0, <2>1 DEF TypeInv, ValuesOK
<1>6. ValuesOK'
  <2>1. ReceiptsOK(receipts)' /\ SessionOf(session, now)'
    BY <1>0, <1>2, <1>4 DEF ReceiptsOK
  <2> QED BY <1>0, <1>3, <1>5, <2>1 DEF TypeInv, ValuesOK
<1>7. DiskOK'
  BY <1>0 DEF TypeInv, DiskOK
<1>8. TransportOK'
  BY <1>0 DEF TypeInv, TransportOK
<1>9. JudgedOK'
  <2>1. \A k \in net' : k.at # h.at /\ k \in net
    BY <1>0 DEF TypeInv, TransportOK
  <2>2. Apart(guard.delivered, net)' /\ Apart(receipts.ids, net)'
    BY <1>3, <1>4, <2>1 DEF TypeInv, JudgedOK, Apart
  <2>3. Apart(saved.receipts.ids, net \cup unacked)'
    BY <1>0 DEF TypeInv, JudgedOK, Apart
  <2>4. \A d \in (guard.delivered \cup receipts.ids \cup saved.receipts.ids)' : d <= now'
    BY <1>0, <1>1, <1>3, <1>4 DEF TypeInv, JudgedOK
  <2> QED BY <2>2, <2>3, <2>4 DEF JudgedOK
<1> QED BY <1>6, <1>7, <1>8, <1>9 DEF TypeInv

LEMMA PersistType == ASSUME TypeInv, Persist PROVE TypeInv'
<1>1. /\ saved'.session = session /\ saved'.receipts = receipts /\ saved'.fence = guard.fence
      /\ unacked' = {} /\ UNCHANGED <<now, agent, net, process, session, guard, receipts, terminal, acts>>
  BY DEF Persist, Durable
<1>2. ValuesOK'
  BY <1>1 DEF TypeInv, ValuesOK
<1>3. DiskOK'
  BY <1>1 DEF TypeInv, ValuesOK, DiskOK, Guards
<1>4. TransportOK'
  BY <1>1 DEF TypeInv, TransportOK
<1>5. JudgedOK'
  BY <1>1 DEF TypeInv, JudgedOK, Apart
<1> QED BY <1>2, <1>3, <1>4, <1>5 DEF TypeInv

LEMMA ExitType == ASSUME TypeInv, NEW clean \in BOOLEAN, Exit(clean) PROVE TypeInv'
<1>1. terminal \in Terminals
  BY DEF TypeInv, ValuesOK
<1>2. terminal' \in Terminals
  BY Zenon, <1>1 DEF Exit, Terminals
<1>3. SessionOf(session', now)
  <2>1. terminal.pending \in BOOLEAN /\ terminal.worked \in BOOLEAN /\ SessionOf(session, now)
    BY <1>1 DEF Terminals, TypeInv, ValuesOK
  <2> QED BY <2>1, ExitedType DEF Exit
<1> QED BY <1>2, <1>3 DEF Exit, TypeInv, ValuesOK, DiskOK, TransportOK, JudgedOK

LEMMA AnswerOfType == ASSUME NEW s \in Sessions PROVE AnswerOf(s).at \in Nat
BY SessionWait DEF AnswerOf, Waits

LEMMA CrashType == ASSUME TypeInv, Crash PROVE TypeInv'
<1>1. /\ now' = now /\ agent' = agent /\ saved' = saved /\ process' = "startup" /\ terminal' = Untouched
      /\ session' = Hydrated(saved.session) /\ receipts' = saved.receipts
      /\ guard' = RestoredGuard(saved) /\ unacked' = {} /\ net' \subseteq net \cup unacked
      /\ acts' = [acts EXCEPT !.crashes = @ + 1]
  BY DEF Crash
<1>2. acts' \in Counters
  <2>1. acts \in Counters /\ acts.crashes + 1 \in Nat
    BY DEF TypeInv, ValuesOK, Counters
  <2> QED BY Zenon, <1>1, <2>1 DEF Counters
<1>3. terminal' \in Terminals
  BY <1>1 DEF Untouched, Terminals
<1>4. SessionOf(session', now) /\ saved.session \in Sessions
  BY <1>1, HydratedType DEF TypeInv, DiskOK, SessionOf
<1>5. guard' \in Guards /\ guard'.delivered = saved.receipts.ids
  <2>1. AnswerOf(saved.session).at \in Nat
    BY <1>4, AnswerOfType
  <2>2. /\ saved.receipts.ids \in SUBSET Nat /\ saved.receipts.kept \in Seq(HooksAt(saved.receipts.ids))
        /\ saved.fence \in Opt(Fences)
    BY DEF TypeInv, DiskOK, ReceiptsOK
  <2> QED BY <1>1, <2>1, <2>2, RestoredType DEF RestoredGuard
<1>6. ValuesOK'
  <2>1. ReceiptsOK(receipts')
    BY <1>1 DEF TypeInv, DiskOK
  <2>2. ReceiptsOK(receipts)' /\ SessionOf(session, now)'
    BY <1>1, <1>4, <2>1 DEF ReceiptsOK
  <2> QED BY <1>1, <1>2, <1>3, <1>5, <2>2 DEF TypeInv, ValuesOK
<1>7. DiskOK'
  BY <1>1 DEF TypeInv, DiskOK
<1>8. TransportOK'
  BY <1>1 DEF TypeInv, TransportOK
<1>9. JudgedOK'
  BY <1>1, <1>5 DEF TypeInv, JudgedOK, Apart
<1> QED BY <1>6, <1>7, <1>8, <1>9 DEF TypeInv

LEMMA TypeStep == ASSUME TypeInv, [Next]_vars PROVE TypeInv'
<1>1. CASE Claude
  <2>1. CASE Submit
    BY <2>1, SubmitType
  <2>2. CASE \E class \in {"tool", "question"} : StartTool(class)
    BY <2>2, StartToolType
  <2>3. CASE \E tool \in DOMAIN agent.open : AskPermission(tool) \/ AutoDeny(tool) \/ EndTool(tool)
    BY <2>3, AskPermissionType, AutoDenyType, EndToolType
  <2>4. CASE \E wake \in BOOLEAN : Stop(wake)
    BY <2>4, StopType
  <2>5. CASE \E prompt \in agent.wakes : Wake(prompt)
    BY <2>5, WakeType
  <2> QED BY <1>1, <2>1, <2>2, <2>3, <2>4, <2>5 DEF Claude
<1>2. CASE User
  BY <1>2, AnswerType, EscapeType, CtrlCType DEF User
<1>3. CASE Runtime
  BY <1>3, RenderType, DisarmType, LaunchTimesOutType, PersistType, DeliverType, LoseType DEF Runtime
<1>4. CASE Ends
  BY <1>4, ExitType, CrashType DEF Ends
<1>5. CASE UNCHANGED vars
  BY <1>5 DEF vars, TypeInv, ValuesOK, DiskOK, TransportOK, JudgedOK
<1> QED BY <1>1, <1>2, <1>3, <1>4, <1>5 DEF Next

LEMMA TypeInvariant == Spec => []TypeInv
<1>1. Init => TypeInv
  BY TypeInit
<1>2. TypeInv /\ [Next]_vars => TypeInv'
  BY TypeStep
<1> QED BY <1>1, <1>2, PTL DEF Spec

(* TypeOK: times have happened, a Running session waits for nobody, and no   *)
(* hook is judged twice, however it travels and whatever crashes.            *)
THEOREM TypeCorrectness == Spec => []TypeOK
<1>1. TypeInv => TypeOK
  <2> SUFFICES ASSUME TypeInv PROVE TypeOK
    OBVIOUS
  <2>1. now \in Nat /\ process \in {"live", "exited", "cut", "startup"} /\ session.state \in {"running", "review"}
    BY DEF TypeInv, ValuesOK, SessionOf, Sessions
  <2>2. ASSUME NEW i \in DOMAIN session.wait
        PROVE  session.wait[i].status \in Statuses /\ session.wait[i].openedAt <= now
    <3>0. DOMAIN <<>> = {}
      OBVIOUS
    <3>1. session \in Sessions /\ session.wait # <<>>
      BY Zenon, <3>0 DEF TypeInv, ValuesOK, SessionOf
    <3>2. session.wait[1] \in Waits /\ session.wait = <<session.wait[1]>>
      BY <3>1, SessionWait
    <3>3. i = 1
      BY <3>2
    <3> QED BY <3>1, <3>2, <3>3 DEF TypeInv, ValuesOK, SessionOf, Waits
  <2>3. session.state = "running" => session.wait = <<>> /\ session.reason = ""
    BY DEF TypeInv, ValuesOK, SessionOf
  <2>4. \A h \in net \cup unacked : h.at \in 1 .. now
    BY <2>1 DEF TypeInv, TransportOK, Hooks
  <2>5. guard.delivered \cap {h.at : h \in net} = {}
    BY DEF TypeInv, JudgedOK, Apart
  <2> QED BY <2>1, <2>2, <2>3, <2>4, <2>5 DEF TypeOK
<1> QED BY <1>1, TypeInvariant, PTL

-----------------------------------------------------------------------------
(* What the agent does to itself and to what is on its way.                 *)

(* A hook that is captured: the only new one, at the tick of the clock.      *)
Captured(event, prompt, tool, class, wake) ==
    /\ now' = now + 1
    /\ \E h \in Hooks :
          /\ net' = net \cup {h}
          /\ h.at = now + 1 /\ h.event = event /\ h.tool = tool /\ h.class = class /\ h.wake = wake
          /\ h.prompt \in {prompt, None} /\ (~MayOmit => h.prompt = prompt)

(* The class of what is no tool, and that the turn is over.  They are named   *)
(* because the SMT backend cannot read the empty string.                      *)
NoClass == ""
TurnIsOver == agent.ended # ""

LEMMA CaptureIs ==
    ASSUME TypeInv, NEW event \in Events, NEW prompt \in Nat, NEW tool \in Nat, NEW class \in Classes,
           NEW wake \in BOOLEAN, event \in ToolEvents \cup Completions => tool # None,
           Capture(event, prompt, tool, class, wake)
    PROVE  Captured(event, prompt, tool, class, wake)
<1>1. PICK named \in IF MayOmit THEN {prompt, None} ELSE {prompt} :
          net' = net \cup {[at |-> now + 1, event |-> event, prompt |-> named, tool |-> tool,
                            class |-> class, wake |-> wake]}
  BY DEF Capture
<1> DEFINE new == [at |-> now + 1, event |-> event, prompt |-> named, tool |-> tool, class |-> class, wake |-> wake]
<1>2. now \in Nat /\ now' = now + 1
  BY DEF Capture, TypeInv, ValuesOK
<1>3. named \in Nat /\ named \in {prompt, None} /\ (~MayOmit => named = prompt)
  BY DEF None
<1>4. new \in Hooks
  BY <1>2, <1>3 DEF Hooks
<1>5. new.at = now + 1 /\ new.event = event /\ new.tool = tool /\ new.class = class /\ new.wake = wake
      /\ new.prompt = named
  OBVIOUS
<1> HIDE DEF new
<1>6. net' = net \cup {new}
  BY <1>1 DEF new
<1> QED BY <1>2, <1>3, <1>4, <1>5, <1>6 DEF Captured

LEMMA RestrictedOpen ==
    ASSUME NEW f, NEW t
    PROVE  /\ DOMAIN Restrict(f, DOMAIN f \ {t}) = DOMAIN f \ {t}
           /\ \A u \in DOMAIN f \ {t} : Restrict(f, DOMAIN f \ {t})[u] = f[u]
BY DEF Restrict

LEMMA SubmitDoes ==
    ASSUME TypeInv, Submit
    PROVE  /\ agent.turn = None
           /\ agent'.turn = agent.prompts + 1 /\ agent'.prompts = agent.prompts + 1
           /\ ~TurnIsOver' /\ ~agent'.stray
           /\ agent'.asking = agent.asking /\ agent'.open = agent.open /\ agent'.wakes = agent.wakes
           /\ agent'.last = agent.last /\ agent'.blind = agent.blind /\ agent'.tools = agent.tools
           /\ Captured("UserPromptSubmit", agent.prompts + 1, None, NoClass, FALSE)
<1>1. agent \in Agents /\ agent.prompts + 1 \in Nat
  BY AgentType
<1>2. agent' = [agent EXCEPT !.turn = agent.prompts + 1, !.prompts = agent.prompts + 1, !.ended = "",
                             !.stray = FALSE]
  BY Zenon DEF Submit
<1>3. agent'.ended = ""
  BY Zenon, <1>1, <1>2 DEF Agents
<1>4. /\ agent'.turn = agent.prompts + 1 /\ agent'.prompts = agent.prompts + 1
      /\ ~agent'.stray
      /\ agent'.asking = agent.asking /\ agent'.open = agent.open /\ agent'.wakes = agent.wakes
      /\ agent'.last = agent.last /\ agent'.blind = agent.blind /\ agent'.tools = agent.tools
  <2> DEFINE e == ""
  <2>1. agent' = [agent EXCEPT !.turn = agent.prompts + 1, !.prompts = agent.prompts + 1, !.ended = e,
                             !.stray = FALSE]
    BY Zenon, <1>2
  <2> HIDE DEF e
  <2> QED BY <1>1, <2>1 DEF Agents
<1>5. agent.turn = None
  BY DEF Submit, Idle
<1>6. Captured("UserPromptSubmit", agent.prompts + 1, None, NoClass, FALSE)
  <2>1. "UserPromptSubmit" \in Events /\ "UserPromptSubmit" \notin ToolEvents \cup Completions /\ NoClass \in Classes
      /\ FALSE \in BOOLEAN /\ None \in Nat
    BY Zenon DEF Events, ToolEvents, Completions, Classes, None, NoClass
  <2>2. Capture("UserPromptSubmit", agent.prompts + 1, None, NoClass, FALSE)
    BY Zenon DEF Submit, NoClass
  <2> QED BY Zenon, <1>1, <2>1, <2>2, CaptureIs
<1>7. ~TurnIsOver'
  BY Zenon, <1>3 DEF TurnIsOver
<1> QED BY Zenon, <1>4, <1>5, <1>6, <1>7

LEMMA StartToolDoes ==
    ASSUME TypeInv, NEW class \in {"tool", "question"}, StartTool(class)
    PROVE  LET tool == agent.tools + 1
           IN  /\ agent.turn # None /\ agent.asking = None
               /\ agent'.tools = tool
               /\ DOMAIN agent'.open = DOMAIN agent.open \cup {tool}
               /\ agent'.open[tool].prompt = agent.turn
               /\ agent'.open[tool].asked = (IF class = "question" THEN now + 1 ELSE 0)
               /\ \A t \in DOMAIN agent.open : t # tool => agent'.open[t] = agent.open[t]
               /\ agent'.asking = (IF class = "question" THEN tool ELSE None)
               /\ agent'.blind = (IF class = "question" THEN Blind ELSE agent.blind)
               /\ agent'.turn = agent.turn /\ agent'.wakes = agent.wakes /\ agent'.ended = agent.ended
               /\ agent'.last = agent.last /\ agent'.stray = agent.stray /\ agent'.prompts = agent.prompts
               /\ Captured("PreToolUse", agent.turn, tool, class, FALSE)
<1> DEFINE tool == agent.tools + 1
           opened == [prompt |-> agent.turn, class |-> class, asked |-> IF class = "question" THEN now + 1 ELSE 0]
           open == Put(agent.open, tool, opened)
           asking == IF class = "question" THEN tool ELSE None
           blind == IF class = "question" THEN Blind ELSE agent.blind
<1>1. agent \in Agents /\ tool \in Nat /\ tool # None /\ agent.turn \in Nat
  BY AgentType DEF None
<1>2. DOMAIN open = DOMAIN agent.open \cup {tool} /\ open[tool] = opened
      /\ \A t \in DOMAIN agent.open : t # tool => open[t] = agent.open[t]
  <2> HIDE DEF tool, opened
  <2> QED BY DEF Put
<1>3. opened.prompt = agent.turn /\ opened.asked = IF class = "question" THEN now + 1 ELSE 0
  OBVIOUS
<1>4. agent' = [agent EXCEPT !.tools = tool, !.open = open, !.asking = asking, !.blind = blind]
  BY Zenon DEF StartTool
<1>5. agent.turn # None /\ agent.asking = None
  BY DEF StartTool, Idle
<1>6. Captured("PreToolUse", agent.turn, tool, class, FALSE)
  <2>1. "PreToolUse" \in Events /\ class \in Classes /\ FALSE \in BOOLEAN
    BY DEF Events, Classes
  <2>2. Capture("PreToolUse", agent.turn, tool, class, FALSE)
    BY Zenon DEF StartTool
  <2> HIDE DEF tool
  <2> QED BY Zenon, <1>1, <2>1, <2>2, CaptureIs
<1> HIDE DEF tool, opened, open, asking, blind
<1>7. /\ agent'.tools = tool /\ agent'.open = open /\ agent'.asking = asking /\ agent'.blind = blind
      /\ agent'.turn = agent.turn /\ agent'.wakes = agent.wakes /\ agent'.ended = agent.ended
      /\ agent'.last = agent.last /\ agent'.stray = agent.stray /\ agent'.prompts = agent.prompts
  BY <1>1, <1>4 DEF Agents
<1> QED BY <1>2, <1>3, <1>5, <1>6, <1>7 DEF tool, asking, blind

LEMMA AskPermissionDoes ==
    ASSUME TypeInv, NEW tool, AskPermission(tool)
    PROVE  /\ agent.asking = None /\ tool \in DOMAIN agent.open /\ agent.open[tool].prompt = agent.turn
           /\ DOMAIN agent'.open = DOMAIN agent.open
           /\ \A t \in DOMAIN agent.open : agent'.open[t].prompt = agent.open[t].prompt
           /\ agent'.open[tool].asked = now + 1
           /\ agent'.asking = tool /\ agent'.blind = Blind
           /\ agent'.tools = agent.tools
           /\ agent'.turn = agent.turn /\ agent'.wakes = agent.wakes /\ agent'.ended = agent.ended
           /\ agent'.last = agent.last /\ agent'.stray = agent.stray /\ agent'.prompts = agent.prompts
           /\ Captured("PermissionRequest", agent.turn, None, "tool", FALSE)
<1>1. agent \in Agents /\ now + 1 \in Nat /\ agent.turn \in Nat /\ agent.open \in OpenTools
  BY AgentType
<1>2. agent.asking = None /\ tool \in DOMAIN agent.open /\ agent.open[tool].prompt = agent.turn
  BY DEF AskPermission, CurrentTools
<1>3. agent.open[tool] \in Working1
  BY <1>2, AgentType
<1> DEFINE asked == [agent.open[tool] EXCEPT !.asked = now + 1]
           open == [agent.open EXCEPT ![tool] = asked]
<1>4. asked.prompt = agent.open[tool].prompt /\ asked.asked = now + 1
  BY <1>3 DEF Working1
<1>5. agent' = [agent EXCEPT !.asking = tool, !.open = open, !.blind = Blind]
  <2>1. [agent EXCEPT !.asking = tool].open = agent.open
    BY <1>1 DEF Agents
  <2> QED BY Zenon, <2>1 DEF AskPermission
<1>6. Captured("PermissionRequest", agent.turn, None, "tool", FALSE)
  <2>1. "PermissionRequest" \in Events /\ "PermissionRequest" \notin ToolEvents \cup Completions /\ "tool" \in Classes
      /\ FALSE \in BOOLEAN /\ None \in Nat
    BY DEF Events, ToolEvents, Completions, Classes, None
  <2>2. Capture("PermissionRequest", agent.turn, None, "tool", FALSE)
    BY Zenon DEF AskPermission
  <2> QED BY Zenon, <1>1, <2>1, <2>2, CaptureIs
<1> HIDE DEF asked
<1>7. DOMAIN open = DOMAIN agent.open /\ open[tool] = asked
      /\ \A t \in DOMAIN agent.open : t # tool => open[t] = agent.open[t]
  BY <1>2
<1> HIDE DEF open
<1>8. /\ agent'.asking = tool /\ agent'.blind = Blind /\ agent'.open = open
      /\ agent'.tools = agent.tools
      /\ agent'.turn = agent.turn /\ agent'.wakes = agent.wakes /\ agent'.ended = agent.ended
      /\ agent'.last = agent.last /\ agent'.stray = agent.stray /\ agent'.prompts = agent.prompts
  BY <1>1, <1>5 DEF Agents
<1> QED BY <1>2, <1>4, <1>6, <1>7, <1>8

LEMMA WithoutIs ==
    ASSUME NEW t
    PROVE  DOMAIN Without(t) = DOMAIN agent.open \ {t} /\ \A u \in DOMAIN agent.open \ {t} : Without(t)[u] = agent.open[u]
BY RestrictedOpen DEF Without

LEMMA AutoDenyDoes ==
    ASSUME TypeInv, NEW tool, AutoDeny(tool)
    PROVE  /\ agent.asking \in {None, tool} /\ tool \in DOMAIN agent.open /\ agent.open[tool].prompt = agent.turn
           /\ agent'.open = Without(tool) /\ agent'.asking = None
           /\ agent'.blind = (IF agent.asking = tool THEN Blind ELSE agent.blind)
           /\ agent'.tools = agent.tools
           /\ agent'.turn = agent.turn /\ agent'.wakes = agent.wakes /\ agent'.ended = agent.ended
           /\ agent'.last = agent.last /\ agent'.stray = agent.stray /\ agent'.prompts = agent.prompts
           /\ Captured("PermissionDenied", agent.turn, tool, "tool", FALSE)
<1>1. agent \in Agents /\ agent.turn \in Nat
  BY AgentType
<1>2. agent.asking \in {None, tool} /\ tool \in DOMAIN agent.open /\ agent.open[tool].prompt = agent.turn
  BY DEF AutoDeny, CurrentTools
<1>3. agent' = [agent EXCEPT !.asking = None, !.open = Without(tool),
                             !.blind = IF agent.asking = tool THEN Blind ELSE agent.blind]
  BY Zenon DEF AutoDeny
<1>4. Captured("PermissionDenied", agent.turn, tool, "tool", FALSE)
  <2>1. "PermissionDenied" \in Events /\ "tool" \in Classes /\ FALSE \in BOOLEAN /\ tool \in Nat /\ tool # None
    BY <1>2, AgentType DEF Events, Classes, None
  <2>2. Capture("PermissionDenied", agent.turn, tool, "tool", FALSE)
    BY Zenon DEF AutoDeny
  <2> QED BY Zenon, <1>1, <2>1, <2>2, CaptureIs
<1>5. /\ agent'.open = Without(tool) /\ agent'.asking = None
      /\ agent'.blind = (IF agent.asking = tool THEN Blind ELSE agent.blind)
      /\ agent'.tools = agent.tools
      /\ agent'.turn = agent.turn /\ agent'.wakes = agent.wakes /\ agent'.ended = agent.ended
      /\ agent'.last = agent.last /\ agent'.stray = agent.stray /\ agent'.prompts = agent.prompts
  BY <1>1, <1>3 DEF Agents
<1> QED BY <1>2, <1>4, <1>5

LEMMA EndToolDoes ==
    ASSUME TypeInv, NEW tool, EndTool(tool)
    PROVE  /\ tool \in DOMAIN agent.open /\ agent.asking # tool
           /\ agent'.open = Without(tool)
           /\ agent'.stray = (agent.stray \/ agent.open[tool].prompt # agent.prompts)
           /\ agent'.asking = agent.asking /\ agent'.blind = agent.blind
           /\ agent'.tools = agent.tools
           /\ agent'.turn = agent.turn /\ agent'.wakes = agent.wakes /\ agent'.ended = agent.ended
           /\ agent'.last = agent.last /\ agent'.prompts = agent.prompts
           /\ Captured("PostToolUse", agent.open[tool].prompt, tool, agent.open[tool].class, FALSE)
<1>1. agent \in Agents
  BY AgentType
<1>2. tool \in DOMAIN agent.open /\ agent.asking # tool
  BY DEF EndTool
<1>3. agent' = [agent EXCEPT !.open = Without(tool), !.stray = agent.stray \/ agent.open[tool].prompt # agent.prompts]
  BY Zenon DEF EndTool
<1>4. Captured("PostToolUse", agent.open[tool].prompt, tool, agent.open[tool].class, FALSE)
  <2>1. "PostToolUse" \in Events /\ FALSE \in BOOLEAN
    BY DEF Events
  <2>2. tool \in Nat /\ tool # None /\ agent.open[tool].prompt \in Nat /\ agent.open[tool].class \in Classes
    BY <1>2, AgentType DEF None, Working1, Classes
  <2>3. Capture("PostToolUse", agent.open[tool].prompt, tool, agent.open[tool].class, FALSE)
    BY Zenon DEF EndTool
  <2> QED BY Zenon, <2>1, <2>2, <2>3, CaptureIs
<1> DEFINE stray == agent.stray \/ agent.open[tool].prompt # agent.prompts
<1>5. agent' = [agent EXCEPT !.open = Without(tool), !.stray = stray]
  BY <1>3
<1> HIDE DEF stray
<1>6. /\ agent'.open = Without(tool) /\ agent'.stray = stray
      /\ agent'.asking = agent.asking /\ agent'.blind = agent.blind
      /\ agent'.tools = agent.tools
      /\ agent'.turn = agent.turn /\ agent'.wakes = agent.wakes /\ agent'.ended = agent.ended
      /\ agent'.last = agent.last /\ agent'.prompts = agent.prompts
  BY <1>1, <1>5 DEF Agents
<1> QED BY <1>2, <1>4, <1>6 DEF stray

LEMMA StopDoes ==
    ASSUME TypeInv, NEW wake \in BOOLEAN, Stop(wake)
    PROVE  /\ agent.turn # None /\ agent.asking = None
           /\ \A t \in DOMAIN agent.open : agent.open[t].prompt # agent.turn
           /\ agent'.turn = None /\ agent'.ended = "stop" /\ agent'.last = agent.turn
           /\ agent'.wakes = (IF wake THEN agent.wakes \cup {agent.turn} ELSE agent.wakes \ {agent.turn})
           /\ agent'.open = agent.open /\ agent'.stray = agent.stray
           /\ agent'.asking = agent.asking /\ agent'.blind = agent.blind
           /\ agent'.tools = agent.tools /\ agent'.prompts = agent.prompts
           /\ Captured("Stop", agent.turn, None, NoClass, wake)
<1>1. agent \in Agents /\ agent.turn \in Nat
  BY AgentType
<1>2. agent.turn # None /\ agent.asking = None /\ CurrentTools = {}
  BY DEF Stop, Idle
<1>3. \A t \in DOMAIN agent.open : agent.open[t].prompt # agent.turn
  BY <1>2 DEF CurrentTools
<1> DEFINE wakes == IF wake THEN agent.wakes \cup {agent.turn} ELSE agent.wakes \ {agent.turn}
<1>4. agent' = [agent EXCEPT !.turn = None, !.ended = "stop", !.last = agent.turn, !.wakes = wakes]
  BY Zenon DEF Stop
<1>5. Captured("Stop", agent.turn, None, NoClass, wake)
  <2>1. "Stop" \in Events /\ "Stop" \notin ToolEvents \cup Completions /\ NoClass \in Classes
    BY Zenon DEF Events, ToolEvents, Completions, Classes, NoClass
  <2>3. None \in Nat
    BY DEF None
  <2>2. Capture("Stop", agent.turn, None, NoClass, wake)
    BY Zenon DEF Stop, NoClass
  <2> QED BY Zenon, <1>1, <2>1, <2>2, <2>3, CaptureIs
<1> HIDE DEF wakes
<1>6. /\ agent'.turn = None /\ agent'.ended = "stop" /\ agent'.last = agent.turn
      /\ agent'.wakes = wakes
      /\ agent'.open = agent.open /\ agent'.stray = agent.stray
      /\ agent'.asking = agent.asking /\ agent'.blind = agent.blind
      /\ agent'.tools = agent.tools /\ agent'.prompts = agent.prompts
  BY <1>1, <1>4 DEF Agents
<1> QED BY Zenon, <1>2, <1>3, <1>5, <1>6 DEF wakes

LEMMA WakeDoes ==
    ASSUME TypeInv, NEW prompt, prompt \in agent.wakes, Wake(prompt)
    PROVE  /\ agent.turn = None
           /\ agent'.turn = prompt /\ ~TurnIsOver'
           /\ agent'.stray = (agent.stray \/ prompt # agent.prompts)
           /\ agent'.open = agent.open /\ agent'.wakes = agent.wakes /\ agent'.last = agent.last
           /\ agent'.asking = agent.asking /\ agent'.blind = agent.blind
           /\ agent'.tools = agent.tools /\ agent'.prompts = agent.prompts
           /\ UNCHANGED <<now, net>>
<1>1. agent \in Agents
  BY AgentType
<1>2. agent.turn = None /\ UNCHANGED <<now, net>>
  BY DEF Wake, Idle
<1> DEFINE stray == agent.stray \/ prompt # agent.prompts
           e == ""
<1>3. agent' = [agent EXCEPT !.turn = prompt, !.ended = e, !.stray = stray]
  BY Zenon DEF Wake
<1> HIDE DEF stray, e
<1>4. /\ agent'.turn = prompt /\ agent'.ended = e /\ agent'.stray = stray
      /\ agent'.open = agent.open /\ agent'.wakes = agent.wakes /\ agent'.last = agent.last
      /\ agent'.asking = agent.asking /\ agent'.blind = agent.blind
      /\ agent'.tools = agent.tools /\ agent'.prompts = agent.prompts
  BY <1>1, <1>3 DEF Agents
<1>5. ~TurnIsOver'
  BY Zenon, <1>4 DEF TurnIsOver, e
<1> QED BY Zenon, <1>2, <1>4, <1>5 DEF stray

(* What a dialog or an interrupt makes of the agent: nothing but the wait it  *)
(* asks for, at most its tool, and for an interrupt the turn.                *)
Dealt(a) ==
    /\ a.prompts = agent.prompts /\ a.tools = agent.tools /\ a.wakes = agent.wakes /\ a.stray = agent.stray
    /\ DOMAIN a.open \subseteq DOMAIN agent.open
    /\ \A t \in DOMAIN a.open : a.open[t] = agent.open[t]
    /\ a.blind = Blind

LEMMA DialogDoes ==
    ASSUME TypeInv
    PROVE  /\ Dealt(Granted) /\ Dealt(Denied) /\ Dealt(Unasked) /\ Dealt(CutTurn)
           /\ Granted.asking = None /\ Denied.asking = None /\ CutTurn.asking = None
           /\ Unasked.asking = agent.asking
           /\ \A a \in {Granted, Denied, Unasked} :
                 a.turn = agent.turn /\ a.ended = agent.ended /\ a.last = agent.last
           /\ CutTurn.turn = None /\ CutTurn.ended = "cut" /\ CutTurn.last = agent.turn
<1>1. agent \in Agents
  BY AgentType
<1> DEFINE b == Blind
           w == Without(agent.asking)
<1>2. DOMAIN w \subseteq DOMAIN agent.open /\ \A t \in DOMAIN w : w[t] = agent.open[t]
  BY WithoutIs
<1>3. Granted = [agent EXCEPT !.asking = None, !.blind = b]
  BY DEF Granted
<1>4. Denied = [[agent EXCEPT !.asking = None, !.blind = b] EXCEPT !.open = w]
  BY <1>3 DEF Denied
<1>5. Unasked = [agent EXCEPT !.blind = b]
  BY DEF Unasked
<1>6. CutTurn = [[agent EXCEPT !.asking = None, !.blind = b] EXCEPT !.turn = None, !.ended = "cut", !.last = agent.turn]
  BY <1>3 DEF CutTurn
<1> HIDE DEF b, w
<1>7. /\ Granted.prompts = agent.prompts /\ Granted.tools = agent.tools /\ Granted.wakes = agent.wakes
      /\ Granted.stray = agent.stray /\ Granted.open = agent.open /\ Granted.blind = b
      /\ Granted.asking = None /\ Granted.turn = agent.turn /\ Granted.ended = agent.ended
      /\ Granted.last = agent.last
  BY <1>1, <1>3 DEF Agents
<1>8. /\ Denied.prompts = agent.prompts /\ Denied.tools = agent.tools /\ Denied.wakes = agent.wakes
      /\ Denied.stray = agent.stray /\ Denied.open = w /\ Denied.blind = b
      /\ Denied.asking = None /\ Denied.turn = agent.turn /\ Denied.ended = agent.ended
      /\ Denied.last = agent.last
  BY <1>1, <1>4 DEF Agents
<1>9. /\ Unasked.prompts = agent.prompts /\ Unasked.tools = agent.tools /\ Unasked.wakes = agent.wakes
      /\ Unasked.stray = agent.stray /\ Unasked.open = agent.open /\ Unasked.blind = b
      /\ Unasked.asking = agent.asking /\ Unasked.turn = agent.turn /\ Unasked.ended = agent.ended
      /\ Unasked.last = agent.last
  BY <1>1, <1>5 DEF Agents
<1>10. /\ CutTurn.prompts = agent.prompts /\ CutTurn.tools = agent.tools /\ CutTurn.wakes = agent.wakes
       /\ CutTurn.stray = agent.stray /\ CutTurn.open = agent.open /\ CutTurn.blind = b
       /\ CutTurn.asking = None /\ CutTurn.turn = None /\ CutTurn.ended = "cut"
       /\ CutTurn.last = agent.turn
  BY <1>1, <1>6 DEF Agents
<1>11. Dealt(Granted) /\ Dealt(Unasked) /\ Dealt(CutTurn)
  BY <1>7, <1>9, <1>10 DEF Dealt, b
<1>12. Dealt(Denied)
  BY <1>2, <1>8 DEF Dealt, b
<1> QED BY <1>7, <1>8, <1>9, <1>10, <1>11, <1>12

-----------------------------------------------------------------------------
(* What a judged hook makes of the session, once more, now with the states.   *)

LEMMA KindIs ==
    ASSUME NEW h
    PROVE  OpensInteraction(h) <=> InteractionKind(h) # ""
BY Zenon DEF InteractionKind

(* The session that a judged hook leaves, when it may speak for the process.  *)
LEMMA ReduceWays ==
    ASSUME NEW s, NEW h, NEW tool, NEW context, context # "unconfirmed", NEW r, r = Reduce(s, h, tool, context)
    PROVE  /\ OpensInteraction(h) => r = Result(ShownWait(Asked(s, h), Shown(s, h, tool), context), TRUE)
           /\ ~OpensInteraction(h) /\ s.wait # <<>> => r = ReduceDuringWait(s, h, context)
           /\ ~OpensInteraction(h) /\ s.wait = <<>> => r = ReduceWithoutWait(s, h, context)
BY Zenon, ReduceIs, KindIs

LEMMA ReduceOpens ==
    ASSUME NEW n, NEW s, SessionOf(s, n), NEW h, NEW tool, OpensInteraction(h),
           NEW r, r = Reduce(s, h, tool, "live")
    PROVE  r.session.state = "review" /\ r.session.wait = <<Shown(s, h, tool)>> /\ r.observed
<1> DEFINE a == Asked(s, h)
           w == Shown(s, h, tool)
           x == ShownWait(a, w, "live")
<1>1. r = Result(x, TRUE)
  <2>1. "live" # "unconfirmed"
    OBVIOUS
  <2> QED BY Zenon, <2>1, ReduceWays
<1>2. a \in Sessions /\ a.state = "review"
  BY AskedType DEF SessionOf
<1> HIDE DEF a, w
<1>3. x = [a EXCEPT !.wait = <<w>>]
  BY ShownWaitLive
<1>4. x.state = "review" /\ x.wait = <<w>>
  BY <1>2, <1>3 DEF Sessions
<1> HIDE DEF x
<1>5. r.session = x /\ r.observed = TRUE
  BY <1>1 DEF Result
<1> QED BY <1>4, <1>5 DEF w

LEMMA ReduceIdle ==
    ASSUME NEW n, NEW s, SessionOf(s, n), NEW h, NEW tool, ~OpensInteraction(h), s.wait = <<>>,
           NEW r, r = Reduce(s, h, tool, "live")
    PROVE  /\ r.session.wait = <<>> /\ r.observed
           /\ h.event = "Stop" => r.session.state = "review"
           /\ h.event \notin {"UserPromptSubmit", "PreToolUse", "PostToolUse"} =>
                 r.session.state \in {"review", s.state}
<1> DEFINE a == Working(s, "live")
           b == Reviewed(s, "live", FALSE)
<1>1. r = ReduceWithoutWait(s, h, "live")
  <2>1. "live" # "unconfirmed"
    OBVIOUS
  <2> QED BY Zenon, <2>1, ReduceWays
<1>2. s \in Sessions /\ "live" \in Standings
  BY DEF SessionOf, Standings
<1>3. a.wait = <<>> /\ b.wait = <<>> /\ b.state = "review"
  BY <1>2, WorkingType, ReviewedType
<1>4. CASE h.event = "Stop"
  <2>1. s.state = "running" \/ s.state = "review"
    BY <1>2 DEF Sessions
  <2>2. r = Result(b, TRUE) \/ (r = Result(s, TRUE) /\ s.state = "review")
    BY Zenon, <1>1, <1>4, <2>1, WithoutWaitIs
  <2> HIDE DEF b
  <2>3. \/ r.session = b /\ r.observed
        \/ r.session = s /\ r.observed /\ s.state = "review"
    BY <2>2 DEF Result
  <2> QED BY <1>3, <1>4, <2>3
<1>5. CASE h.event \in {"UserPromptSubmit", "PreToolUse", "PostToolUse"}
  <2>1. r = Result(a, TRUE) \/ r = Result(s, TRUE)
    <3>1. CASE h.event = "PreToolUse"
      BY Zenon, <1>1, <3>1, WithoutWaitIs
    <3>2. CASE h.event \in {"UserPromptSubmit", "PostToolUse"}
      BY Zenon, <1>1, <3>2, WithoutWaitIs
    <3> QED BY <1>5, <3>1, <3>2
  <2> HIDE DEF a
  <2>2. (r.session = a \/ r.session = s) /\ r.observed
    BY <2>1 DEF Result
  <2> QED BY <1>3, <1>5, <2>2
<1>6. CASE h.event \notin {"Stop", "UserPromptSubmit", "PreToolUse", "PostToolUse"}
  <2>1. r = Result(s, TRUE)
    BY Zenon, <1>1, <1>6, WithoutWaitIs
  <2>2. r.session = s /\ r.observed
    BY <2>1 DEF Result
  <2> QED BY <1>6, <2>2
<1> QED BY <1>4, <1>5, <1>6

LEMMA ReduceWaiting ==
    ASSUME NEW n, NEW s, SessionOf(s, n), NEW h \in Hooks, NEW tool, ~OpensInteraction(h),
           NEW w \in Waits, s.wait = <<w>>, NEW r, r = Reduce(s, h, tool, "live")
    PROVE  /\ NamesTool(w, h) => r.session.wait = <<Named(w, h)>> /\ r.session.state = "review" /\ r.observed
           /\ MovesOn(w, h) => r.session.wait = <<>> /\ r.session.state = "running" /\ r.observed
           /\ Denies(w, h) => r.session.wait = <<Refused(w, h)>> /\ r.session.state = "review" /\ r.observed
           /\ CompletesWait(w, h) => r.session.wait = <<>> /\ r.session.state = "review" /\ r.observed
           /\ ~NamesTool(w, h) /\ ~MovesOn(w, h) /\ ~Denies(w, h) /\ ~CompletesWait(w, h) =>
                 r.session = s /\ r.observed = (h.event \in ToolEvents \cup Completions)
<1>0. s.wait # <<>> /\ s \in Sessions /\ "live" \in Standings /\ "live" # "unconfirmed"
  BY DEF SessionOf, Standings
<1>1. s.state = "review"
  BY <1>0 DEF SessionOf, Sessions
<1>2. r = ReduceDuringWait(s, h, "live")
  BY Zenon, <1>0, ReduceWays
<1> DEFINE a == [s EXCEPT !.wait = <<Named(w, h)>>]
           b == Working(s, "live")
           v == Refused(w, h)
           c == ShownWait(s, v, "live")
           d == Reviewed(s, "live", TRUE)
           o == h.event \in ToolEvents \cup Completions
           q == ReduceDuringWait(s, h, "live")
<1>3. /\ NamesTool(w, h) => q = Result(a, TRUE)
      /\ MovesOn(w, h) => q = Result(b, TRUE)
      /\ Denies(w, h) => q = Result(c, TRUE)
      /\ CompletesWait(w, h) => q = Result(d, TRUE)
      /\ ~NamesTool(w, h) /\ ~MovesOn(w, h) /\ ~Denies(w, h) /\ ~CompletesWait(w, h) => q = Result(s, o)
  BY Zenon, <1>0, DuringWaitIs
<1>4. a.wait = <<Named(w, h)>> /\ a.state = "review"
  BY <1>0, <1>1 DEF Sessions
<1>5. b.wait = <<>> /\ b.state = "running"
  BY <1>0, WorkingType
<1>6. c.wait = <<v>> /\ c.state = "review"
  <2> HIDE DEF v
  <2>1. c = [s EXCEPT !.wait = <<v>>]
    BY ShownWaitLive
  <2> QED BY <1>0, <1>1, <2>1 DEF Sessions
<1>7. d.wait = <<>> /\ d.state = "review"
  BY <1>0, ReviewedType
<1>13. r = q
  BY <1>2
<1> HIDE DEF a, b, c, d, o, q
<1>8. NamesTool(w, h) => r.session = a /\ r.observed = TRUE
  BY <1>3, <1>13 DEF Result
<1>9. MovesOn(w, h) => r.session = b /\ r.observed = TRUE
  BY <1>3, <1>13 DEF Result
<1>10. Denies(w, h) => r.session = c /\ r.observed = TRUE
  BY <1>3, <1>13 DEF Result
<1>11. CompletesWait(w, h) => r.session = d /\ r.observed = TRUE
  BY <1>3, <1>13 DEF Result
<1>12. ~NamesTool(w, h) /\ ~MovesOn(w, h) /\ ~Denies(w, h) /\ ~CompletesWait(w, h) =>
         r.session = s /\ r.observed = o
  BY <1>3, <1>13 DEF Result
<1> QED BY <1>4, <1>5, <1>6, <1>7, <1>8, <1>9, <1>10, <1>11, <1>12 DEF o

Ways(q, s, w, h, context) ==
    \E x \in {[s EXCEPT !.wait = <<Named(w, h)>>], Working(s, context),
              ShownWait(s, Refused(w, h), context), Reviewed(s, context, TRUE), s} :
       \E o : q = Result(x, o)

LEMMA DuringWaitWays ==
    ASSUME NEW s \in Sessions, NEW w \in Waits, s.wait = <<w>>, NEW h \in Hooks, NEW context
    PROVE  Ways(ReduceDuringWait(s, h, context), s, w, h, context)
<1> DEFINE q == ReduceDuringWait(s, h, context)
           a == [s EXCEPT !.wait = <<Named(w, h)>>]
           b == Working(s, context)
           c == ShownWait(s, Refused(w, h), context)
           d == Reviewed(s, context, TRUE)
           o == h.event \in ToolEvents \cup Completions
<1>1. /\ NamesTool(w, h) => q = Result(a, TRUE)
      /\ MovesOn(w, h) => q = Result(b, TRUE)
      /\ Denies(w, h) => q = Result(c, TRUE)
      /\ CompletesWait(w, h) => q = Result(d, TRUE)
      /\ ~NamesTool(w, h) /\ ~MovesOn(w, h) /\ ~Denies(w, h) /\ ~CompletesWait(w, h) => q = Result(s, o)
  BY Zenon, DuringWaitIs
<1> HIDE DEF q, a, b, c, d, o
<1>2. \E x \in {a, b, c, d, s} : \E y : q = Result(x, y)
  BY <1>1
<1> QED BY Zenon, <1>2 DEF Ways, q, a, b, c, d

LEMMA WorkingState ==
    ASSUME NEW s \in Sessions, NEW context \in Standings, context # "live"
    PROVE  Working(s, context).state = "review"
BY Zenon, WorkingType

(* Only a live process can be seen to run again.                            *)
LEMMA ReduceNotLive ==
    ASSUME NEW n, NEW s, SessionOf(s, n), NEW h \in Hooks, h.at <= n, NEW tool \in Nat,
           NEW context \in {"exited", "startup"}, s.state = "review",
           NEW r, r = Reduce(s, h, tool, context)
    PROVE  r.session.state = "review"
<1>0. s \in Sessions
  BY DEF SessionOf
<1>2. context \in Standings /\ context # "live" /\ context # "unconfirmed"
  BY DEF Standings
<1>3. CASE OpensInteraction(h)
  <2> DEFINE x == ShownWait(Asked(s, h), Shown(s, h, tool), context)
  <2>1. r = Result(x, TRUE)
    BY Zenon, <1>2, <1>3, ReduceWays
  <2>2. Asked(s, h) \in Sessions /\ Asked(s, h).state = "review"
    BY <1>0, AskedType
  <2>3. Shown(s, h, tool) \in Waits
    BY <1>3, KindIs, ShownType
  <2>4. x.state = "review"
    BY Zenon, <1>2, <2>2, <2>3, ShownWaitType
  <2> HIDE DEF x
  <2>5. r.session = x
    BY <2>1 DEF Result
  <2> QED BY <2>4, <2>5
<1>4. CASE ~OpensInteraction(h) /\ s.wait = <<>>
  <2> DEFINE a == Working(s, context)
             b == Reviewed(s, context, FALSE)
  <2>1. r = ReduceWithoutWait(s, h, context)
    BY Zenon, <1>2, <1>4, ReduceWays
  <2>2. a.state = "review" /\ b.state = "review"
    BY <1>0, <1>2, WorkingState, ReviewedType
  <2>3. r = Result(s, TRUE) \/ r = Result(a, TRUE) \/ r = Result(b, TRUE)
    <3> DEFINE q == ReduceWithoutWait(s, h, context)
    <3>1. q = Result(s, TRUE) \/ q = Result(a, TRUE) \/ q = Result(b, TRUE)
      BY Zenon, WithoutWaitIs
    <3> HIDE DEF q, a, b
    <3>2. r = q
      BY <2>1 DEF q
    <3> QED BY <3>1, <3>2
  <2> HIDE DEF a, b
  <2>4. r.session \in {s, a, b}
    BY <2>3 DEF Result
  <2> QED BY <2>2, <2>4
<1>5. CASE ~OpensInteraction(h) /\ s.wait # <<>>
  <2>1. r = ReduceDuringWait(s, h, context)
    BY Zenon, <1>2, <1>5, ReduceWays
  <2>2. PICK w \in Waits : s.wait = <<w>>
    BY <1>0, <1>5, SessionWait
  <2> DEFINE a == [s EXCEPT !.wait = <<Named(w, h)>>]
             b == Working(s, context)
             c == ShownWait(s, Refused(w, h), context)
             d == Reviewed(s, context, TRUE)
  <2>3. \E x \in {a, b, c, d, s} : \E y : ReduceDuringWait(s, h, context) = Result(x, y)
    <3>1. Ways(ReduceDuringWait(s, h, context), s, w, h, context)
      BY <1>0, <2>2, DuringWaitWays
    <3> QED BY Zenon, <3>1 DEF Ways
  <2>4. a.state = "review"
    BY <1>0 DEF Sessions
  <2>5. b.state = "review" /\ d.state = "review"
    BY <1>0, <1>2, WorkingState, ReviewedType
  <2>6. c.state = "review"
    <3>1. Refused(w, h) \in Waits
      BY RefusedType
    <3> QED BY Zenon, <1>0, <1>2, <3>1, ShownWaitType
  <2> HIDE DEF a, b, c, d
  <2>7. r.session \in {a, b, c, d, s}
    BY <2>1, <2>3 DEF Result
  <2> QED BY <2>4, <2>5, <2>6, <2>7
<1> QED BY <1>3, <1>4, <1>5

(* A wait's times: it was opened, then heard of, and both have happened.     *)
WaitTimes(w, n) == w.openedAt <= w.updatedAt /\ w.updatedAt <= n
SessionTimes(s, n) == s.wait # <<>> => WaitTimes(s.wait[1], n)

LEMMA ShownTimes ==
    ASSUME NEW n \in Nat, NEW s, SessionOf(s, n), SessionTimes(s, n), NEW h \in Hooks, h.at <= n,
           NEW tool \in Nat, OpensInteraction(h)
    PROVE  WaitTimes(Shown(s, h, tool), n)
<1> DEFINE next == Opened(h, tool)
<1>1. next \in Waits /\ next.openedAt = h.at /\ next.updatedAt = h.at /\ h.at \in Nat
  BY OpenedType, KindIs DEF Opened, Hooks
<1>2. CASE s.wait # <<>> /\ SameInteraction(s.wait[1], next)
  <2> DEFINE w == s.wait[1]
  <2>1. w \in Waits /\ w.openedAt <= w.updatedAt /\ w.updatedAt <= n
    BY <1>2, SessionWait DEF SessionOf, SessionTimes, WaitTimes
  <2>2. Shown(s, h, tool) = Refreshed(w, next)
    BY <1>2 DEF Shown
  <2> HIDE DEF w, next
  <2>3. Refreshed(w, next).openedAt = w.openedAt /\ Refreshed(w, next).updatedAt = Max({w.updatedAt, next.updatedAt})
    BY <2>1 DEF Refreshed, Waits
  <2>4. w.updatedAt \in Nat /\ w.openedAt \in Nat
    BY <2>1 DEF Waits
  <2>5. /\ Max({w.updatedAt, next.updatedAt}) \in {w.updatedAt, next.updatedAt}
        /\ Max({w.updatedAt, next.updatedAt}) >= w.updatedAt
    BY <1>1, <2>4, MaxOfTwo
  <2> QED BY <1>1, <2>1, <2>2, <2>3, <2>4, <2>5 DEF WaitTimes
<1>3. CASE ~(s.wait # <<>> /\ SameInteraction(s.wait[1], next))
  <2>1. Shown(s, h, tool) = next
    BY <1>3 DEF Shown
  <2> HIDE DEF next
  <2> QED BY <1>1, <2>1 DEF WaitTimes
<1> QED BY <1>2, <1>3

LEMMA NamedTimes ==
    ASSUME NEW n, NEW w \in Waits, WaitTimes(w, n), NEW h
    PROVE  WaitTimes(Named(w, h), n) /\ Named(w, h).status = w.status /\ Named(w, h).prompt = w.prompt
           /\ Named(w, h).openedAt = w.openedAt /\ Named(w, h).updatedAt = w.updatedAt
<1>1. Named(w, h).openedAt = w.openedAt /\ Named(w, h).updatedAt = w.updatedAt
      /\ Named(w, h).status = w.status /\ Named(w, h).prompt = w.prompt
  BY DEF Named, Waits
<1> QED BY <1>1 DEF WaitTimes

LEMMA RefusedTimes ==
    ASSUME NEW n, NEW w \in Waits, WaitTimes(w, n), NEW h \in Hooks, h.at <= n, Denies(w, h)
    PROVE  WaitTimes(Refused(w, h), n) /\ Refused(w, h).updatedAt = h.at
<1>1. Refused(w, h).openedAt = w.openedAt /\ Refused(w, h).updatedAt = h.at
  BY DEF Refused, Waits
<1>2. h.at >= w.openedAt
  BY DEF Denies, IsCurrent
<1>3. h.at \in Nat /\ w.openedAt \in Nat
  BY DEF Hooks, Waits
<1> QED BY <1>1, <1>2, <1>3 DEF WaitTimes

(* A hook that is admitted and may speak for the live process.               *)
Lively(h) == Accepts(guard, h) /\ h.at > terminal.fence

LEMMA NotLively ==
    ASSUME TypeInv, Alive, NEW h, Deliver(h), ~Lively(h)
    PROVE  session' = session /\ ~Observed(h)
<1>1. session' = IF Accepts(guard, h) THEN Judgement(h).session ELSE session
  BY DeliverIs
<1>2. CASE ~Accepts(guard, h)
  BY <1>1, <1>2 DEF Observed
<1>3. CASE Accepts(guard, h)
  <2>1. Context(h) = "unconfirmed"
    BY <1>3 DEF Context, Alive, Lively
  <2>2. Judgement(h) = Result(session, FALSE)
    BY Zenon, <2>1, ReduceIs DEF Judgement
  <2>3. Judgement(h).session = session /\ Judgement(h).observed = FALSE
    BY <2>2 DEF Result
  <2> QED BY <1>1, <2>3 DEF Observed
<1> QED BY <1>2, <1>3

LEMMA LivelyIs ==
    ASSUME TypeInv, Alive, NEW h, Deliver(h), Lively(h)
    PROVE  /\ session' = Judgement(h).session /\ Observed(h) = Judgement(h).observed
           /\ Judgement(h) = Reduce(session, h, Correlated(guard, h), "live")
           /\ Correlated(guard, h) \in Nat
<1>1. session' = IF Accepts(guard, h) THEN Judgement(h).session ELSE session
  BY DeliverIs
<1>2. Context(h) = "live" /\ Accepts(guard, h)
  BY DEF Context, Alive, Lively
<1>3. Judgement(h).observed \in BOOLEAN
  BY DeliverIs, DeliveredType
<1>4. Observed(h) = Judgement(h).observed
  BY <1>2, <1>3 DEF Observed
<1>5. Correlated(guard, h) \in Nat
  BY CorrelatedType DEF TypeInv, ValuesOK
<1> QED BY <1>1, <1>2, <1>4, <1>5 DEF Judgement

-----------------------------------------------------------------------------
(* While the process lives: the agent, and what it has sent.                *)

(* The turn, the wakes and the open tools are of prompts that were submitted, *)
(* a turn that has ended is over, and what Claude asks about is open.         *)
AgentOK ==
    /\ agent.turn <= agent.prompts
    /\ agent.wakes \subseteq 1 .. agent.prompts
    /\ TurnIsOver => agent.turn = None
    /\ agent.asking # None => agent.asking \in DOMAIN agent.open /\ agent.turn # None
    /\ \A t \in DOMAIN agent.open : t <= agent.tools /\ agent.open[t].prompt \in 1 .. agent.prompts

(* A hook on its way is of a prompt and a tool that have been, and the end of *)
(* a tool that is open is not among them.                                   *)
FlightOK ==
    \A h \in net :
        /\ h.prompt <= agent.prompts /\ h.tool <= agent.tools
        /\ h.event \in Completions => h.tool \notin DOMAIN agent.open
        /\ h.event \in {"Stop", "UserPromptSubmit", "PermissionRequest"} => h.tool = None

AliveInv == Alive => AgentOK /\ FlightOK /\ SessionTimes(session, now)

LEMMA CapturedFlight ==
    ASSUME TypeInv, FlightOK, NEW event, NEW prompt \in Nat, NEW tool \in Nat, NEW class, NEW wake,
           Captured(event, prompt, tool, class, wake),
           agent'.prompts \in Nat, agent'.tools \in Nat,
           agent'.prompts >= agent.prompts, agent'.tools >= agent.tools,
           prompt <= agent'.prompts, tool <= agent'.tools,
           DOMAIN agent'.open \subseteq DOMAIN agent.open \cup {agent.tools + 1},
           event \in Completions => tool \notin DOMAIN agent'.open,
           event \in {"Stop", "UserPromptSubmit", "PermissionRequest"} => tool = None
    PROVE  FlightOK'
<1>1. agent.prompts \in Nat /\ agent.tools \in Nat /\ net \subseteq Hooks
  BY AgentType DEF TypeInv, TransportOK
<1>2. PICK new \in Hooks : /\ net' = net \cup {new} /\ new.event = event /\ new.tool = tool
                           /\ new.prompt \in {prompt, None}
  BY DEF Captured
<1>3. ASSUME NEW h \in net
      PROVE  /\ h.prompt <= agent'.prompts /\ h.tool <= agent'.tools
             /\ h.event \in Completions => h.tool \notin DOMAIN agent'.open
             /\ h.event \in {"Stop", "UserPromptSubmit", "PermissionRequest"} => h.tool = None
  <2>1. h.prompt \in Nat /\ h.tool \in Nat
    BY <1>1 DEF Hooks
  <2>2. h.prompt <= agent.prompts /\ h.tool <= agent.tools
    BY DEF FlightOK
  <2>3. h.event \in Completions => h.tool \notin DOMAIN agent'.open
    <3>1. h.tool # agent.tools + 1
      BY <1>1, <2>1, <2>2
    <3> QED BY <3>1 DEF FlightOK
  <2>4. h.event \in {"Stop", "UserPromptSubmit", "PermissionRequest"} => h.tool = None
    BY DEF FlightOK
  <2> QED BY <1>1, <2>1, <2>2, <2>3, <2>4
<1>4. /\ new.prompt <= agent'.prompts /\ new.tool <= agent'.tools
      /\ new.event \in Completions => new.tool \notin DOMAIN agent'.open
      /\ new.event \in {"Stop", "UserPromptSubmit", "PermissionRequest"} => new.tool = None
  BY <1>2 DEF None
<1> QED BY <1>2, <1>3, <1>4 DEF FlightOK

(* Time passes.                                                             *)
LEMMA TimesLater ==
    ASSUME NEW n \in Nat, NEW s, SessionOf(s, n), SessionTimes(s, n)
    PROVE  SessionTimes(s, n + 1)
<1>1. CASE s.wait = <<>>
  BY <1>1 DEF SessionTimes
<1>2. CASE s.wait # <<>>
  <2>1. s.wait[1].updatedAt \in Nat
    BY <1>2, SessionWait DEF SessionOf, Waits
  <2> QED BY <1>2, <2>1 DEF SessionTimes, WaitTimes
<1> QED BY <1>1, <1>2

LEMMA CapturedTimes ==
    ASSUME TypeInv, SessionTimes(session, now), now' = now + 1, session' = session
    PROVE  SessionTimes(session, now)'
<1>1. SessionTimes(session, now + 1)
  BY TimesLater DEF TypeInv, ValuesOK
<1> QED BY <1>1 DEF SessionTimes, WaitTimes

LEMMA SubmitAlive == ASSUME TypeInv, Alive, AliveInv, Submit PROVE AliveInv'
<1>1. /\ agent.turn = None
      /\ agent'.turn = agent.prompts + 1 /\ agent'.prompts = agent.prompts + 1
      /\ agent'.asking = agent.asking /\ agent'.open = agent.open /\ agent'.wakes = agent.wakes
      /\ agent'.tools = agent.tools
      /\ Captured("UserPromptSubmit", agent.prompts + 1, None, NoClass, FALSE) /\ ~TurnIsOver'
  BY SubmitDoes
<1>2. agent.prompts \in Nat /\ agent.tools \in Nat /\ None \in Nat
  BY AgentType DEF None
<1>3. AgentOK'
  <2>1. agent'.wakes \subseteq 1 .. agent'.prompts
    BY <1>1, <1>2 DEF AliveInv, AgentOK
  <2>2. \A t \in DOMAIN agent'.open : t <= agent'.tools /\ agent'.open[t].prompt \in 1 .. agent'.prompts
    BY <1>1, <1>2 DEF AliveInv, AgentOK
  <2>3. agent'.asking = None
    BY <1>1 DEF AliveInv, AgentOK
  <2>4. agent'.turn <= agent'.prompts
    BY <1>1, <1>2
  <2> QED BY Zenon, <1>1, <2>1, <2>2, <2>3, <2>4 DEF AgentOK
<1>4. FlightOK'
  <2>1. /\ agent'.prompts \in Nat /\ agent'.tools \in Nat /\ agent.prompts + 1 \in Nat
        /\ agent'.prompts >= agent.prompts /\ agent'.tools >= agent.tools
        /\ agent.prompts + 1 <= agent'.prompts /\ None <= agent'.tools
        /\ DOMAIN agent'.open \subseteq DOMAIN agent.open \cup {agent.tools + 1}
        /\ "UserPromptSubmit" \notin Completions
    BY <1>1, <1>2 DEF Completions, None
  <2> QED BY Zenon, <1>1, <1>2, <2>1, CapturedFlight DEF AliveInv
<1>5. SessionTimes(session, now)'
  BY <1>1, CapturedTimes DEF Submit, Captured, AliveInv
<1> QED BY <1>3, <1>4, <1>5 DEF AliveInv

LEMMA StartToolAlive ==
    ASSUME TypeInv, Alive, AliveInv, NEW class \in {"tool", "question"}, StartTool(class) PROVE AliveInv'
<1> DEFINE tool == agent.tools + 1
<1>1. /\ agent.turn # None /\ agent.asking = None
      /\ agent'.tools = tool
      /\ DOMAIN agent'.open = DOMAIN agent.open \cup {tool}
      /\ agent'.open[tool].prompt = agent.turn
      /\ \A t \in DOMAIN agent.open : t # tool => agent'.open[t] = agent.open[t]
      /\ agent'.asking = (IF class = "question" THEN tool ELSE None)
      /\ agent'.turn = agent.turn /\ agent'.wakes = agent.wakes /\ agent'.ended = agent.ended
      /\ agent'.prompts = agent.prompts
      /\ Captured("PreToolUse", agent.turn, tool, class, FALSE)
  BY StartToolDoes
<1>2. agent.prompts \in Nat /\ agent.tools \in Nat /\ agent.turn \in Nat /\ tool \in Nat
  BY AgentType
<1>3. AgentOK'
  <2>1. agent'.turn <= agent'.prompts /\ agent'.wakes \subseteq 1 .. agent'.prompts
    BY <1>1 DEF AliveInv, AgentOK
  <2>2. TurnIsOver' => agent'.turn = None
    BY Zenon, <1>1 DEF AliveInv, AgentOK, TurnIsOver
  <2>3. agent'.asking # None => agent'.asking \in DOMAIN agent'.open /\ agent'.turn # None
    BY <1>1
  <2>4. ASSUME NEW t \in DOMAIN agent'.open
        PROVE  t <= agent'.tools /\ agent'.open[t].prompt \in 1 .. agent'.prompts
    <3>1. agent.turn \in 1 .. agent.prompts
      BY <1>1, <1>2 DEF AliveInv, AgentOK, None
    <3>2. CASE t = tool
      BY <1>1, <1>2, <3>1, <3>2
    <3>3. CASE t # tool
      <4>1. t \in DOMAIN agent.open /\ agent'.open[t] = agent.open[t] /\ t \in Nat
        BY <1>1, <3>3, AgentType
      <4>2. t <= agent.tools /\ agent.open[t].prompt \in 1 .. agent.prompts
        BY <4>1 DEF AliveInv, AgentOK
      <4> QED BY <1>1, <1>2, <4>1, <4>2
    <3> QED BY <3>2, <3>3
  <2> QED BY Zenon, <2>1, <2>2, <2>3, <2>4 DEF AgentOK
<1>4. FlightOK'
  <2>1. /\ agent'.prompts \in Nat /\ agent'.tools \in Nat
        /\ agent'.prompts >= agent.prompts /\ agent'.tools >= agent.tools
        /\ agent.turn <= agent'.prompts /\ tool <= agent'.tools
        /\ DOMAIN agent'.open \subseteq DOMAIN agent.open \cup {agent.tools + 1}
        /\ "PreToolUse" \notin Completions /\ "PreToolUse" \notin {"Stop", "UserPromptSubmit", "PermissionRequest"}
    BY <1>1, <1>2 DEF Completions, AliveInv, AgentOK
  <2> HIDE DEF tool
  <2> QED BY Zenon, <1>1, <1>2, <2>1, CapturedFlight DEF AliveInv
<1>5. SessionTimes(session, now)'
  BY <1>1, CapturedTimes DEF StartTool, Captured, AliveInv
<1> QED BY <1>3, <1>4, <1>5 DEF AliveInv

LEMMA AskPermissionAlive ==
    ASSUME TypeInv, Alive, AliveInv, NEW tool, AskPermission(tool) PROVE AliveInv'
<1>1. /\ agent.asking = None /\ tool \in DOMAIN agent.open /\ agent.open[tool].prompt = agent.turn
      /\ DOMAIN agent'.open = DOMAIN agent.open
      /\ \A t \in DOMAIN agent.open : agent'.open[t].prompt = agent.open[t].prompt
      /\ agent'.asking = tool
      /\ agent'.tools = agent.tools
      /\ agent'.turn = agent.turn /\ agent'.wakes = agent.wakes /\ agent'.ended = agent.ended
      /\ agent'.prompts = agent.prompts
      /\ Captured("PermissionRequest", agent.turn, None, "tool", FALSE)
  BY AskPermissionDoes
<1>2. agent.prompts \in Nat /\ agent.tools \in Nat /\ agent.turn \in Nat /\ None \in Nat
  BY AgentType DEF None
<1>3. AgentOK'
  <2>1. agent'.turn <= agent'.prompts /\ agent'.wakes \subseteq 1 .. agent'.prompts
    BY <1>1 DEF AliveInv, AgentOK
  <2>2. TurnIsOver' => agent'.turn = None
    BY Zenon, <1>1 DEF AliveInv, AgentOK, TurnIsOver
  <2>3. agent'.asking # None => agent'.asking \in DOMAIN agent'.open /\ agent'.turn # None
    BY <1>1 DEF AliveInv, AgentOK, None
  <2>4. \A t \in DOMAIN agent'.open : t <= agent'.tools /\ agent'.open[t].prompt \in 1 .. agent'.prompts
    BY <1>1 DEF AliveInv, AgentOK
  <2> QED BY Zenon, <2>1, <2>2, <2>3, <2>4 DEF AgentOK
<1>4. FlightOK'
  <2>1. /\ agent'.prompts \in Nat /\ agent'.tools \in Nat
        /\ agent'.prompts >= agent.prompts /\ agent'.tools >= agent.tools
        /\ agent.turn <= agent'.prompts /\ None <= agent'.tools
        /\ DOMAIN agent'.open \subseteq DOMAIN agent.open \cup {agent.tools + 1}
        /\ "PermissionRequest" \notin Completions
    BY <1>1, <1>2 DEF Completions, AliveInv, AgentOK, None
  <2> QED BY Zenon, <1>1, <1>2, <2>1, CapturedFlight DEF AliveInv
<1>5. SessionTimes(session, now)'
  BY <1>1, CapturedTimes DEF AskPermission, Captured, AliveInv
<1> QED BY <1>3, <1>4, <1>5 DEF AliveInv

(* A tool is over, and its end is on its way.                               *)
LEMMA OverAlive ==
    ASSUME TypeInv, Alive, AliveInv, NEW tool \in DOMAIN agent.open, NEW event \in Completions,
           NEW class, Captured(event, agent.open[tool].prompt, tool, class, FALSE),
           agent'.open = Without(tool), agent'.asking \in {None, agent.asking} \ {tool},
           agent'.turn = agent.turn, agent'.wakes = agent.wakes, agent'.ended = agent.ended,
           agent'.prompts = agent.prompts, agent'.tools = agent.tools, session' = session
    PROVE  AliveInv'
<1>1. agent.prompts \in Nat /\ agent.tools \in Nat /\ agent.turn \in Nat /\ tool \in Nat
  BY AgentType
<1>2. DOMAIN agent'.open = DOMAIN agent.open \ {tool}
      /\ \A t \in DOMAIN agent'.open : agent'.open[t] = agent.open[t]
  BY WithoutIs
<1>0. tool <= agent.tools /\ agent.open[tool].prompt \in 1 .. agent.prompts
  BY DEF AliveInv, AgentOK
<1>3. AgentOK'
  <2>1. agent'.turn <= agent'.prompts /\ agent'.wakes \subseteq 1 .. agent'.prompts
    BY DEF AliveInv, AgentOK
  <2>2. TurnIsOver' => agent'.turn = None
    BY Zenon DEF AliveInv, AgentOK, TurnIsOver
  <2>3. agent'.asking # None => agent'.asking \in DOMAIN agent'.open /\ agent'.turn # None
    BY <1>2 DEF AliveInv, AgentOK
  <2>4. \A t \in DOMAIN agent'.open : t <= agent'.tools /\ agent'.open[t].prompt \in 1 .. agent'.prompts
    BY <1>2 DEF AliveInv, AgentOK
  <2> QED BY Zenon, <2>1, <2>2, <2>3, <2>4 DEF AgentOK
<1>4. FlightOK'
  <2>1. /\ agent'.prompts \in Nat /\ agent'.tools \in Nat /\ agent.open[tool].prompt \in Nat
        /\ agent'.prompts >= agent.prompts /\ agent'.tools >= agent.tools
        /\ agent.open[tool].prompt <= agent'.prompts /\ tool <= agent'.tools
        /\ DOMAIN agent'.open \subseteq DOMAIN agent.open \cup {agent.tools + 1}
        /\ tool \notin DOMAIN agent'.open
        /\ event \notin {"Stop", "UserPromptSubmit", "PermissionRequest"}
    BY <1>0, <1>1, <1>2 DEF Completions
  <2> QED BY Zenon, <1>1, <2>1, CapturedFlight DEF AliveInv
<1>5. SessionTimes(session, now)'
  BY CapturedTimes DEF Captured, AliveInv
<1> QED BY <1>3, <1>4, <1>5 DEF AliveInv

LEMMA AutoDenyAlive == ASSUME TypeInv, Alive, AliveInv, NEW tool, AutoDeny(tool) PROVE AliveInv'
<1>1. /\ tool \in DOMAIN agent.open /\ agent.open[tool].prompt = agent.turn
      /\ agent'.open = Without(tool) /\ agent'.asking = None
      /\ agent'.tools = agent.tools
      /\ agent'.turn = agent.turn /\ agent'.wakes = agent.wakes /\ agent'.ended = agent.ended
      /\ agent'.prompts = agent.prompts
      /\ Captured("PermissionDenied", agent.turn, tool, "tool", FALSE)
  BY AutoDenyDoes
<1>2. tool # None /\ "PermissionDenied" \in Completions /\ session' = session
  BY <1>1, AgentType DEF None, Completions, AutoDeny
<1>3. Captured("PermissionDenied", agent.open[tool].prompt, tool, "tool", FALSE)
  BY <1>1
<1> QED BY Zenon, <1>1, <1>2, <1>3, OverAlive

LEMMA EndToolAlive == ASSUME TypeInv, Alive, AliveInv, NEW tool, EndTool(tool) PROVE AliveInv'
<1>1. /\ tool \in DOMAIN agent.open /\ agent.asking # tool
      /\ agent'.open = Without(tool)
      /\ agent'.asking = agent.asking
      /\ agent'.tools = agent.tools
      /\ agent'.turn = agent.turn /\ agent'.wakes = agent.wakes /\ agent'.ended = agent.ended
      /\ agent'.prompts = agent.prompts
      /\ Captured("PostToolUse", agent.open[tool].prompt, tool, agent.open[tool].class, FALSE)
  BY EndToolDoes
<1>2. "PostToolUse" \in Completions /\ session' = session
  BY DEF Completions, EndTool
<1> QED BY Zenon, <1>1, <1>2, OverAlive

LEMMA StopAlive == ASSUME TypeInv, Alive, AliveInv, NEW wake \in BOOLEAN, Stop(wake) PROVE AliveInv'
<1>1. /\ agent.turn # None /\ agent.asking = None
      /\ agent'.turn = None
      /\ agent'.wakes = (IF wake THEN agent.wakes \cup {agent.turn} ELSE agent.wakes \ {agent.turn})
      /\ agent'.open = agent.open
      /\ agent'.asking = agent.asking
      /\ agent'.tools = agent.tools /\ agent'.prompts = agent.prompts
      /\ Captured("Stop", agent.turn, None, NoClass, wake)
  BY Zenon, StopDoes
<1>2. agent.prompts \in Nat /\ agent.tools \in Nat /\ agent.turn \in Nat /\ None \in Nat
  BY AgentType DEF None
<1>3. AgentOK'
  <2>0. agent.turn \in 1 .. agent.prompts
    BY <1>1, <1>2 DEF AliveInv, AgentOK, None
  <2>1. agent'.turn <= agent'.prompts /\ agent'.wakes \subseteq 1 .. agent'.prompts
    BY <1>1, <1>2, <2>0 DEF AliveInv, AgentOK, None
  <2>4. \A t \in DOMAIN agent'.open : t <= agent'.tools /\ agent'.open[t].prompt \in 1 .. agent'.prompts
    BY <1>1 DEF AliveInv, AgentOK
  <2> QED BY Zenon, <1>1, <2>1, <2>4 DEF AgentOK
<1>4. FlightOK'
  <2>1. /\ agent'.prompts \in Nat /\ agent'.tools \in Nat
        /\ agent'.prompts >= agent.prompts /\ agent'.tools >= agent.tools
        /\ agent.turn <= agent'.prompts /\ None <= agent'.tools
        /\ DOMAIN agent'.open \subseteq DOMAIN agent.open \cup {agent.tools + 1}
        /\ "Stop" \notin Completions
    BY <1>1, <1>2 DEF Completions, AliveInv, AgentOK, None
  <2> QED BY Zenon, <1>1, <1>2, <2>1, CapturedFlight DEF AliveInv
<1>5. SessionTimes(session, now)'
  <2>1. now' = now + 1 /\ session' = session
    BY <1>1 DEF Captured, Stop
  <2> QED BY <2>1, CapturedTimes DEF AliveInv
<1> QED BY <1>3, <1>4, <1>5 DEF AliveInv

LEMMA WakeAlive == ASSUME TypeInv, Alive, AliveInv, NEW prompt \in agent.wakes, Wake(prompt) PROVE AliveInv'
<1>1. /\ agent.turn = None
      /\ agent'.turn = prompt
      /\ agent'.open = agent.open /\ agent'.wakes = agent.wakes
      /\ agent'.asking = agent.asking
      /\ agent'.tools = agent.tools /\ agent'.prompts = agent.prompts
      /\ net' = net /\ now' = now
  BY Zenon, WakeDoes
<1>2. ~TurnIsOver'
  BY Zenon, WakeDoes
<1>3. AgentOK'
  <2>1. agent'.turn <= agent'.prompts /\ agent'.wakes \subseteq 1 .. agent'.prompts
    BY <1>1, AgentType DEF AliveInv, AgentOK
  <2>3. agent'.asking = None
    BY <1>1 DEF AliveInv, AgentOK
  <2>4. \A t \in DOMAIN agent'.open : t <= agent'.tools /\ agent'.open[t].prompt \in 1 .. agent'.prompts
    BY <1>1 DEF AliveInv, AgentOK
  <2> QED BY Zenon, <1>2, <2>1, <2>3, <2>4 DEF AgentOK
<1>4. FlightOK'
  BY <1>1 DEF AliveInv, FlightOK
<1>5. SessionTimes(session, now)'
  BY <1>1 DEF AliveInv, SessionTimes, Wake
<1> QED BY <1>3, <1>4, <1>5 DEF AliveInv

(* A dialog, an interrupt and a hook that is heard or lost add nothing.       *)
LEMMA QuietAlive ==
    ASSUME TypeInv, Alive, AliveInv, net' \subseteq net,
           agent'.prompts = agent.prompts, agent'.tools = agent.tools, agent'.wakes = agent.wakes,
           DOMAIN agent'.open \subseteq DOMAIN agent.open,
           \A t \in DOMAIN agent'.open : agent'.open[t] = agent.open[t],
           agent'.asking = None, agent'.turn \in {agent.turn, None}, TurnIsOver' => agent'.turn = None
    PROVE  AgentOK' /\ FlightOK'
<1>1. agent.prompts \in Nat /\ agent.tools \in Nat /\ agent.turn \in Nat /\ None \in Nat /\ None = 0
  BY AgentType DEF None
<1>2. AgentOK'
  <2>1. agent'.turn <= agent'.prompts /\ agent'.wakes \subseteq 1 .. agent'.prompts
    BY <1>1 DEF AliveInv, AgentOK
  <2>2. \A t \in DOMAIN agent'.open : t <= agent'.tools /\ agent'.open[t].prompt \in 1 .. agent'.prompts
    BY DEF AliveInv, AgentOK
  <2> QED BY Zenon, <2>1, <2>2 DEF AgentOK
<1>3. FlightOK'
  BY DEF AliveInv, FlightOK
<1> QED BY <1>2, <1>3

(* What the user does to the agent leaves it asking nothing.                *)
LEMMA ActedAgent ==
    ASSUME TypeInv, Alive, AliveInv, Answer \/ Escape \/ CtrlC
    PROVE  /\ agent'.prompts = agent.prompts /\ agent'.tools = agent.tools /\ agent'.wakes = agent.wakes
           /\ agent'.stray = agent.stray
           /\ DOMAIN agent'.open \subseteq DOMAIN agent.open
           /\ \A t \in DOMAIN agent'.open : agent'.open[t] = agent.open[t]
           /\ agent'.asking = None
           /\ \/ agent'.turn = agent.turn /\ agent'.ended = agent.ended /\ agent'.last = agent.last
              \/ agent'.turn = None /\ agent'.ended = "cut"
           /\ agent' = agent \/ agent'.blind = Blind
<1>1. /\ Dealt(Granted) /\ Dealt(Denied) /\ Dealt(Unasked) /\ Dealt(CutTurn)
      /\ Granted.asking = None /\ Denied.asking = None /\ CutTurn.asking = None
      /\ Unasked.asking = agent.asking
      /\ \A a \in {Granted, Denied, Unasked} :
            a.turn = agent.turn /\ a.ended = agent.ended /\ a.last = agent.last
      /\ CutTurn.turn = None /\ CutTurn.ended = "cut"
  BY DialogDoes
<1>2. \/ agent' \in {Granted, Denied, CutTurn}
      \/ agent' = Unasked /\ agent.asking = None
      \/ agent' = agent /\ agent.turn = None
  BY DEF Answer, Escape, CtrlC, Idle
<1>3. CASE agent' \in {Granted, Denied}
  BY <1>1, <1>3 DEF Dealt
<1>4. CASE agent' = CutTurn
  BY <1>1, <1>4 DEF Dealt
<1>5. CASE agent' = Unasked /\ agent.asking = None
  BY <1>1, <1>5 DEF Dealt
<1>6. CASE agent' = agent /\ agent.turn = None
  <2>1. agent.asking = None
    BY <1>6 DEF AliveInv, AgentOK
  <2> QED BY <1>6, <2>1
<1> QED BY <1>2, <1>3, <1>4, <1>5, <1>6

(* An answer is heard of when it is typed.                                  *)
LEMMA AnswerTimes ==
    ASSUME TypeInv, SessionTimes(session, now), NEW g, RecordAnswer(g)
    PROVE  SessionTimes(session', now + 1)
<1>0. SessionOf(session, now) /\ now \in Nat /\ now + 1 \in Nat
  BY DEF TypeInv, ValuesOK
<1>1. session \in Sessions /\ SessionOf(session, now) /\ now \in Nat /\ now + 1 \in Nat
  BY Zenon, <1>0 DEF SessionOf
<1>2. CASE ~NeedsInput(session)
  <2>1. session' = session
    BY <1>2 DEF RecordAnswer
  <2> QED BY <1>1, <2>1, TimesLater
<1>3. CASE NeedsInput(session)
  <2>1. session' = Answered(session, now + 1) /\ session.wait # <<>>
    BY <1>3 DEF RecordAnswer, NeedsInput
  <2>2. PICK w \in Waits : session.wait = <<w>>
    BY <1>1, <2>1, SessionWait
  <2>3. session.state = "review"
    BY <1>1, <2>1 DEF SessionOf, Sessions
  <2> DEFINE v == Replied(w, now + 1)
             x == [session EXCEPT !.wait = <<v>>]
  <2>4. Answered(session, now + 1) = x
    BY Zenon, <1>1, <1>3, <2>2, <2>3, AnsweredIs
  <2>5. v.openedAt = w.openedAt /\ v.updatedAt = now + 1
    BY DEF Replied, Waits
  <2> HIDE DEF v
  <2>6. x.wait = <<v>>
    BY <1>1 DEF Sessions
  <2>7. w.openedAt <= now + 1
    <3>1. w.openedAt \in Nat /\ w.updatedAt \in Nat
      BY DEF Waits
    <3>2. w.openedAt <= w.updatedAt /\ w.updatedAt <= now
      BY <2>1, <2>2 DEF SessionTimes, WaitTimes
    <3> QED BY <1>1, <3>1, <3>2
  <2> HIDE DEF x
  <2> QED BY <1>1, <2>1, <2>4, <2>5, <2>6, <2>7 DEF SessionTimes, WaitTimes
<1> QED BY <1>2, <1>3

LEMMA ActedAlive == ASSUME TypeInv, Alive, AliveInv, Answer \/ Escape \/ CtrlC PROVE AliveInv'
<1>1. AgentOK' /\ FlightOK'
  <2>1. net' \subseteq net
    BY DEF Answer, Escape, CtrlC
  <2>2. /\ agent'.prompts = agent.prompts /\ agent'.tools = agent.tools /\ agent'.wakes = agent.wakes
        /\ DOMAIN agent'.open \subseteq DOMAIN agent.open
        /\ \A t \in DOMAIN agent'.open : agent'.open[t] = agent.open[t]
        /\ agent'.asking = None
        /\ \/ agent'.turn = agent.turn /\ agent'.ended = agent.ended
           \/ agent'.turn = None
    BY ActedAgent
  <2>3. TurnIsOver' => agent'.turn = None
    BY Zenon, <2>2 DEF TurnIsOver, AliveInv, AgentOK
  <2> QED BY <2>1, <2>2, <2>3, QuietAlive
<1>2. SessionTimes(session, now)'
  <2>1. now' = now + 1
    BY DEF Answer, Escape, CtrlC, Act
  <2>2. SessionTimes(session', now + 1)
    <3>1. CASE Answer \/ Escape
      BY <3>1, AnswerTimes DEF Answer, Escape, AliveInv
    <3>2. CASE CtrlC
      BY <3>2, CutType DEF CtrlC, SessionTimes, TypeInv, ValuesOK
    <3> QED BY <3>1, <3>2
  <2> QED BY <2>1, <2>2 DEF SessionTimes, WaitTimes
<1> QED BY <1>1, <1>2 DEF AliveInv

(* The agent and its hooks stay as they are.                                *)
LEMMA StillAlive ==
    ASSUME TypeInv, AliveInv, Alive, agent' = agent, net' \subseteq net, SessionTimes(session', now')
    PROVE  AliveInv'
<1>1. AgentOK'
  BY Zenon DEF AliveInv, AgentOK, TurnIsOver
<1>2. FlightOK'
  BY DEF AliveInv, FlightOK
<1>3. SessionTimes(session, now)'
  BY DEF SessionTimes, WaitTimes
<1> QED BY <1>1, <1>2, <1>3 DEF AliveInv

LEMMA RenderAlive == ASSUME TypeInv, Alive, AliveInv, Render PROVE AliveInv'
<1>1. agent' = agent /\ net' \subseteq net
  BY DEF Render
<1>2. SessionTimes(session', now')
  <2>1. CASE EscapeIsCurrent(guard)
    BY <2>1, CutType DEF Render, SessionTimes, TypeInv, ValuesOK
  <2>2. CASE ~EscapeIsCurrent(guard)
    BY <2>2 DEF Render, AliveInv
  <2> QED BY <2>1, <2>2
<1> QED BY <1>1, <1>2, StillAlive

(* A delivery writes no time of a wait that is later than the hook's.         *)
LEMMA DeliverTimes ==
    ASSUME TypeInv, Alive, NEW n \in Nat, SessionOf(session, n), SessionTimes(session, n),
           NEW h, Deliver(h), h.at <= n
    PROVE  SessionTimes(session', n)
<1>1. h \in net /\ h \in Hooks
  BY DeliverIs DEF TypeInv, TransportOK
<1>2. CASE ~Lively(h)
  BY <1>2, NotLively
<1>3. CASE Lively(h)
  <2> DEFINE tool == Correlated(guard, h)
             r == Reduce(session, h, tool, "live")
  <2>1. session' = r.session /\ tool \in Nat
    BY Zenon, <1>3, LivelyIs
  <2> HIDE DEF tool
  <2>2. CASE OpensInteraction(h)
    <3>1. r.session.wait = <<Shown(session, h, tool)>>
      BY <1>1, <2>1, <2>2, ReduceOpens
    <3>2. WaitTimes(Shown(session, h, tool), n)
      BY <1>1, <2>1, <2>2, ShownTimes
    <3> HIDE DEF r
    <3> QED BY <2>1, <3>1, <3>2 DEF SessionTimes
  <2>3. CASE ~OpensInteraction(h) /\ session.wait = <<>>
    <3>1. r.session.wait = <<>>
      BY <1>1, <2>3, ReduceIdle
    <3> HIDE DEF r
    <3> QED BY <2>1, <3>1 DEF SessionTimes
  <2>4. CASE ~OpensInteraction(h) /\ session.wait # <<>>
    <3>1. PICK w \in Waits : session.wait = <<w>>
      BY <2>4, SessionWait DEF SessionOf
    <3>2. WaitTimes(w, n)
      BY <3>1 DEF SessionTimes
    <3>3. \/ r.session.wait = <<>>
          \/ r.session.wait = <<Named(w, h)>>
          \/ r.session.wait = <<Refused(w, h)>> /\ Denies(w, h)
          \/ r.session = session
      BY <1>1, <2>4, <3>1, ReduceWaiting
    <3>4. WaitTimes(Named(w, h), n) /\ (Denies(w, h) => WaitTimes(Refused(w, h), n))
      BY <1>1, <3>2, NamedTimes, RefusedTimes
    <3> HIDE DEF r
    <3> QED BY <2>1, <3>3, <3>4 DEF SessionTimes
  <2> QED BY <2>2, <2>3, <2>4
<1> QED BY <1>2, <1>3

LEMMA DeliverAlive == ASSUME TypeInv, Alive, AliveInv, NEW h, Deliver(h) PROVE AliveInv'
<1>1. h \in net /\ agent' = agent /\ net' \subseteq net /\ now' = now
  BY DeliverIs
<1>2. h.at <= now /\ SessionOf(session, now) /\ now \in Nat /\ SessionTimes(session, now)
  BY <1>1 DEF TypeInv, ValuesOK, TransportOK, AliveInv
<1>3. SessionTimes(session', now)
  BY <1>2, DeliverTimes
<1> QED BY <1>1, <1>3, StillAlive

LEMMA AliveInit == ASSUME Init PROVE AliveInv
<1>1. agent = Quiet /\ net = {} /\ session.wait = <<>>
  BY DEF Init, Launched
<1>2. /\ Quiet.turn = None /\ Quiet.prompts = 0 /\ Quiet.wakes = {} /\ Quiet.asking = None
      /\ Quiet.open = <<>>
  BY Zenon DEF Quiet
<1>3. DOMAIN agent.open = {}
  BY <1>1, <1>2
<1>4. AgentOK
  BY <1>1, <1>2, <1>3 DEF AgentOK, None
<1> QED BY <1>1, <1>4 DEF AliveInv, FlightOK, SessionTimes

LEMMA AliveStep == ASSUME TypeInv, AliveInv, [Next]_vars PROVE AliveInv'
<1>1. CASE ~Alive'
  BY <1>1 DEF AliveInv
<1>2. CASE Alive' /\ Claude
  <2>1. Alive
    BY Zenon, <1>2 DEF Claude, Submit, StartTool, AskPermission, AutoDeny, EndTool, Stop, Wake
  <2> QED BY Zenon, <1>2, <2>1, SubmitAlive, StartToolAlive, AskPermissionAlive, AutoDenyAlive, EndToolAlive,
             StopAlive, WakeAlive DEF Claude
<1>3. CASE Alive' /\ User
  BY <1>3, ActedAlive DEF User, Answer, Escape, CtrlC
<1>4. CASE Alive' /\ Runtime
  <2>1. Alive
    BY <1>4 DEF Alive, Runtime, Render, Disarm, CtrlCSettles, LaunchTimesOut, Persist, Deliver, Ingest, Lose
  <2>2. CASE Render
    BY <2>1, <2>2, RenderAlive
  <2>3. CASE Disarm \/ CtrlCSettles \/ Persist
    BY <2>1, <2>3, StillAlive DEF AliveInv, Disarm, CtrlCSettles, Persist
  <2>4. CASE LaunchTimesOut
    <3>1. session'.wait = session.wait
      BY <2>4 DEF LaunchTimesOut, TypeInv, ValuesOK, SessionOf, Sessions
    <3>2. agent' = agent /\ net' \subseteq net /\ SessionTimes(session', now')
      BY <2>1, <2>4, <3>1 DEF LaunchTimesOut, AliveInv, SessionTimes
    <3> QED BY <2>1, <3>2, StillAlive
  <2>5. ASSUME NEW h \in net, Deliver(h) \/ Lose(h) PROVE AliveInv'
    BY <2>1, <2>5, DeliverAlive, StillAlive DEF Lose, AliveInv
  <2> QED BY <1>4, <2>2, <2>3, <2>4, <2>5 DEF Runtime
<1>5. CASE Ends
  BY <1>5 DEF Ends, Exit, Crash, Alive, AliveInv
<1>6. CASE UNCHANGED vars
  BY <1>6, StillAlive DEF vars, AliveInv, Alive
<1> QED BY <1>1, <1>2, <1>3, <1>4, <1>5, <1>6 DEF Next

LEMMA AliveInvariant == Spec => [](TypeInv /\ AliveInv)
<1>1. Init => TypeInv /\ AliveInv
  BY TypeInit, AliveInit
<1>2. TypeInv /\ AliveInv /\ [Next]_vars => (TypeInv /\ AliveInv)'
  BY TypeStep, AliveStep
<1> QED BY <1>1, <1>2, PTL DEF Spec

-----------------------------------------------------------------------------
(* A wait for the very tool that Claude asks about.                         *)
IsAskedFor(w) ==
    /\ w.status = "waiting" /\ w.tool = agent.asking /\ w.prompt = agent.turn
    /\ agent.asking # None /\ OnlyOlder(w)

(* No hook that may still come resolves, supersedes, denies or completes it.  *)
LEMMA HeardNoEnd ==
    ASSUME TypeInv, Alive, AliveInv, NEW w \in Waits, IsAskedFor(w), w.openedAt <= w.updatedAt,
           NEW h \in net
    PROVE  ~MovesOn(w, h) /\ ~Denies(w, h) /\ ~CompletesWait(w, h)
<1>1. /\ h.at \in Nat /\ w.openedAt \in Nat /\ w.updatedAt \in Nat
  BY DEF TypeInv, TransportOK, Hooks, Waits
<1>2. /\ h.event \in {"Stop", "UserPromptSubmit"} => h.at < w.openedAt
      /\ h.prompt # agent.turn => h.at <= w.updatedAt
  BY DEF IsAskedFor, OnlyOlder
<1>3. h.event \in Completions => h.tool # w.tool
  BY DEF IsAskedFor, AliveInv, AgentOK, FlightOK
<1>4. ~Resolves(w, h)
  BY <1>1, <1>2, <1>3 DEF Resolves, IsCurrent, ToolEnds, Completions
<1>5. ~WorkResumed(w, h)
  BY DEF WorkResumed, IsAskedFor
<1>6. ~LaterPrompt(w, h)
  <2>1. Follows(w, h) => h.at > w.updatedAt /\ h.at > w.openedAt
    BY <1>1 DEF Follows
  <2>2. Conflicts(w.prompt, h.prompt) => h.prompt # agent.turn
    BY DEF Conflicts, IsAskedFor
  <2> QED BY <1>1, <1>2, <2>1, <2>2 DEF LaterPrompt
<1>7. ~Denies(w, h)
  BY <1>3 DEF Denies, Completions
<1>8. ~CompletesWait(w, h)
  BY <1>1, <1>2 DEF CompletesWait, IsCurrent, Follows
<1> QED BY <1>4, <1>5, <1>6, <1>7, <1>8 DEF MovesOn

(* A request that is heard shows a wait that is not answered yet.            *)
LEMMA ShownWaits ==
    ASSUME NEW s \in Sessions, NEW w \in Waits, s.wait = <<w>>, w.status = "waiting",
           NEW h, NEW tool
    PROVE  Shown(s, h, tool).status = "waiting"
<1> DEFINE next == Opened(h, tool)
<1>1. next.status = "waiting"
  BY DEF Opened
<1> HIDE DEF next
<1>2. Refreshed(w, next).status = "waiting"
  BY DEF Refreshed, Waits
<1> QED BY <1>1, <1>2 DEF Shown, next

LEMMA DeliverKeepsWait ==
    ASSUME TypeInv, Alive, AliveInv, NEW w \in Waits, session.wait = <<w>>, IsAskedFor(w),
           NEW h, Deliver(h)
    PROVE  NeedsInput(session')
<1>0. NeedsInput(session)
  BY DEF NeedsInput, IsAskedFor
<1>1. CASE ~Lively(h)
  BY <1>0, <1>1, NotLively
<1>2. CASE Lively(h)
  <2> DEFINE tool == Correlated(guard, h)
             r == Reduce(session, h, tool, "live")
  <2>1. session' = r.session /\ tool \in Nat
    BY Zenon, <1>2, LivelyIs
  <2>2. SessionOf(session, now) /\ h \in net /\ h \in Hooks
    BY DeliverIs DEF TypeInv, ValuesOK, TransportOK
  <2>0. session \in Sessions /\ SessionTimes(session, now)
    BY Zenon, <2>2 DEF SessionOf, AliveInv
  <2> HIDE DEF tool
  <2>3. CASE OpensInteraction(h)
    <3>1. r.session.wait = <<Shown(session, h, tool)>>
      BY <2>2, <2>3, ReduceOpens
    <3>2. Shown(session, h, tool).status = "waiting"
      BY <2>0, ShownWaits DEF IsAskedFor
    <3> HIDE DEF r
    <3> QED BY <2>1, <3>1, <3>2 DEF NeedsInput
  <2>4. CASE ~OpensInteraction(h)
    <3>1. ~MovesOn(w, h) /\ ~Denies(w, h) /\ ~CompletesWait(w, h)
      BY <2>0, <2>2, HeardNoEnd DEF SessionTimes, WaitTimes
    <3>2. r.session.wait = <<Named(w, h)>> \/ r.session = session
      BY <2>2, <2>4, <3>1, ReduceWaiting
    <3>3. Named(w, h).status = "waiting"
      BY DEF Named, Waits, IsAskedFor
    <3> HIDE DEF r
    <3> QED BY <1>0, <2>1, <3>2, <3>3 DEF NeedsInput
  <2> QED BY <2>3, <2>4
<1> QED BY <1>1, <1>2

LEMMA WaitStep ==
    ASSUME TypeInv, AliveInv, [Next]_vars, Alive, process' = "live",
           NeedsInput(session), session.wait[1].tool = agent.asking, session.wait[1].prompt = agent.turn,
           agent.asking # None, OnlyOlder(session.wait[1])
    PROVE  NeedsInput(session') \/ agent' # agent \/ acts'.user # acts.user
<1>0. SessionOf(session, now) /\ session.wait # <<>>
  BY DEF TypeInv, ValuesOK, NeedsInput
<1>1. session \in Sessions
  BY Zenon, <1>0 DEF SessionOf
<1>2. PICK w \in Waits : session.wait = <<w>>
  BY <1>0, <1>1, SessionWait
<1>3. session.wait[1] = w
  BY <1>2
<1>4. IsAskedFor(w)
  BY <1>3 DEF IsAskedFor, NeedsInput
<1>5. session.state = "review"
  BY <1>0, <1>1 DEF SessionOf, Sessions
<1>6. CASE UNCHANGED session
  BY <1>6
<1>7. CASE Claude
  <2>1. UNCHANGED session
    BY Zenon, <1>7 DEF Claude, Submit, StartTool, AskPermission, AutoDeny, EndTool, Stop, Wake
  <2> QED BY <2>1
<1>8. CASE User
  <2>1. acts'.user = acts.user + 1 /\ acts.user \in Nat
    BY <1>8 DEF User, Answer, Escape, CtrlC, Act, TypeInv, ValuesOK, Counters
  <2> QED BY <2>1
<1>9. CASE Runtime
  <2>1. CASE Render
    BY <2>1 DEF Render, Idle, AliveInv, AgentOK
  <2>2. CASE Disarm \/ CtrlCSettles \/ Persist
    BY <2>2 DEF Disarm, CtrlCSettles, Persist
  <2>3. CASE LaunchTimesOut
    BY <1>5, <2>3 DEF LaunchTimesOut, MayTimeOut
  <2>4. ASSUME NEW h \in net, Deliver(h) PROVE NeedsInput(session')
    BY <1>2, <1>4, <2>4, DeliverKeepsWait
  <2>5. ASSUME NEW h \in net, Lose(h) PROVE NeedsInput(session')
    BY <2>5 DEF Lose
  <2> QED BY <1>9, <2>1, <2>2, <2>3, <2>4, <2>5 DEF Runtime
<1>10. CASE Ends
  BY <1>10 DEF Ends, Exit, Crash, Alive
<1> QED BY <1>6, <1>7, <1>8, <1>9, <1>10 DEF Next, vars

(* A hook of a parallel tool, a late hook of what the wait came after, and a     *)
(* repeated request never take from the board a wait that Claude still asks       *)
(* for (reduceProviderHook while a wait is outstanding).                         *)
THEOREM WaitsAreNotForged == Spec => WaitIsNotForged
<1>1. TypeInv /\ AliveInv /\ [Next]_vars =>
        [(/\ Alive /\ process' = "live" /\ agent.asking # None /\ NeedsInput(session)
          /\ session.wait[1].tool = agent.asking /\ session.wait[1].prompt = agent.turn
          /\ OnlyOlder(session.wait[1]))
            => NeedsInput(session') \/ agent' # agent \/ acts'.user # acts.user]_vars
  BY Zenon, WaitStep
<1> QED BY <1>1, AliveInvariant, PTL DEF Spec, WaitIsNotForged

-----------------------------------------------------------------------------
(* An Escape that was seen to cut the turn.                                 *)

(* Every prompt so far is retired, and nothing on its way submits a new one.  *)
AllRetired ==
    /\ guard.awaiting /\ 1 .. agent.prompts \subseteq guard.retired
    /\ ~LaterPromptFlying

LEMMA OnlyStopsLively ==
    ASSUME TypeInv, Alive, AliveInv, AllRetired, NEW h \in net, Lively(h)
    PROVE  h.event = "Stop"
<1>1. h.prompt \in Nat /\ h.event \in Events /\ agent.prompts \in Nat
  BY AgentType DEF TypeInv, TransportOK, Hooks
<1>2. h.prompt <= agent.prompts
  BY DEF AliveInv, FlightOK
<1>3. h.prompt \notin guard.retired
  BY DEF Lively, Accepts, Superseded
<1>4. h.prompt = None
  BY <1>1, <1>2, <1>3 DEF AllRetired, None
<1>5. h.event \in {"UserPromptSubmit", "Stop"}
  BY <1>4 DEF Lively, Accepts, AllRetired
<1>6. h.event # "UserPromptSubmit"
  BY DEF AllRetired, LaterPromptFlying, Lively
<1> QED BY <1>5, <1>6

LEMMA StopNeverRuns ==
    ASSUME NEW n, NEW s, SessionOf(s, n), s.state = "review", NEW h \in Hooks, h.event = "Stop", NEW tool,
           NEW r, r = Reduce(s, h, tool, "live")
    PROVE  r.session.state = "review"
<1>1. ~OpensInteraction(h)
  BY DEF OpensInteraction
<1>2. CASE s.wait = <<>>
  BY <1>1, <1>2, ReduceIdle
<1>3. CASE s.wait # <<>>
  <2>0. s \in Sessions
    BY Zenon DEF SessionOf
  <2>1. PICK w \in Waits : s.wait = <<w>>
    BY <1>3, <2>0, SessionWait
  <2>2. ~MovesOn(w, h)
    BY DEF MovesOn, Resolves, WorkResumed, LaterPrompt, ToolEnds, ToolEvents
  <2> QED BY <1>1, <2>1, <2>2, ReduceWaiting
<1> QED BY <1>2, <1>3

LEMMA CutDeliver ==
    ASSUME TypeInv, AliveInv, AllRetired, session.state = "review", NEW h, Deliver(h)
    PROVE  session'.state = "review"
<1>1. h \in net /\ h \in Hooks /\ h.at <= now /\ SessionOf(session, now) /\ guard \in Guards
  BY DeliverIs DEF TypeInv, ValuesOK, TransportOK
<1>2. CASE Alive /\ ~Lively(h)
  BY <1>2, NotLively
<1>3. CASE Alive /\ Lively(h)
  <2>1. h.event = "Stop"
    BY <1>1, <1>3, OnlyStopsLively
  <2>2. session' = Judgement(h).session /\ Judgement(h) = Reduce(session, h, Correlated(guard, h), "live")
    BY <1>3, LivelyIs
  <2> QED BY <1>1, <2>1, <2>2, StopNeverRuns
<1>4. CASE ~Alive
  <2>1. session' = IF Accepts(guard, h) THEN Judgement(h).session ELSE session
    BY DeliverIs
  <2>2. Context(h) \in {"exited", "startup", "unconfirmed"}
    BY <1>4 DEF Context, Alive, TypeInv, ValuesOK
  <2>3. CASE Context(h) = "unconfirmed"
    <3>1. Judgement(h) = Result(session, FALSE)
      BY Zenon, <2>3, ReduceIs DEF Judgement
    <3>2. Judgement(h).session = session
      BY <3>1 DEF Result
    <3> QED BY <2>1, <3>2
  <2>4. CASE Context(h) \in {"exited", "startup"}
    <3>1. Correlated(guard, h) \in Nat
      BY <1>1, CorrelatedType
    <3>2. Judgement(h).session.state = "review"
      BY <1>1, <2>4, <3>1, ReduceNotLive DEF Judgement
    <3> QED BY <2>1, <3>2
  <2> QED BY <2>2, <2>3, <2>4
<1> QED BY <1>2, <1>3, <1>4

LEMMA AnsweredState == ASSUME NEW s \in Sessions, NEW at \in Nat PROVE Answered(s, at).state = s.state
<1>1. CASE ~(s.state = "review" /\ NeedsInput(s))
  BY <1>1 DEF Answered
<1>2. CASE s.state = "review" /\ NeedsInput(s)
  <2>1. s.wait # <<>>
    BY <1>2 DEF NeedsInput
  <2>2. PICK w \in Waits : s.wait = <<w>>
    BY <2>1, SessionWait
  <2>3. Answered(s, at) = [s EXCEPT !.wait = <<Replied(w, at)>>]
    BY Zenon, <1>2, <2>2, AnsweredIs
  <2> QED BY <2>3 DEF Sessions
<1> QED BY <1>1, <1>2

LEMMA ExitedState ==
    ASSUME NEW s \in Sessions, s.state = "review", NEW clean, NEW interrupted, NEW worked
    PROVE  Exited(s, clean, interrupted, worked).state = "review"
<1> DEFINE gone == [s EXCEPT !.live = FALSE, !.evidence = FALSE, !.clean = clean]
           ended == IF interrupted THEN "interrupted" ELSE IF clean /\ worked THEN "exit" ELSE "error"
           r1 == [gone EXCEPT !.state = "review", !.reason = ended, !.wait = <<>>]
           r2 == [gone EXCEPT !.reason = "interrupted", !.wait = <<>>]
           r3 == [gone EXCEPT !.reason = "error", !.lost = TRUE, !.wait[1].status = "resolution_unknown"]
           r4 == [gone EXCEPT !.reason = ended]
           x == Exited(s, clean, interrupted, worked)
<1>1. x = r1 \/ x = gone \/ x = r2 \/ x = r3 \/ x = r4
  BY Zenon DEF Exited
<1>2. gone.state = "review"
  BY DEF Sessions
<1>3. r1.state = "review" /\ r2.state = "review" /\ r3.state = "review" /\ r4.state = "review"
  BY <1>2 DEF Sessions
<1> HIDE DEF gone, r1, r2, r3, r4, x
<1>4. x.state = "review"
  BY <1>1, <1>2, <1>3
<1> QED BY <1>4 DEF x

LEMMA CutStep ==
    ASSUME TypeInv, AliveInv, [Next]_vars, AllRetired, session.state = "review"
    PROVE  session'.state # "running"
<1>1. SessionOf(session, now) /\ SessionOf(saved.session, now) /\ now + 1 \in Nat
  BY DEF TypeInv, ValuesOK, DiskOK
<1>2. session \in Sessions
  BY Zenon, <1>1 DEF SessionOf
<1>3. CASE UNCHANGED session
  BY <1>3
<1>4. CASE Claude
  <2>1. UNCHANGED session
    BY Zenon, <1>4 DEF Claude, Submit, StartTool, AskPermission, AutoDeny, EndTool, Stop, Wake
  <2> QED BY <2>1
<1>5. CASE User
  <2>1. CASE Answer \/ Escape
    <3>1. session' \in {session, Answered(session, now + 1)}
      BY <2>1 DEF Answer, Escape, RecordAnswer
    <3> QED BY <1>1, <1>2, <3>1, AnsweredState
  <2>2. CASE CtrlC
    BY <2>2 DEF CtrlC
  <2> QED BY <1>5, <2>1, <2>2 DEF User
<1>6. CASE Runtime
  <2>1. CASE Render
    <3>1. session' \in {session, Cut(session)}
      BY <2>1 DEF Render
    <3> QED BY <1>1, <3>1, CutType
  <2>2. CASE Disarm \/ CtrlCSettles \/ Persist \/ LaunchTimesOut
    BY <1>2, <2>2 DEF Disarm, CtrlCSettles, Persist, LaunchTimesOut, MayTimeOut
  <2>3. ASSUME NEW h \in net, Deliver(h) PROVE session'.state # "running"
    BY <2>3, CutDeliver
  <2>4. ASSUME NEW h \in net, Lose(h) PROVE session'.state # "running"
    BY <2>4 DEF Lose
  <2> QED BY <1>6, <2>1, <2>2, <2>3, <2>4 DEF Runtime
<1>7. CASE Ends
  <2>1. ASSUME NEW clean \in BOOLEAN, Exit(clean) PROVE session'.state # "running"
    BY <1>2, <2>1, ExitedState DEF Exit
  <2>2. CASE Crash
    BY <1>1, <2>2, HydratedType DEF Crash
  <2> QED BY <1>7, <2>1, <2>2 DEF Ends
<1> QED BY <1>3, <1>4, <1>5, <1>6, <1>7 DEF Next, vars

(* Once Claude has shown that an Escape ended its turn, hooks of the prompts that *)
(* are retired with it are refused, and unnamed ones until a prompt is submitted, *)
(* so that none makes the task Running (evaluateHookEventOrder), whatever the     *)
(* process or the runtime does.                                                   *)
THEOREM CutTurnsStayCut == Spec => CutTurnStaysCut
<1>1. TypeInv /\ AliveInv /\ [Next]_vars =>
        [(/\ guard.awaiting /\ 1 .. agent.prompts \subseteq guard.retired
          /\ Idle /\ agent.ended = "cut" /\ ~LaterPromptFlying
          /\ session.state = "review" /\ session.reason = "interrupted")
            => session'.state # "running"]_vars
  BY Zenon, CutStep DEF AllRetired
<1> QED BY <1>1, AliveInvariant, PTL DEF Spec, CutTurnStaysCut

-----------------------------------------------------------------------------
(* What an operation does to the guard's tools, seen from outside: it opens    *)
(* and closes those of S, it may close others, and it writes the time `at`.   *)
Moves(g, k, S, at) ==
    /\ DOMAIN g.completed \subseteq DOMAIN k.completed
    /\ DOMAIN k.pending \cup DOMAIN k.completed \subseteq DOMAIN g.pending \cup DOMAIN g.completed \cup S
    /\ DOMAIN k.pending \cap DOMAIN k.completed = {}
    /\ \A t \in DOMAIN k.pending :
          k.pending[t].at = at \/ (t \in DOMAIN g.pending /\ k.pending[t].at = g.pending[t].at)
    /\ \A t \in DOMAIN k.completed :
          \/ t \in DOMAIN g.completed /\ k.completed[t].at = g.completed[t].at
          \/ t \notin DOMAIN g.completed /\ (k.completed[t].at = at \/
                (t \in DOMAIN g.pending /\ k.completed[t].at = g.pending[t].at))

Disjoint(g) == DOMAIN g.pending \cap DOMAIN g.completed = {}

LEMMA SameMoves ==
    ASSUME NEW g, NEW k, NEW S, NEW at, Disjoint(g), k.pending = g.pending, k.completed = g.completed
    PROVE  Moves(g, k, S, at)
BY DEF Moves, Disjoint

LEMMA MovesOver ==
    ASSUME NEW g, NEW f, NEW k, NEW S, NEW at, Moves(f, k, {}, at),
           f.pending = g.pending, f.completed = g.completed
    PROVE  Moves(g, k, S, at)
BY DEF Moves

LEMMA CloseMoves ==
    ASSUME NEW g \in Guards, Disjoint(g), NEW p \in Nat, NEW at \in Nat
    PROVE  Moves(g, ClosePending(g, p, at), {}, at)
<1> DEFINE k == ClosePending(g, p, at)
           C == Closing(g, p)
<1>1. /\ DOMAIN k.pending = DOMAIN g.pending \ C
      /\ \A t \in DOMAIN g.pending \ C : k.pending[t] = g.pending[t]
      /\ DOMAIN k.completed = DOMAIN g.completed \cup C
      /\ \A t \in C : k.completed[t] = Entry(g, t, at)
      /\ \A t \in DOMAIN g.completed \ C : k.completed[t] = g.completed[t]
  BY ClosePendingType
<1>2. C \subseteq DOMAIN g.pending
  BY DEF Closing
<1>3. ASSUME NEW t \in C PROVE Entry(g, t, at).at \in {at, g.pending[t].at}
  <2>1. g.pending[t] \in Seen
    BY <1>2, <1>3, MapElement DEF Guards
  <2>2. Entry(g, t, at).at = Max({g.pending[t].at, at})
    BY <2>1 DEF Entry, Seen
  <2> QED BY <2>1, <2>2, MaxOfTwo DEF Seen
<1> HIDE DEF k, C
<1>4. Moves(g, k, {}, at)
  BY <1>1, <1>2, <1>3 DEF Moves, Disjoint
<1> QED BY <1>4 DEF k

LEMMA AfterToolMoves ==
    ASSUME NEW g \in Guards, Disjoint(g), NEW h \in Hooks, h.tool \notin DOMAIN g.completed
    PROVE  Moves(g, AfterTool(g, h), {h.tool}, h.at)
<1>0. g.pending \in ToolMaps /\ g.completed \in ToolMaps /\ h.at \in Nat /\ h.prompt \in Nat /\ h.class \in Classes
  BY Zenon DEF Guards, Hooks
<1>1. CASE h.event = "PreToolUse"
  <2> DEFINE seen == [prompt |-> h.prompt, class |-> h.class, at |-> h.at]
             next == Put(g.pending, h.tool, seen)
  <2>1. h.tool \in Nat \ {0} /\ seen \in Seen /\ seen.at = h.at
    BY <1>0, <1>1 DEF Hooks, Seen, ToolEvents, None
  <2>2. AfterTool(g, h) = [g EXCEPT !.pending = next]
    BY <1>1 DEF AfterTool, Completions
  <2> HIDE DEF seen
  <2>3. DOMAIN next = DOMAIN g.pending \cup {h.tool} /\ next[h.tool] = seen
        /\ \A u \in DOMAIN g.pending : u # h.tool => next[u] = g.pending[u]
    BY DEF Put
  <2> HIDE DEF next
  <2>4. AfterTool(g, h).pending = next /\ AfterTool(g, h).completed = g.completed
    BY <2>2 DEF Guards
  <2> QED BY <2>1, <2>3, <2>4 DEF Moves, Disjoint
<1>2. CASE h.event \in Completions
  <2> DEFINE prompt == IF h.tool \in DOMAIN g.pending /\ g.pending[h.tool].prompt # None
                       THEN g.pending[h.tool].prompt ELSE h.prompt
             done == [prompt |-> prompt, class |-> h.class, at |-> h.at]
             left == Restrict(g.pending, DOMAIN g.pending \ {h.tool})
             next == Put(g.completed, h.tool, done)
  <2>1. h.tool \in Nat \ {0}
    BY <1>2 DEF Hooks, None
  <2>2. prompt \in Nat
    BY <1>0, <2>1, MapElement DEF Seen
  <2> HIDE DEF prompt
  <2>3. done \in Seen /\ done.at = h.at
    BY <1>0, <2>2 DEF Seen
  <2>4. DOMAIN left = DOMAIN g.pending \ {h.tool} /\ \A t \in DOMAIN left : left[t] = g.pending[t]
    BY <1>0, RestrictMap
  <2> HIDE DEF done
  <2>5. DOMAIN next = DOMAIN g.completed \cup {h.tool} /\ next[h.tool] = done
        /\ \A u \in DOMAIN g.completed : u # h.tool => next[u] = g.completed[u]
    BY DEF Put
  <2>6. AfterTool(g, h) = [g EXCEPT !.pending = left, !.completed = next]
    BY <1>2 DEF AfterTool, done, prompt, Completions
  <2> HIDE DEF left, next
  <2>7. AfterTool(g, h).pending = left /\ AfterTool(g, h).completed = next
    BY <2>6 DEF Guards
  <2> QED BY <2>3, <2>4, <2>5, <2>7 DEF Moves, Disjoint
<1>3. CASE h.event # "PreToolUse" /\ h.event \notin Completions
  <2>1. AfterTool(g, h) = g
    BY <1>3 DEF AfterTool
  <2> QED BY <2>1, SameMoves
<1> QED BY <1>1, <1>2, <1>3

(* The rest of the guard is left alone.                                     *)
LEMMA AfterToolRest ==
    ASSUME NEW g \in Guards, NEW h
    PROVE  LET k == AfterTool(g, h)
           IN  /\ k.active = g.active /\ k.activeAt = g.activeAt /\ k.foreground = g.foreground
               /\ k.completedAt = g.completedAt /\ k.retired = g.retired
               /\ k.submittedAt = g.submittedAt /\ k.background = g.background /\ k.fence = g.fence
BY DEF AfterTool, Guards

(* The prompts that are retired when one takes the foreground.                *)
Took(g, prompt) == IF prompt = g.active THEN g.retired ELSE RetireActive(g)

LEMMA AfterPromptNamed ==
    ASSUME NEW g \in Guards, NEW h \in Hooks, h.prompt # None,
           h.prompt = g.active \/ h.at > g.activeAt
    PROVE  LET k == AfterPrompt(AfterSubmit(g, h), h)
           IN  /\ k \in Guards
               /\ k.active = h.prompt /\ k.activeAt = Max({g.activeAt, h.at}) /\ k.retired = Took(g, h.prompt)
               /\ k.completedAt = g.completedAt /\ k.background = g.background
               /\ k.submittedAt = g.submittedAt /\ k.fence = g.fence
               /\ k.pending = g.pending /\ k.completed = g.completed
<1> DEFINE f == AfterSubmit(g, h)
           k == AfterPrompt(f, h)
<1>1. f \in Guards
  BY AfterSubmitType
<1>2. /\ f.active = g.active /\ f.activeAt = g.activeAt /\ f.retired = g.retired
      /\ f.completedAt = g.completedAt /\ f.background = g.background
      /\ f.submittedAt = g.submittedAt /\ f.fence = g.fence
      /\ f.pending = g.pending /\ f.completed = g.completed
  BY DEF AfterSubmit, Guards
<1>3. RetireActive(f) = RetireActive(g)
  BY <1>2 DEF RetireActive
<1>4. g.activeAt \in Nat /\ h.at \in Nat
  BY DEF Guards, Hooks
<1>5. k \in Guards
  BY <1>1, AfterPromptType
<1> HIDE DEF f
<1>6. CASE h.prompt = g.active
  <2>1. k = [f EXCEPT !.activeAt = Max({f.activeAt, h.at})]
    BY <1>2, <1>6 DEF AfterPrompt
  <2> HIDE DEF k
  <2>2. /\ k.active = f.active /\ k.activeAt = Max({f.activeAt, h.at}) /\ k.retired = f.retired
        /\ k.completedAt = f.completedAt /\ k.background = f.background
        /\ k.submittedAt = f.submittedAt /\ k.fence = f.fence
        /\ k.pending = f.pending /\ k.completed = f.completed
    BY <1>1, <2>1 DEF Guards
  <2> QED BY <1>2, <1>5, <1>6, <2>2 DEF Took, k, f
<1>7. CASE h.prompt # g.active
  <2>1. h.at > g.activeAt
    BY <1>7
  <2>2. k = [f EXCEPT !.retired = RetireActive(f), !.active = h.prompt, !.activeAt = h.at,
                      !.foreground = TRUE, !.awaiting = FALSE]
    BY <1>2, <1>7, <2>1 DEF AfterPrompt
  <2>3. Max({g.activeAt, h.at}) = h.at
    BY <1>4, <2>1, MaxOfTwo
  <2> HIDE DEF k
  <2>4. /\ k.active = h.prompt /\ k.activeAt = h.at /\ k.retired = RetireActive(f)
        /\ k.completedAt = f.completedAt /\ k.background = f.background
        /\ k.submittedAt = f.submittedAt /\ k.fence = f.fence
        /\ k.pending = f.pending /\ k.completed = f.completed
    BY <1>1, <2>2 DEF Guards
  <2> QED BY <1>2, <1>3, <1>5, <1>7, <2>3, <2>4 DEF Took, k, f
<1> QED BY <1>6, <1>7

LEMMA AfterStopNamed ==
    ASSUME NEW g \in Guards, Disjoint(g), NEW h \in Hooks, h.event = "Stop", h.prompt # None,
           h.prompt = g.active, h.at > g.completedAt
    PROVE  LET k == AfterStop(g, h)
           IN  /\ k.active = None /\ k.activeAt = 0 /\ ~k.foreground /\ k.completedAt = h.at
               /\ k.background = (IF h.wake THEN g.background \cup {h.prompt} ELSE g.background \ {h.prompt})
               /\ k.retired = (IF h.wake THEN g.retired ELSE g.retired \cup {h.prompt})
               /\ k.submittedAt = g.submittedAt /\ k.fence = g.fence
               /\ Moves(g, k, {}, h.at)
<1> DEFINE f == Freed(g, h)
           k == AfterStop(g, h)
           c == ClosePending(f, Ended(g, h), h.at)
           e == [c EXCEPT !.anonymous = FALSE, !.background = @ \ Known(g, h)]
           background == IF h.wake THEN g.background \cup {h.prompt} ELSE g.background
           retired == IF h.wake THEN g.retired ELSE g.retired \cup {h.prompt}
           at == Max({g.completedAt, h.at})
           anonymous == g.anonymous \/ (h.wake /\ Known(g, h) = {})
<1>1. Ended(g, h) = h.prompt /\ Known(g, h) = {h.prompt}
  BY DEF Ended, Known
<1>2. h.at \in Nat /\ g.completedAt \in Nat /\ h.prompt \in Nat
  BY DEF Hooks, Guards
<1>3. at = h.at
  BY <1>2, MaxOfTwo
<1>4. f \in Guards
  BY FreedType
<1>5. f = [[g EXCEPT !.completedAt = at, !.background = background, !.anonymous = anonymous, !.retired = retired]
             EXCEPT !.active = None, !.activeAt = 0, !.foreground = FALSE]
  BY <1>1 DEF Freed, Fenced1
<1>6. k = IF h.wake THEN f ELSE e
  BY Zenon, AfterStopIs
<1> HIDE DEF f, at, background, retired, anonymous, k
<1>7. /\ f.active = None /\ f.activeAt = 0 /\ ~f.foreground /\ f.completedAt = at
      /\ f.background = background /\ f.retired = retired
      /\ f.submittedAt = g.submittedAt /\ f.fence = g.fence
      /\ f.pending = g.pending /\ f.completed = g.completed
  BY <1>5 DEF Guards
<1>8. Disjoint(f)
  BY <1>7 DEF Disjoint
<1>9. CASE h.wake
  <2>1. Moves(g, f, {}, h.at)
    BY <1>7, SameMoves
  <2> QED BY <1>3, <1>6, <1>7, <1>9, <2>1 DEF background, retired, k
<1>10. CASE ~h.wake
  <2>1. c \in Guards /\ Moves(f, c, {}, h.at)
    BY <1>1, <1>2, <1>4, <1>8, ClosePendingType, CloseMoves
  <2>2. /\ c.active = f.active /\ c.activeAt = f.activeAt /\ c.foreground = f.foreground
        /\ c.completedAt = f.completedAt /\ c.retired = f.retired
        /\ c.submittedAt = f.submittedAt /\ c.background = f.background /\ c.fence = f.fence
    BY <1>4, ClosePendingRest
  <2> HIDE DEF c
  <2>3. /\ e.active = c.active /\ e.activeAt = c.activeAt /\ e.foreground = c.foreground
        /\ e.completedAt = c.completedAt /\ e.retired = c.retired
        /\ e.submittedAt = c.submittedAt /\ e.background = c.background \ {h.prompt} /\ e.fence = c.fence
        /\ e.pending = c.pending /\ e.completed = c.completed
    BY <1>1, <2>1 DEF Guards
  <2> HIDE DEF e
  <2>4. Moves(g, e, {}, h.at)
    BY <1>7, <2>1, <2>3 DEF Moves
  <2>5. k = e
    BY <1>6, <1>10
  <2> QED BY <1>3, <1>7, <1>10, <2>2, <2>3, <2>4, <2>5 DEF background, retired, k
<1> QED BY <1>9, <1>10

(* What a hook that names its prompt makes of the guard when it is admitted and  *)
(* says something of the task: work, or the end of a turn.                    *)
Worked(g, h, k) ==
    /\ k.active = h.prompt /\ k.activeAt = Max({g.activeAt, h.at}) /\ k.retired = Took(g, h.prompt)
    /\ k.completedAt = g.completedAt /\ k.background = g.background

Stopped(g, h, k) ==
    /\ k.active = None /\ k.activeAt = 0 /\ ~k.foreground /\ k.completedAt = h.at
    /\ k.background = (IF h.wake THEN g.background \cup {h.prompt} ELSE g.background \ {h.prompt})
    /\ k.retired = (IF h.wake THEN Took(g, h.prompt) ELSE Took(g, h.prompt) \cup {h.prompt})

LEMMA CommittedNamed ==
    ASSUME NEW g \in Guards, Disjoint(g), g.active = None => g.activeAt = 0,
           NEW h \in Hooks, h.prompt # None, Accepts(g, h)
    PROVE  LET k == Committed(g, h, TRUE)
           IN  /\ h.event # "Stop" => Worked(g, h, k)
               /\ h.event = "Stop" => Stopped(g, h, k)
               /\ k.fence = FenceAfter(g.fence, h) /\ k.submittedAt = g.submittedAt
               /\ Moves(g, k, {h.tool}, h.at)
<1> DEFINE m == Moved(g, h)
           f == AfterPrompt(AfterSubmit(m, h), h)
           t == AfterTool(f, h)
           k == AfterStop(t, h)
<1>1. Committed(g, h, TRUE) = k
  BY Zenon, CommittedIs
<1>2. m \in Guards
  BY HeardType
<1>3. /\ m.active = g.active /\ m.activeAt = g.activeAt /\ m.foreground = g.foreground
      /\ m.completedAt = g.completedAt /\ m.retired = g.retired
      /\ m.submittedAt = g.submittedAt /\ m.background = g.background /\ m.fence = FenceAfter(g.fence, h)
      /\ m.pending = g.pending /\ m.completed = g.completed
  BY DEF Moved, Heard, Guards
<1>4. /\ h.at \in Nat /\ h.at > 0 /\ g.activeAt \in Nat /\ g.completedAt \in Nat /\ h.at > g.completedAt
      /\ h.tool \notin DOMAIN g.completed
  BY DEF Hooks, Guards, Accepts, ToolIsDone
<1>5. h.prompt = g.active \/ h.at > g.activeAt
  BY <1>4 DEF Accepts, Superseded
<1>6. Took(m, h.prompt) = Took(g, h.prompt)
  BY <1>3 DEF Took, RetireActive
<1> HIDE DEF m
<1>7. /\ f \in Guards
      /\ f.active = h.prompt /\ f.activeAt = Max({g.activeAt, h.at}) /\ f.retired = Took(g, h.prompt)
      /\ f.completedAt = g.completedAt /\ f.background = g.background
      /\ f.submittedAt = g.submittedAt /\ f.fence = FenceAfter(g.fence, h)
      /\ f.pending = g.pending /\ f.completed = g.completed
  BY <1>2, <1>3, <1>5, <1>6, AfterPromptNamed
<1> HIDE DEF f
<1>8. t \in Guards /\ Disjoint(f)
  BY <1>7, AfterToolType DEF Disjoint
<1>9. CASE h.event # "Stop"
  <2>1. k = t
    BY <1>9 DEF AfterStop
  <2>2. /\ t.active = f.active /\ t.activeAt = f.activeAt /\ t.completedAt = f.completedAt
        /\ t.retired = f.retired /\ t.submittedAt = f.submittedAt /\ t.background = f.background
        /\ t.fence = f.fence
    BY <1>7, AfterToolRest
  <2>3. Moves(f, t, {h.tool}, h.at)
    BY <1>4, <1>7, <1>8, AfterToolMoves
  <2> HIDE DEF t, k
  <2>4. Moves(g, k, {h.tool}, h.at)
    BY <1>7, <2>1, <2>3 DEF Moves
  <2>5. Worked(g, h, k)
    BY <1>7, <2>1, <2>2 DEF Worked
  <2> QED BY <1>1, <1>7, <1>9, <2>1, <2>2, <2>4, <2>5
<1>10. CASE h.event = "Stop"
  <2>1. t = f
    BY <1>10 DEF AfterTool, Completions
  <2>2. /\ k.active = None /\ k.activeAt = 0 /\ ~k.foreground /\ k.completedAt = h.at
        /\ k.background = (IF h.wake THEN f.background \cup {h.prompt} ELSE f.background \ {h.prompt})
        /\ k.retired = (IF h.wake THEN f.retired ELSE f.retired \cup {h.prompt})
        /\ k.submittedAt = f.submittedAt /\ k.fence = f.fence
        /\ Moves(f, k, {}, h.at)
    BY <1>4, <1>7, <1>8, <1>10, <2>1, AfterStopNamed
  <2> HIDE DEF k
  <2>3. Moves(g, k, {h.tool}, h.at)
    BY <1>7, <2>2, MovesOver
  <2>4. Stopped(g, h, k)
    BY <1>7, <2>2 DEF Stopped
  <2> QED BY <1>1, <1>7, <1>10, <2>2, <2>3, <2>4
<1> QED BY <1>9, <1>10

LEMMA HeardRest ==
    ASSUME NEW g \in Guards, NEW h
    PROVE  LET k == Committed(g, h, FALSE)
           IN  /\ k.active = g.active /\ k.activeAt = g.activeAt /\ k.foreground = g.foreground
               /\ k.completedAt = g.completedAt /\ k.retired = g.retired
               /\ k.submittedAt = g.submittedAt /\ k.background = g.background /\ k.fence = g.fence
               /\ k.pending = g.pending /\ k.completed = g.completed
<1>1. Committed(g, h, FALSE) = Heard(g, h)
  BY CommittedIs
<1> QED BY <1>1 DEF Heard, Guards

(* An answer drops its tool from those that are open.                       *)
LEMMA SubmittedRest ==
    ASSUME NEW g \in Guards, Disjoint(g), NEW at \in Nat, NEW tool
    PROVE  LET k == Submitted(g, at, tool)
           IN  /\ k.active = g.active /\ k.activeAt = g.activeAt /\ k.foreground = g.foreground
               /\ k.completedAt = g.completedAt /\ k.retired = g.retired
               /\ k.background = g.background /\ k.fence = g.fence
               /\ k.submittedAt = Max({g.submittedAt, at})
               /\ Moves(g, k, {}, at)
<1> DEFINE left == Restrict(g.pending, DOMAIN g.pending \ {tool})
           k == Submitted(g, at, tool)
           last == Max({g.submittedAt, at})
<1>1. DOMAIN left = DOMAIN g.pending \ {tool} /\ \A t \in DOMAIN left : left[t] = g.pending[t]
  BY RestrictMap DEF Guards
<1>2. k = [g EXCEPT !.submittedAt = last, !.pending = left]
  BY DEF Submitted
<1> HIDE DEF left, k, last
<1>3. /\ k.active = g.active /\ k.activeAt = g.activeAt /\ k.foreground = g.foreground
      /\ k.completedAt = g.completedAt /\ k.retired = g.retired
      /\ k.background = g.background /\ k.fence = g.fence
      /\ k.submittedAt = last /\ k.pending = left /\ k.completed = g.completed
  BY <1>2 DEF Guards
<1>4. Moves(g, k, {}, at)
  BY <1>1, <1>3 DEF Moves, Disjoint
<1> QED BY <1>3, <1>4 DEF k, last

LEMMA EscapeRest ==
    ASSUME NEW g \in Guards
    PROVE  LET k == EscapePressed(g)
           IN  /\ k.active = g.active /\ k.activeAt = g.activeAt /\ k.foreground = g.foreground
               /\ k.completedAt = g.completedAt /\ k.retired = g.retired
               /\ k.submittedAt = g.submittedAt /\ k.background = g.background /\ k.fence = g.fence
               /\ k.pending = g.pending /\ k.completed = g.completed
BY DEF EscapePressed, Guards

LEMMA ClosedTools ==
    ASSUME NEW g \in Guards, NEW p \in Nat, NEW at \in Nat
    PROVE  Closing(g, p) \subseteq DOMAIN ClosePending(g, p, at).completed
<1>1. DOMAIN ClosePending(g, p, at).completed = DOMAIN g.completed \cup Closing(g, p)
  BY ClosePendingType
<1> QED BY <1>1

(* Ctrl-C fences the foreground and closes its tools.                       *)
LEMMA CtrlCRest ==
    ASSUME NEW g \in Guards, Disjoint(g), NEW at \in Nat
    PROVE  LET k == CtrlCPressed(g, at)
           IN  /\ k.active = g.active /\ k.activeAt = g.activeAt /\ k.foreground = g.foreground
               /\ k.completedAt = g.completedAt /\ k.retired = g.retired
               /\ k.submittedAt = g.submittedAt /\ k.background = g.background
               /\ k.fence # <<>> /\ k.fence[1].scope = g.active /\ k.fence[1].at = at /\ k.fence[1].awaiting
               /\ k.fence[1].tools \subseteq DOMAIN k.completed
               /\ Moves(g, k, {}, at)
<1> DEFINE f == [g EXCEPT !.fence = <<FencedBy(g, at)>>]
           k == CtrlCPressed(g, at)
<1>1. k = ClosePending(f, g.active, at) /\ f \in Guards
  BY CtrlCPressedType
<1>2. g.active \in Nat
  BY DEF Guards
<1> DEFINE fence == <<FencedBy(g, at)>>
<1>3. fence # <<>> /\ fence[1].scope = g.active /\ fence[1].at = at /\ fence[1].awaiting
      /\ fence[1].tools = Closing(g, g.active)
  BY DEF FencedBy
<1>4. f = [g EXCEPT !.fence = fence]
  OBVIOUS
<1> HIDE DEF f, k, fence
<1>5. /\ f.active = g.active /\ f.activeAt = g.activeAt /\ f.foreground = g.foreground
      /\ f.completedAt = g.completedAt /\ f.retired = g.retired
      /\ f.submittedAt = g.submittedAt /\ f.background = g.background /\ f.fence = fence
      /\ f.pending = g.pending /\ f.completed = g.completed
  BY <1>4 DEF Guards
<1>6. /\ k.active = f.active /\ k.activeAt = f.activeAt /\ k.foreground = f.foreground
      /\ k.completedAt = f.completedAt /\ k.retired = f.retired
      /\ k.submittedAt = f.submittedAt /\ k.background = f.background /\ k.fence = f.fence
  BY <1>1, ClosePendingRest
<1>7. Closing(f, g.active) \subseteq DOMAIN k.completed /\ Moves(f, k, {}, at)
  <2>1. Closing(f, g.active) \subseteq DOMAIN ClosePending(f, g.active, at).completed
    BY Zenon, <1>1, <1>2, ClosedTools
  <2>2. Disjoint(f)
    BY <1>5 DEF Disjoint
  <2>3. Moves(f, ClosePending(f, g.active, at), {}, at)
    BY <1>1, <1>2, <2>2, CloseMoves
  <2> QED BY <1>1, <2>1, <2>3
<1>8. Closing(f, g.active) = Closing(g, g.active)
  BY <1>5 DEF Closing
<1>9. Moves(g, k, {}, at)
  BY <1>5, <1>7, MovesOver
<1> QED BY <1>3, <1>5, <1>6, <1>7, <1>8, <1>9 DEF k

(* A rendered Escape that is aimed at the foreground retires it, unless       *)
(* background work may wake it.                                             *)
LEMMA RenderRest ==
    ASSUME NEW g \in Guards, Disjoint(g), NEW at \in Nat, EscapeIsCurrent(g)
    PROVE  LET k == Interrupted(g, at)
           IN  /\ k.completedAt = g.completedAt /\ k.submittedAt = g.submittedAt
               /\ k.background = g.background /\ k.fence = g.fence
               /\ Moves(g, k, {}, at)
               /\ \/ /\ k.active = g.active /\ k.activeAt = g.activeAt /\ k.foreground = g.foreground
                     /\ k.retired = g.retired
                  \/ /\ k.active = None /\ k.activeAt = 0 /\ ~k.foreground
                     /\ k.retired = g.retired \cup ({g.active} \ {None})
                     /\ g.active \notin g.background \ {None}
<1> DEFINE base == [g EXCEPT !.key = <<>>]
           closed == ClosedByRender(g, at)
           retired == [closed EXCEPT !.retired = @ \cup ({Aimed(g)} \ {None}), !.awaiting = TRUE]
           freed == [retired EXCEPT !.active = None, !.activeAt = 0, !.foreground = FALSE]
           k == Interrupted(g, at)
<1>1. Aimed(g) = g.active
  BY DEF Aimed, EscapeIsCurrent
<1>2. base \in Guards /\ closed \in Guards /\ closed = ClosePending(base, Aimed(g), at)
  BY ClosedByRenderType DEF ClosedByRender
<1>3. k = IF WakeExpected(g, Aimed(g)) THEN closed
          ELSE IF Aimed(g) = None \/ g.active = Aimed(g) THEN freed ELSE retired
  BY Zenon, InterruptedIs
<1>4. k = IF WakeExpected(g, g.active) THEN closed ELSE freed
  BY <1>1, <1>3
<1>5. ~WakeExpected(g, g.active) => g.active \notin g.background \ {None}
  BY DEF WakeExpected
<1> HIDE DEF k
<1>6. base.pending = g.pending /\ base.completed = g.completed
      /\ base.active = g.active /\ base.activeAt = g.activeAt /\ base.foreground = g.foreground
      /\ base.completedAt = g.completedAt /\ base.retired = g.retired
      /\ base.submittedAt = g.submittedAt /\ base.background = g.background /\ base.fence = g.fence
  BY DEF Guards
<1> HIDE DEF base
<1>7. closed.active = base.active /\ closed.activeAt = base.activeAt /\ closed.foreground = base.foreground
      /\ closed.completedAt = base.completedAt /\ closed.retired = base.retired
      /\ closed.submittedAt = base.submittedAt /\ closed.background = base.background
      /\ closed.fence = base.fence
  BY <1>2, ClosePendingRest
<1>8. Moves(g, closed, {}, at)
  <2>1. g.active \in Nat /\ Disjoint(base)
    BY <1>6 DEF Guards, Disjoint
  <2>2. Moves(base, closed, {}, at)
    BY <1>1, <1>2, <2>1, CloseMoves
  <2> QED BY <1>6, <2>2, MovesOver
<1> HIDE DEF closed
<1>9. freed.completedAt = closed.completedAt /\ freed.retired = closed.retired \cup ({g.active} \ {None})
      /\ freed.submittedAt = closed.submittedAt /\ freed.background = closed.background
      /\ freed.fence = closed.fence /\ freed.pending = closed.pending /\ freed.completed = closed.completed
      /\ freed.active = None /\ freed.activeAt = 0 /\ ~freed.foreground
  BY <1>1, <1>2 DEF Guards
<1> HIDE DEF freed
<1>10. Moves(g, freed, {}, at)
  BY <1>8, <1>9 DEF Moves
<1> QED BY <1>4, <1>5, <1>6, <1>7, <1>8, <1>9, <1>10 DEF k

-----------------------------------------------------------------------------
(* While the process lives and hooks name their prompts: the guard's own facts.  *)

(* Times have happened, and nothing is active of old when nothing is active.  *)
TimesOK ==
    /\ guard.activeAt <= now /\ guard.completedAt <= now /\ guard.submittedAt <= now
    /\ terminal.fence <= now
    /\ guard.active = None => guard.activeAt = 0
    /\ guard.fence # <<>> => guard.fence[1].at <= terminal.fence

(* Hooks name their prompt, and the guard knows of prompts that were submitted. *)
PromptsOK ==
    /\ \A h \in net : h.prompt # None
    /\ guard.active <= agent.prompts
    /\ guard.retired \subseteq 1 .. agent.prompts /\ guard.background \subseteq 1 .. agent.prompts
    /\ guard.fence # <<>> => guard.fence[1].scope <= agent.prompts

(* A map of tools that have been, at times that no hook on its way has.       *)
SeenOK(map) ==
    \A t \in DOMAIN map : map[t].at <= now /\ t <= agent.tools /\ \A h \in net : h.at # map[t].at

(* A tool is open or done, what Ctrl-C closed is done, and the start of an open *)
(* tool that is on its way is the first that the guard hears of the tool.      *)
ToolsOK ==
    /\ SeenOK(guard.pending) /\ SeenOK(guard.completed)
    /\ Disjoint(guard)
    /\ guard.fence # <<>> => guard.fence[1].tools \subseteq DOMAIN guard.completed
    /\ \A h \in net : h.event = "PreToolUse" =>
          /\ h.tool \in DOMAIN agent.open => h.tool \notin DOMAIN guard.pending \cup DOMAIN guard.completed
          /\ \A k \in net : k.event = "PreToolUse" /\ k.tool = h.tool => k = h

NamedInv == Alive => TimesOK /\ PromptsOK /\ ToolsOK

LEMMA NamedTypes ==
    ASSUME TypeInv
    PROVE  /\ now \in Nat /\ now + 1 \in Nat /\ agent.prompts \in Nat /\ agent.tools \in Nat /\ agent.turn \in Nat
           /\ guard \in Guards /\ guard.active \in Nat /\ guard.activeAt \in Nat /\ guard.completedAt \in Nat
           /\ guard.submittedAt \in Nat /\ guard.pending \in ToolMaps /\ guard.completed \in ToolMaps
           /\ guard.retired \subseteq Nat /\ guard.background \subseteq Nat
           /\ terminal.fence \in Nat
           /\ guard.fence # <<>> => guard.fence[1] \in Fences
           /\ \A h \in net : h \in Hooks /\ h.at \in Nat /\ h.at > 0 /\ h.at <= now /\ h.prompt \in Nat /\ h.tool \in Nat
           /\ \A h, k \in net : h.at = k.at => h = k
<1>1. now \in Nat /\ guard \in Guards /\ terminal \in Terminals
  BY DEF TypeInv, ValuesOK
<1>2. /\ guard.active \in Nat /\ guard.activeAt \in Nat /\ guard.completedAt \in Nat
      /\ guard.submittedAt \in Nat /\ guard.pending \in ToolMaps /\ guard.completed \in ToolMaps
      /\ guard.retired \subseteq Nat /\ guard.background \subseteq Nat /\ guard.fence \in Opt(Fences)
  BY <1>1 DEF Guards
<1>3. guard.fence # <<>> => guard.fence[1] \in Fences
  BY <1>2, OptElement
<1>4. \A h \in net : h \in Hooks /\ h.at \in Nat /\ h.at > 0 /\ h.at <= now /\ h.prompt \in Nat /\ h.tool \in Nat
  BY <1>1 DEF TypeInv, TransportOK, Hooks
<1>5. \A h, k \in net : h.at = k.at => h = k
  BY DEF TypeInv, TransportOK
<1>6. terminal.fence \in Nat
  BY <1>1 DEF Terminals
<1> QED BY <1>1, <1>2, <1>3, <1>4, <1>5, <1>6, AgentType

(* Nothing new is on its way, and the guard's tools have moved.              *)
LEMMA ToolsQuiet ==
    ASSUME TypeInv, TypeInv', ToolsOK, now <= now', net' \subseteq net,
           agent'.tools = agent.tools, DOMAIN agent'.open \subseteq DOMAIN agent.open,
           NEW S, NEW at \in Nat, Moves(guard, guard', S, at), at <= now', \A t \in S : t <= agent.tools,
           \A h \in net' : h.at # at /\ (h.event = "PreToolUse" /\ h.tool \in DOMAIN agent.open => h.tool \notin S),
           guard'.fence # <<>> => guard'.fence[1].tools \subseteq DOMAIN guard'.completed
    PROVE  ToolsOK'
<1>1. now \in Nat /\ now' \in Nat /\ guard.pending \in ToolMaps /\ guard.completed \in ToolMaps
  BY NamedTypes DEF TypeInv, ValuesOK
<1>2. /\ \A t \in DOMAIN guard.pending : guard.pending[t].at \in Nat
      /\ \A t \in DOMAIN guard.completed : guard.completed[t].at \in Nat
  BY <1>1, MapElement DEF Seen
<1>3. SeenOK(guard.pending)'
  <2>1. ASSUME NEW t \in DOMAIN guard'.pending
        PROVE  guard'.pending[t].at <= now' /\ t <= agent'.tools /\ \A h \in net' : h.at # guard'.pending[t].at
    <3>1. t \in DOMAIN guard.pending \cup DOMAIN guard.completed \cup S
      BY DEF Moves
    <3>2. t <= agent.tools
      BY <3>1 DEF ToolsOK, SeenOK
    <3>3. guard'.pending[t].at = at \/ (t \in DOMAIN guard.pending /\ guard'.pending[t].at = guard.pending[t].at)
      BY DEF Moves
    <3>4. CASE guard'.pending[t].at = at
      BY <3>2, <3>4
    <3>5. CASE t \in DOMAIN guard.pending /\ guard'.pending[t].at = guard.pending[t].at
      <4>1. guard.pending[t].at <= now /\ \A h \in net : h.at # guard.pending[t].at
        BY <3>5 DEF ToolsOK, SeenOK
      <4>2. guard.pending[t].at <= now'
        BY <1>1, <1>2, <3>5, <4>1
      <4> QED BY <3>2, <3>5, <4>1, <4>2
    <3> QED BY <3>3, <3>4, <3>5
  <2> QED BY <2>1 DEF SeenOK
<1>4. SeenOK(guard.completed)'
  <2>1. ASSUME NEW t \in DOMAIN guard'.completed
        PROVE  guard'.completed[t].at <= now' /\ t <= agent'.tools /\ \A h \in net' : h.at # guard'.completed[t].at
    <3>1. t \in DOMAIN guard.pending \cup DOMAIN guard.completed \cup S
      BY DEF Moves
    <3>2. t <= agent.tools
      BY <3>1 DEF ToolsOK, SeenOK
    <3>3. \/ guard'.completed[t].at = at
          \/ t \in DOMAIN guard.pending /\ guard'.completed[t].at = guard.pending[t].at
          \/ t \in DOMAIN guard.completed /\ guard'.completed[t].at = guard.completed[t].at
      BY DEF Moves
    <3>4. CASE guard'.completed[t].at = at
      BY <3>2, <3>4
    <3>5. CASE t \in DOMAIN guard.pending /\ guard'.completed[t].at = guard.pending[t].at
      <4>1. guard.pending[t].at <= now /\ \A h \in net : h.at # guard.pending[t].at
        BY <3>5 DEF ToolsOK, SeenOK
      <4>2. guard.pending[t].at <= now'
        BY <1>1, <1>2, <3>5, <4>1
      <4> QED BY <3>2, <3>5, <4>1, <4>2
    <3>6. CASE t \in DOMAIN guard.completed /\ guard'.completed[t].at = guard.completed[t].at
      <4>1. guard.completed[t].at <= now /\ \A h \in net : h.at # guard.completed[t].at
        BY <3>6 DEF ToolsOK, SeenOK
      <4>2. guard.completed[t].at <= now'
        BY <1>1, <1>2, <3>6, <4>1
      <4> QED BY <3>2, <3>6, <4>1, <4>2
    <3> QED BY <3>3, <3>4, <3>5, <3>6
  <2> QED BY <2>1 DEF SeenOK
<1>5. Disjoint(guard)'
  BY DEF Moves, Disjoint
<1>6. ASSUME NEW h \in net', h.event = "PreToolUse"
      PROVE  /\ h.tool \in DOMAIN agent'.open => h.tool \notin DOMAIN guard'.pending \cup DOMAIN guard'.completed
             /\ \A k \in net' : k.event = "PreToolUse" /\ k.tool = h.tool => k = h
  <2>1. h.tool \in DOMAIN agent'.open => h.tool \notin DOMAIN guard.pending \cup DOMAIN guard.completed \cup S
    BY <1>6 DEF ToolsOK
  <2>2. DOMAIN guard'.pending \cup DOMAIN guard'.completed \subseteq DOMAIN guard.pending \cup DOMAIN guard.completed \cup S
    BY DEF Moves
  <2>3. \A k \in net' : k.event = "PreToolUse" /\ k.tool = h.tool => k = h
    BY <1>6 DEF ToolsOK
  <2> QED BY <2>1, <2>2, <2>3
<1> QED BY <1>3, <1>4, <1>5, <1>6 DEF ToolsOK

(* A hook is captured; the guard has not heard of it.                       *)
LEMMA ToolsCapture ==
    ASSUME TypeInv, TypeInv', FlightOK, ToolsOK, guard' = guard,
           NEW event, NEW prompt, NEW tool, NEW class, NEW wake, Captured(event, prompt, tool, class, wake),
           agent'.tools >= agent.tools, DOMAIN agent'.open \subseteq DOMAIN agent.open \cup {agent.tools + 1},
           event = "PreToolUse" => tool = agent.tools + 1
    PROVE  ToolsOK'
<1>1. now \in Nat /\ guard.pending \in ToolMaps /\ guard.completed \in ToolMaps
      /\ agent.tools \in Nat /\ \A h \in net : h.at \in Nat /\ h.at <= now /\ h.tool \in Nat
  BY NamedTypes
<1>2. now' = now + 1 /\ agent'.tools \in Nat
  BY NamedTypes, AgentType DEF Captured, TypeInv, ValuesOK, Agents
<1>3. PICK new \in Hooks : net' = net \cup {new} /\ new.at = now + 1 /\ new.event = event /\ new.tool = tool
  BY DEF Captured
<1>4. ASSUME NEW map \in ToolMaps, SeenOK(map), NEW t \in DOMAIN map
      PROVE  map[t].at <= now' /\ t <= agent'.tools /\ t <= agent.tools /\ \A h \in net' : h.at # map[t].at
  <2>1. map[t].at \in Nat /\ t \in Nat
    BY MapElement DEF Seen
  <2>2. map[t].at <= now /\ t <= agent.tools /\ \A h \in net : h.at # map[t].at
    BY <1>4 DEF SeenOK
  <2> QED BY <1>1, <1>2, <1>3, <2>1, <2>2
<1>5. SeenOK(guard.pending)' /\ SeenOK(guard.completed)'
  BY <1>1, <1>4 DEF SeenOK, ToolsOK
<1>6. Disjoint(guard)'
  BY DEF ToolsOK, Disjoint
<1>7. guard'.fence # <<>> => guard'.fence[1].tools \subseteq DOMAIN guard'.completed
  BY DEF ToolsOK
<1>8. agent.tools + 1 \notin DOMAIN guard.pending \cup DOMAIN guard.completed
  <2>1. \A t \in DOMAIN guard.pending \cup DOMAIN guard.completed : t <= agent.tools
    BY <1>1, <1>4 DEF ToolsOK
  <2> QED BY <1>1, <2>1
<1>9. \A h \in net : h.tool # agent.tools + 1
  <2>1. \A h \in net : h.tool <= agent.tools
    BY DEF FlightOK
  <2> QED BY <1>1, <2>1
<1>10. ASSUME NEW h \in net', h.event = "PreToolUse"
       PROVE  /\ h.tool \in DOMAIN agent'.open => h.tool \notin DOMAIN guard.pending \cup DOMAIN guard.completed
              /\ \A k \in net' : k.event = "PreToolUse" /\ k.tool = h.tool => k = h
  <2>1. CASE h \in net
    <3>1. \A k \in net : k.event = "PreToolUse" /\ k.tool = h.tool => k = h
      BY <1>10, <2>1 DEF ToolsOK
    <3>2. h.tool \in DOMAIN agent'.open => h.tool \in DOMAIN agent.open
      BY <1>9, <2>1
    <3>3. h.tool \in DOMAIN agent.open => h.tool \notin DOMAIN guard.pending \cup DOMAIN guard.completed
      BY <1>10, <2>1 DEF ToolsOK
    <3>4. ~(new.event = "PreToolUse" /\ new.tool = h.tool)
      BY <1>3, <1>9, <2>1
    <3> QED BY <1>3, <3>1, <3>2, <3>3, <3>4
  <2>2. CASE h = new
    <3>1. h.tool = agent.tools + 1
      BY <1>3, <1>10, <2>2
    <3> QED BY <1>3, <1>8, <1>9, <2>2, <3>1
  <2> QED BY <1>3, <2>1, <2>2
<1> QED BY <1>5, <1>6, <1>7, <1>10 DEF ToolsOK

LEMMA NamedQuiet ==
    ASSUME TypeInv, TypeInv', Alive, NamedInv, guard' = guard, terminal'.fence = terminal.fence,
           net' \subseteq net, now' = now, agent'.prompts = agent.prompts, agent'.tools = agent.tools,
           DOMAIN agent'.open \subseteq DOMAIN agent.open
    PROVE  NamedInv'
<1>0. TimesOK /\ PromptsOK /\ ToolsOK
  BY DEF NamedInv
<1>1. TimesOK'
  BY <1>0 DEF TimesOK
<1>2. PromptsOK'
  BY <1>0 DEF PromptsOK
<1>3. ToolsOK'
  <2>1. Moves(guard, guard', {}, 0)
    BY <1>0, SameMoves DEF ToolsOK
  <2>2. 0 \in Nat /\ 0 <= now' /\ now <= now' /\ \A h \in net' : h.at # 0
    BY NamedTypes
  <2>3. guard'.fence # <<>> => guard'.fence[1].tools \subseteq DOMAIN guard'.completed
    BY <1>0 DEF ToolsOK
  <2> QED BY <1>0, <2>1, <2>2, <2>3, ToolsQuiet
<1> QED BY <1>1, <1>2, <1>3 DEF NamedInv

LEMMA NamedCapture ==
    ASSUME TypeInv, TypeInv', ~MayOmit, Alive, AliveInv, NamedInv, guard' = guard, terminal' = terminal,
           NEW event, NEW prompt, NEW tool, NEW class, NEW wake, Captured(event, prompt, tool, class, wake),
           prompt # None, agent'.prompts >= agent.prompts, agent'.tools >= agent.tools,
           DOMAIN agent'.open \subseteq DOMAIN agent.open \cup {agent.tools + 1},
           event = "PreToolUse" => tool = agent.tools + 1
    PROVE  NamedInv'
<1>0. TimesOK /\ PromptsOK /\ ToolsOK /\ FlightOK
  BY DEF NamedInv, AliveInv
<1>1. now' = now + 1 /\ now \in Nat /\ agent.prompts \in Nat /\ agent'.prompts \in Nat
  BY NamedTypes, AgentType DEF Captured, TypeInv, ValuesOK, Agents
<1>2. TimesOK'
  <2>1. guard.fence # <<>> => guard.fence[1].at \in Nat
    BY NamedTypes DEF Fences
  <2>2. /\ guard.activeAt \in Nat /\ guard.completedAt \in Nat /\ guard.submittedAt \in Nat
        /\ terminal.fence \in Nat
    BY NamedTypes
  <2> QED BY <1>0, <1>1, <2>1, <2>2 DEF TimesOK
<1>3. PromptsOK'
  <2>1. \A h \in net' : h.prompt # None
    BY <1>0 DEF PromptsOK, Captured
  <2>2. guard.fence # <<>> => guard.fence[1].scope \in Nat
    BY NamedTypes DEF Fences
  <2>3. 1 .. agent.prompts \subseteq 1 .. agent'.prompts
    BY <1>1
  <2>4. guard.active <= agent.prompts /\ guard.active \in Nat
    BY <1>0, NamedTypes DEF PromptsOK
  <2>5. guard'.active <= agent'.prompts
    BY <1>1, <2>4
  <2>6. guard'.fence # <<>> => guard'.fence[1].scope <= agent'.prompts
    BY <1>0, <1>1, <2>2 DEF PromptsOK
  <2>7. guard'.retired \subseteq 1 .. agent'.prompts /\ guard'.background \subseteq 1 .. agent'.prompts
    BY <1>0, <2>3 DEF PromptsOK
  <2> QED BY <2>1, <2>5, <2>6, <2>7 DEF PromptsOK
<1>4. ToolsOK'
  BY Zenon, <1>0, ToolsCapture
<1> QED BY <1>2, <1>3, <1>4 DEF NamedInv

LEMMA ClaudeNamed == ASSUME TypeInv, TypeInv', ~MayOmit, Alive, AliveInv, NamedInv, Claude PROVE NamedInv'
<1>0. /\ agent.prompts \in Nat /\ agent.tools \in Nat /\ agent.tools + 1 >= agent.tools
      /\ agent.prompts + 1 >= agent.prompts /\ agent.prompts >= agent.prompts /\ agent.tools >= agent.tools
      /\ agent.prompts + 1 # None
  BY AgentType DEF None
<1>1. CASE Submit
  <2>1. guard' = guard /\ terminal' = terminal
    BY <1>1 DEF Submit
  <2>2. /\ agent'.prompts = agent.prompts + 1 /\ agent'.tools = agent.tools /\ agent'.open = agent.open
        /\ Captured("UserPromptSubmit", agent.prompts + 1, None, NoClass, FALSE)
    BY <1>1, SubmitDoes
  <2>3. agent'.prompts >= agent.prompts /\ agent'.tools >= agent.tools
        /\ DOMAIN agent'.open \subseteq DOMAIN agent.open \cup {agent.tools + 1}
    BY <1>0, <2>2
  <2> QED BY Zenon, <1>0, <2>1, <2>2, <2>3, NamedCapture
<1>2. ASSUME NEW class \in {"tool", "question"}, StartTool(class) PROVE NamedInv'
  <2>1. guard' = guard /\ terminal' = terminal
    BY <1>2 DEF StartTool
  <2>2. /\ agent.turn # None /\ agent'.prompts = agent.prompts /\ agent'.tools = agent.tools + 1
        /\ DOMAIN agent'.open = DOMAIN agent.open \cup {agent.tools + 1}
        /\ Captured("PreToolUse", agent.turn, agent.tools + 1, class, FALSE)
    BY <1>2, StartToolDoes
  <2>3. agent'.prompts >= agent.prompts /\ agent'.tools >= agent.tools
        /\ DOMAIN agent'.open \subseteq DOMAIN agent.open \cup {agent.tools + 1}
    BY <1>0, <2>2
  <2> QED BY Zenon, <1>0, <2>1, <2>2, <2>3, NamedCapture
<1>3. ASSUME NEW tool, AskPermission(tool) PROVE NamedInv'
  <2>1. guard' = guard /\ terminal' = terminal
    BY <1>3 DEF AskPermission
  <2>2. /\ agent.open[tool].prompt = agent.turn /\ tool \in DOMAIN agent.open
        /\ agent'.prompts = agent.prompts /\ agent'.tools = agent.tools
        /\ DOMAIN agent'.open = DOMAIN agent.open
        /\ Captured("PermissionRequest", agent.turn, None, "tool", FALSE)
    BY <1>3, AskPermissionDoes
  <2>3. agent'.prompts >= agent.prompts /\ agent'.tools >= agent.tools
        /\ DOMAIN agent'.open \subseteq DOMAIN agent.open \cup {agent.tools + 1}
    BY <1>0, <2>2
  <2>4. agent.turn # None
    BY <2>2 DEF AliveInv, AgentOK, None
  <2> QED BY Zenon, <1>0, <2>1, <2>2, <2>3, <2>4, NamedCapture
<1>4. ASSUME NEW tool, AutoDeny(tool) \/ EndTool(tool) PROVE NamedInv'
  <2>1. guard' = guard /\ terminal' = terminal
    BY <1>4 DEF AutoDeny, EndTool
  <2>2. /\ tool \in DOMAIN agent.open
        /\ agent'.prompts = agent.prompts /\ agent'.tools = agent.tools
        /\ agent'.open = Without(tool)
    BY <1>4, AutoDenyDoes, EndToolDoes
  <2>3. agent'.prompts >= agent.prompts /\ agent'.tools >= agent.tools
        /\ DOMAIN agent'.open \subseteq DOMAIN agent.open \cup {agent.tools + 1}
    BY <1>0, <2>2, WithoutIs
  <2>4. agent.open[tool].prompt # None
    BY <2>2 DEF AliveInv, AgentOK, None
  <2>5. CASE AutoDeny(tool)
    <3>1. agent.open[tool].prompt = agent.turn /\ Captured("PermissionDenied", agent.turn, tool, "tool", FALSE)
      BY <2>5, AutoDenyDoes
    <3>2. agent.turn # None
      BY <2>4, <3>1
    <3> QED BY Zenon, <1>0, <2>1, <2>3, <3>1, <3>2, NamedCapture
  <2>6. CASE EndTool(tool)
    <3>1. Captured("PostToolUse", agent.open[tool].prompt, tool, agent.open[tool].class, FALSE)
      BY <2>6, EndToolDoes
    <3> QED BY Zenon, <1>0, <2>1, <2>3, <2>4, <3>1, NamedCapture
  <2> QED BY <1>4, <2>5, <2>6
<1>5. ASSUME NEW wake \in BOOLEAN, Stop(wake) PROVE NamedInv'
  <2>1. guard' = guard /\ terminal' = terminal
    BY <1>5 DEF Stop
  <2>2. /\ agent.turn # None
        /\ agent'.prompts = agent.prompts /\ agent'.tools = agent.tools
        /\ agent'.open = agent.open
        /\ Captured("Stop", agent.turn, None, NoClass, wake)
    BY <1>5, StopDoes
  <2>3. agent'.prompts >= agent.prompts /\ agent'.tools >= agent.tools
        /\ DOMAIN agent'.open \subseteq DOMAIN agent.open \cup {agent.tools + 1}
    BY <1>0, <2>2
  <2> QED BY Zenon, <1>0, <2>1, <2>2, <2>3, NamedCapture
<1>6. ASSUME NEW prompt \in agent.wakes, Wake(prompt) PROVE NamedInv'
  <2>1. guard' = guard /\ terminal' = terminal /\ net' = net /\ now' = now
    BY <1>6 DEF Wake
  <2>2. agent'.prompts = agent.prompts /\ agent'.tools = agent.tools /\ agent'.open = agent.open
    BY <1>6, WakeDoes
  <2> QED BY <2>1, <2>2, NamedQuiet
<1> QED BY Zenon, <1>1, <1>2, <1>3, <1>4, <1>5, <1>6 DEF Claude

(* What a step leaves of the guard: it may write the time `at` into its tools.  *)
Kept(g, k, at) ==
    /\ k.completedAt = g.completedAt /\ k.background = g.background
    /\ Moves(g, k, {}, at)

Settled(g, k) ==
    k.active = g.active /\ k.activeAt = g.activeAt /\ k.foreground = g.foreground /\ k.retired = g.retired

(* An answer that is typed, with the keys that come with it.                 *)
LEMMA AnswerRest ==
    ASSUME TypeInv, TimesOK, Disjoint(guard), NEW g \in {guard, EscapePressed(guard)}, RecordAnswer(g)
    PROVE  /\ Kept(guard, guard', now + 1) /\ Settled(guard, guard') /\ guard'.fence = guard.fence
           /\ guard'.submittedAt \in {guard.submittedAt, now + 1}
           /\ NeedsInput(session) => guard'.submittedAt = now + 1
<1>1. guard \in Guards /\ now + 1 \in Nat /\ now \in Nat
  BY NamedTypes
<1>2. /\ g \in Guards
      /\ g.active = guard.active /\ g.activeAt = guard.activeAt /\ g.foreground = guard.foreground
      /\ g.completedAt = guard.completedAt /\ g.retired = guard.retired
      /\ g.submittedAt = guard.submittedAt /\ g.background = guard.background /\ g.fence = guard.fence
      /\ g.pending = guard.pending /\ g.completed = guard.completed
  BY <1>1, EscapePressedType, EscapeRest
<1>3. Disjoint(g)
  BY <1>2 DEF Disjoint
<1>4. CASE ~NeedsInput(session)
  <2>1. guard' = g
    BY <1>4 DEF RecordAnswer
  <2>2. Moves(guard, guard', {}, now + 1)
    BY <1>2, <2>1, SameMoves
  <2> QED BY <1>2, <1>4, <2>1, <2>2 DEF Kept, Settled
<1>5. CASE NeedsInput(session)
  <2> DEFINE k == Submitted(g, now + 1, session.wait[1].tool)
  <2>1. guard' = k
    BY <1>5 DEF RecordAnswer
  <2>2. /\ k.active = g.active /\ k.activeAt = g.activeAt /\ k.foreground = g.foreground
        /\ k.completedAt = g.completedAt /\ k.retired = g.retired
        /\ k.background = g.background /\ k.fence = g.fence
        /\ k.submittedAt = Max({g.submittedAt, now + 1})
        /\ Moves(g, k, {}, now + 1)
    BY <1>1, <1>2, <1>3, SubmittedRest
  <2> HIDE DEF k
  <2>3. Max({g.submittedAt, now + 1}) = now + 1
    <3>1. g.submittedAt \in Nat /\ g.submittedAt <= now
      BY <1>2, NamedTypes DEF TimesOK
    <3>2. Max({g.submittedAt, now + 1}) \in {g.submittedAt, now + 1} /\ Max({g.submittedAt, now + 1}) >= now + 1
      BY <1>1, <3>1, MaxOfTwo
    <3> QED BY <1>1, <3>1, <3>2
  <2>4. Moves(guard, k, {}, now + 1)
    BY <1>2, <2>2, MovesOver
  <2> QED BY <1>2, <2>1, <2>2, <2>3, <2>4 DEF Kept, Settled
<1> QED BY <1>4, <1>5

(* What the user does to the guard.                                         *)
LEMMA UserDoes ==
    ASSUME TypeInv, TimesOK, Disjoint(guard), Answer \/ Escape \/ CtrlC
    PROVE  /\ now' = now + 1 /\ net' = net
           /\ Kept(guard, guard', now + 1) /\ Settled(guard, guard')
           /\ guard'.submittedAt \in {guard.submittedAt, now + 1}
           /\ \/ /\ ~CtrlC /\ guard'.fence = guard.fence /\ terminal'.fence = terminal.fence
                 /\ NeedsInput(session) => guard'.submittedAt = now + 1
                 /\ session' = (IF NeedsInput(session) THEN Answered(session, now + 1) ELSE session)
              \/ /\ CtrlC /\ terminal'.fence = now + 1 /\ guard'.submittedAt = guard.submittedAt
                 /\ guard'.fence # <<>> /\ guard'.fence[1].scope = guard.active
                 /\ guard'.fence[1].at = now + 1 /\ guard'.fence[1].awaiting
                 /\ guard'.fence[1].tools \subseteq DOMAIN guard'.completed
                 /\ session' = Cut(session)
<1>1. now' = now + 1 /\ net' = net
  BY DEF Answer, Escape, CtrlC, Act
<1>2. terminal \in Terminals /\ guard \in Guards /\ now + 1 \in Nat
  BY NamedTypes DEF TypeInv, ValuesOK
<1>3. CASE CtrlC
  <2>1. guard' = CtrlCPressed(guard, now + 1) /\ session' = Cut(session)
    BY <1>3 DEF CtrlC
  <2>2. terminal'.fence = now + 1
    BY <1>2, <1>3 DEF CtrlC, Terminals
  <2>3. LET k == guard'
        IN  /\ k.active = guard.active /\ k.activeAt = guard.activeAt /\ k.foreground = guard.foreground
            /\ k.completedAt = guard.completedAt /\ k.retired = guard.retired
            /\ k.submittedAt = guard.submittedAt /\ k.background = guard.background
            /\ k.fence # <<>> /\ k.fence[1].scope = guard.active /\ k.fence[1].at = now + 1 /\ k.fence[1].awaiting
            /\ k.fence[1].tools \subseteq DOMAIN k.completed
            /\ Moves(guard, k, {}, now + 1)
    BY <1>2, <2>1, CtrlCRest
  <2> QED BY <1>1, <1>3, <2>1, <2>2, <2>3 DEF Kept, Settled
<1>4. CASE ~CtrlC
  <2>1. PICK g \in {guard, EscapePressed(guard)} : RecordAnswer(g)
    BY <1>4 DEF Answer, Escape
  <2>2. terminal'.fence = terminal.fence
    BY <1>2, <1>4 DEF Answer, Escape, Terminals
  <2>3. session' = (IF NeedsInput(session) THEN Answered(session, now + 1) ELSE session)
    BY <2>1 DEF RecordAnswer
  <2>4. /\ Kept(guard, guard', now + 1) /\ Settled(guard, guard') /\ guard'.fence = guard.fence
        /\ guard'.submittedAt \in {guard.submittedAt, now + 1}
        /\ NeedsInput(session) => guard'.submittedAt = now + 1
    BY <2>1, AnswerRest
  <2> QED BY <1>1, <1>4, <2>2, <2>3, <2>4
<1> QED BY <1>3, <1>4

LEMMA UserNamed ==
    ASSUME TypeInv, TypeInv', Alive, AliveInv, NamedInv, Answer \/ Escape \/ CtrlC
    PROVE  NamedInv'
<1>0. TimesOK /\ PromptsOK /\ ToolsOK /\ Disjoint(guard)
  BY DEF NamedInv, ToolsOK
<1>1. /\ now' = now + 1 /\ net' = net
      /\ Kept(guard, guard', now + 1) /\ Settled(guard, guard')
      /\ guard'.submittedAt \in {guard.submittedAt, now + 1}
      /\ \/ guard'.fence = guard.fence /\ terminal'.fence = terminal.fence
         \/ /\ terminal'.fence = now + 1
            /\ guard'.fence # <<>> /\ guard'.fence[1].scope = guard.active
            /\ guard'.fence[1].at = now + 1
            /\ guard'.fence[1].tools \subseteq DOMAIN guard'.completed
  BY <1>0, UserDoes
<1>2. /\ agent'.prompts = agent.prompts /\ agent'.tools = agent.tools
      /\ DOMAIN agent'.open \subseteq DOMAIN agent.open
  BY ActedAgent
<1>3. /\ now \in Nat /\ now + 1 \in Nat /\ guard.activeAt \in Nat /\ guard.completedAt \in Nat /\ guard.submittedAt \in Nat
      /\ terminal.fence \in Nat /\ \A h \in net : h.at \in Nat /\ h.at <= now
  BY NamedTypes
<1>4. guard.fence # <<>> => guard.fence[1].at \in Nat
  BY NamedTypes DEF Fences
<1>5. TimesOK'
  <2>1. /\ guard'.activeAt <= now + 1 /\ guard'.completedAt <= now + 1 /\ guard'.submittedAt <= now + 1
        /\ guard'.active = None => guard'.activeAt = 0
    BY <1>0, <1>1, <1>3 DEF TimesOK, Kept, Settled
  <2>2. terminal'.fence <= now + 1
    BY <1>0, <1>1, <1>3 DEF TimesOK
  <2>3. guard'.fence # <<>> => guard'.fence[1].at <= terminal'.fence
    BY <1>0, <1>1, <1>3 DEF TimesOK
  <2> QED BY <1>1, <2>1, <2>2, <2>3 DEF TimesOK
<1>6. PromptsOK'
  BY <1>0, <1>1, <1>2 DEF PromptsOK, Kept, Settled
<1>7. ToolsOK'
  <2>1. guard'.fence # <<>> => guard'.fence[1].tools \subseteq DOMAIN guard'.completed
    BY <1>0, <1>1 DEF ToolsOK, Kept, Moves
  <2>2. Moves(guard, guard', {}, now + 1) /\ now <= now' /\ now + 1 <= now' /\ \A h \in net' : h.at # now + 1
    BY <1>1, <1>3 DEF Kept
  <2> QED BY <1>0, <1>1, <1>2, <1>3, <2>1, <2>2, ToolsQuiet
<1> QED BY <1>5, <1>6, <1>7 DEF NamedInv

(* What a rendered interruption does to the guard.                          *)
LEMMA RenderDoes ==
    ASSUME TypeInv, Disjoint(guard), Render
    PROVE  /\ net' = net /\ agent' = agent
           /\ \/ now' = now /\ session' = session /\ guard' = guard /\ terminal'.fence = terminal.fence
              \/ /\ now' = now + 1 /\ session' = Cut(session) /\ terminal'.fence = now + 1
                 /\ Kept(guard, guard', now + 1)
                 /\ guard'.submittedAt = guard.submittedAt /\ guard'.fence = guard.fence
                 /\ \/ Settled(guard, guard')
                    \/ /\ guard'.active = None /\ guard'.activeAt = 0 /\ ~guard'.foreground
                       /\ guard'.retired = guard.retired \cup ({guard.active} \ {None})
                       /\ guard.active \notin guard.background \ {None}
<1>1. net' = net /\ agent' = agent
  BY DEF Render
<1>2. terminal \in Terminals /\ guard \in Guards /\ now + 1 \in Nat
  BY NamedTypes DEF TypeInv, ValuesOK
<1>3. CASE ~EscapeIsCurrent(guard)
  <2>1. now' = now /\ session' = session /\ guard' = guard /\ terminal' = [terminal EXCEPT !.armed = FALSE]
    BY <1>3 DEF Render
  <2> QED BY <1>1, <1>2, <2>1 DEF Terminals
<1>4. CASE EscapeIsCurrent(guard)
  <2>1. /\ now' = now + 1 /\ session' = Cut(session) /\ guard' = Interrupted(guard, now + 1)
        /\ terminal' = [terminal EXCEPT !.armed = FALSE, !.fence = now + 1, !.rendered = TRUE]
    BY <1>4 DEF Render, AfterRender
  <2>2. terminal'.fence = now + 1
    BY <1>2, <2>1 DEF Terminals
  <2>3. LET k == guard'
        IN  /\ k.completedAt = guard.completedAt /\ k.submittedAt = guard.submittedAt
            /\ k.background = guard.background /\ k.fence = guard.fence
            /\ Moves(guard, k, {}, now + 1)
            /\ \/ /\ k.active = guard.active /\ k.activeAt = guard.activeAt /\ k.foreground = guard.foreground
                  /\ k.retired = guard.retired
               \/ /\ k.active = None /\ k.activeAt = 0 /\ ~k.foreground
                  /\ k.retired = guard.retired \cup ({guard.active} \ {None})
                  /\ guard.active \notin guard.background \ {None}
    BY <1>2, <1>4, <2>1, RenderRest
  <2> QED BY <1>1, <2>1, <2>2, <2>3 DEF Kept, Settled
<1> QED BY <1>3, <1>4

LEMMA RenderNamed ==
    ASSUME TypeInv, TypeInv', Alive, AliveInv, NamedInv, Render
    PROVE  NamedInv'
<1>0. TimesOK /\ PromptsOK /\ ToolsOK /\ Disjoint(guard)
  BY DEF NamedInv, ToolsOK
<1>1. CASE now' = now /\ guard' = guard /\ terminal'.fence = terminal.fence
  <2>1. net' = net /\ agent' = agent
    BY DEF Render
  <2> QED BY <1>1, <2>1, NamedQuiet
<1>2. CASE ~(now' = now /\ guard' = guard /\ terminal'.fence = terminal.fence)
  <2>1. /\ net' = net /\ agent' = agent
        /\ now' = now + 1 /\ terminal'.fence = now + 1
        /\ Kept(guard, guard', now + 1)
        /\ guard'.submittedAt = guard.submittedAt /\ guard'.fence = guard.fence
        /\ \/ Settled(guard, guard')
           \/ /\ guard'.active = None /\ guard'.activeAt = 0
              /\ guard'.retired = guard.retired \cup ({guard.active} \ {None})
    BY <1>0, <1>2, RenderDoes
  <2>2. /\ now \in Nat /\ now + 1 \in Nat /\ guard.activeAt \in Nat /\ guard.completedAt \in Nat
        /\ guard.submittedAt \in Nat /\ guard.active \in Nat /\ agent.prompts \in Nat
        /\ terminal.fence \in Nat /\ \A h \in net : h.at \in Nat /\ h.at <= now
    BY NamedTypes
  <2>3. guard.fence # <<>> => guard.fence[1].at \in Nat
    BY NamedTypes DEF Fences
  <2>4. TimesOK'
    <3>1. /\ guard'.activeAt <= now + 1 /\ guard'.completedAt <= now + 1 /\ guard'.submittedAt <= now + 1
          /\ guard'.active = None => guard'.activeAt = 0
      BY <1>0, <2>1, <2>2 DEF TimesOK, Kept, Settled
    <3>2. guard'.fence # <<>> => guard'.fence[1].at <= now + 1
      BY <1>0, <2>1, <2>2, <2>3 DEF TimesOK
    <3> QED BY <2>1, <2>2, <3>1, <3>2 DEF TimesOK
  <2>5. PromptsOK'
    <3>1. guard.active # None => guard.active \in 1 .. agent.prompts
      BY <1>0, <2>2 DEF PromptsOK, None
    <3>2. guard'.active <= agent.prompts
      BY <1>0, <2>1, <2>2 DEF PromptsOK, Settled, None
    <3>3. guard'.retired \subseteq 1 .. agent.prompts
      BY <1>0, <2>1, <3>1 DEF PromptsOK, Settled
    <3> QED BY <1>0, <2>1, <3>2, <3>3 DEF PromptsOK, Kept
  <2>6. ToolsOK'
    <3>1. guard'.fence # <<>> => guard'.fence[1].tools \subseteq DOMAIN guard'.completed
      BY <1>0, <2>1 DEF ToolsOK, Kept, Moves
    <3>2. Moves(guard, guard', {}, now + 1) /\ now <= now' /\ now + 1 <= now' /\ \A h \in net' : h.at # now + 1
      BY <2>1, <2>2 DEF Kept
    <3> QED BY <1>0, <2>1, <2>2, <3>1, <3>2, ToolsQuiet
  <2> QED BY <2>4, <2>5, <2>6 DEF NamedInv
<1> QED BY <1>1, <1>2

(* The fence changes in nothing but whether it still waits for native work.   *)
LEMMA FenceAfterRest ==
    ASSUME NEW fence \in Opt(Fences), NEW h
    PROVE  LET k == FenceAfter(fence, h)
           IN  /\ k = <<>> <=> fence = <<>>
               /\ fence # <<>> => /\ k[1].scope = fence[1].scope /\ k[1].at = fence[1].at
                                  /\ k[1].tools = fence[1].tools
                                  /\ k[1].awaiting => fence[1].awaiting
<1>1. CASE fence = <<>>
  BY <1>1 DEF FenceAfter
<1>2. CASE fence # <<>>
  <2>1. fence[1] \in Fences /\ fence = <<fence[1]>>
    BY <1>2, OptElement
  <2> DEFINE f == [fence[1] EXCEPT !.awaiting = FALSE]
  <2>2. f.scope = fence[1].scope /\ f.at = fence[1].at /\ f.tools = fence[1].tools /\ ~f.awaiting
    BY <2>1 DEF Fences
  <2>3. FenceAfter(fence, h) \in {fence, <<f>>}
    BY DEF FenceAfter
  <2> HIDE DEF f
  <2>4. <<f>> # <<>> /\ <<f>>[1] = f
    OBVIOUS
  <2> QED BY <1>2, <2>2, <2>3, <2>4
<1> QED BY <1>1, <1>2

(* What a delivery does while the process lives.                            *)
LEMMA DeliverDoes ==
    ASSUME TypeInv, Alive, NamedInv, NEW h, Deliver(h)
    PROVE  /\ h \in net /\ h \in Hooks /\ net' = net \ {h} /\ now' = now /\ agent' = agent
           /\ terminal'.fence = terminal.fence
           /\ guard'.submittedAt = guard.submittedAt
           /\ Moves(guard, guard', {h.tool}, h.at)
           /\ ~Observed(h) => /\ Settled(guard, guard')
                              /\ guard'.completedAt = guard.completedAt
                              /\ guard'.background = guard.background /\ guard'.fence = guard.fence
                              /\ guard'.pending = guard.pending /\ guard'.completed = guard.completed
           /\ Observed(h) => /\ Lively(h) /\ guard'.fence = FenceAfter(guard.fence, h)
                             /\ h.event # "Stop" => Worked(guard, h, guard')
                             /\ h.event = "Stop" => Stopped(guard, h, guard')
<1>1. /\ h \in net /\ net' = net \ {h} /\ guard' = Committed(guard, h, Observed(h))
      /\ terminal' = TerminalAfter(terminal, h, Observed(h)) /\ now' = now /\ agent' = agent
  BY DeliverIs
<1>2. guard \in Guards /\ terminal \in Terminals /\ h \in Hooks /\ Observed(h) \in BOOLEAN
  BY <1>1, NamedTypes, DeliveredType DEF TypeInv, ValuesOK
<1>3. terminal'.fence = terminal.fence
  BY <1>1, <1>2 DEF TerminalAfter, Terminals
<1>4. h.prompt # None /\ Disjoint(guard) /\ (guard.active = None => guard.activeAt = 0)
  BY <1>1 DEF NamedInv, PromptsOK, ToolsOK, TimesOK
<1>5. CASE ~Observed(h)
  <2>1. guard' = Committed(guard, h, FALSE)
    BY <1>1, <1>2, <1>5
  <2>2. LET k == guard'
        IN  /\ k.active = guard.active /\ k.activeAt = guard.activeAt /\ k.foreground = guard.foreground
            /\ k.completedAt = guard.completedAt /\ k.retired = guard.retired
            /\ k.submittedAt = guard.submittedAt /\ k.background = guard.background /\ k.fence = guard.fence
            /\ k.pending = guard.pending /\ k.completed = guard.completed
    BY <1>2, <2>1, HeardRest
  <2>3. Moves(guard, guard', {h.tool}, h.at)
    BY <1>4, <2>2, SameMoves
  <2> QED BY <1>1, <1>2, <1>3, <1>5, <2>2, <2>3 DEF Settled
<1>6. CASE Observed(h)
  <2>1. guard' = Committed(guard, h, TRUE)
    BY <1>1, <1>2, <1>6
  <2>2. Lively(h)
    BY <1>6, NotLively
  <2>3. Accepts(guard, h)
    BY <2>2 DEF Lively
  <2>4. LET k == guard'
        IN  /\ h.event # "Stop" => Worked(guard, h, k)
            /\ h.event = "Stop" => Stopped(guard, h, k)
            /\ k.fence = FenceAfter(guard.fence, h) /\ k.submittedAt = guard.submittedAt
            /\ Moves(guard, k, {h.tool}, h.at)
    BY Zenon, <1>2, <1>4, <2>1, <2>3, CommittedNamed
  <2> QED BY <1>1, <1>2, <1>3, <1>6, <2>2, <2>4
<1> QED BY <1>5, <1>6

LEMMA TookIs ==
    ASSUME NEW g, NEW prompt
    PROVE  g.retired \subseteq Took(g, prompt) /\ Took(g, prompt) \subseteq g.retired \cup ({g.active} \ {None})
           /\ (prompt # g.active /\ g.active # None /\ g.active \notin g.background => g.active \in Took(g, prompt))
           /\ (g.active = prompt \/ g.active \in g.background => Took(g, prompt) = g.retired)
BY DEF Took, RetireActive

LEMMA DeliverNamed ==
    ASSUME TypeInv, TypeInv', Alive, AliveInv, NamedInv, NEW h, Deliver(h)
    PROVE  NamedInv'
<1>0. TimesOK /\ PromptsOK /\ ToolsOK /\ Disjoint(guard) /\ FlightOK /\ AgentOK
  BY DEF NamedInv, ToolsOK, AliveInv
<1>1. /\ h \in net /\ h \in Hooks /\ net' = net \ {h} /\ now' = now /\ agent' = agent
      /\ terminal'.fence = terminal.fence
      /\ guard'.submittedAt = guard.submittedAt
      /\ Moves(guard, guard', {h.tool}, h.at)
      /\ ~Observed(h) => /\ Settled(guard, guard')
                         /\ guard'.completedAt = guard.completedAt
                         /\ guard'.background = guard.background /\ guard'.fence = guard.fence
      /\ Observed(h) => /\ guard'.fence = FenceAfter(guard.fence, h)
                        /\ h.event # "Stop" => Worked(guard, h, guard')
                        /\ h.event = "Stop" => Stopped(guard, h, guard')
  BY DeliverDoes
<1>2. /\ now \in Nat /\ guard.activeAt \in Nat /\ guard.completedAt \in Nat
      /\ guard.active \in Nat /\ agent.prompts \in Nat /\ agent.tools \in Nat
      /\ h.at \in Nat /\ h.at > 0 /\ h.at <= now /\ h.tool \in Nat /\ h.prompt \in Nat
      /\ guard.fence \in Opt(Fences)
      /\ \A k \in net : k.at = h.at => k = h
  BY <1>1, NamedTypes DEF Guards
<1>3. h.prompt # None /\ h.prompt <= agent.prompts /\ h.tool <= agent.tools
  BY <1>0, <1>1 DEF PromptsOK, FlightOK
<1>4. h.prompt \in 1 .. agent.prompts
  BY <1>2, <1>3 DEF None
<1>5. /\ guard'.fence = <<>> <=> guard.fence = <<>>
      /\ guard.fence # <<>> => /\ guard'.fence[1].scope = guard.fence[1].scope
                               /\ guard'.fence[1].at = guard.fence[1].at
                               /\ guard'.fence[1].tools = guard.fence[1].tools
  BY <1>1, <1>2, FenceAfterRest
<1>6. Max({guard.activeAt, h.at}) <= now
  BY <1>0, <1>2, MaxOfTwo DEF TimesOK
<1>7. TimesOK'
  <2>1. guard'.activeAt <= now /\ (guard'.active = None => guard'.activeAt = 0)
    BY <1>0, <1>1, <1>2, <1>3, <1>6 DEF TimesOK, Settled, Worked, Stopped
  <2>2. guard'.completedAt <= now
    BY <1>0, <1>1, <1>2 DEF TimesOK, Worked, Stopped
  <2>3. guard'.fence # <<>> => guard'.fence[1].at <= terminal'.fence
    BY <1>0, <1>1, <1>5 DEF TimesOK
  <2> QED BY <1>0, <1>1, <2>1, <2>2, <2>3 DEF TimesOK
<1>8. PromptsOK'
  <2>1. guard'.active <= agent.prompts
    BY <1>0, <1>1, <1>2, <1>3 DEF PromptsOK, Settled, Worked, Stopped, None
  <2>2. guard.active # None => guard.active \in 1 .. agent.prompts
    BY <1>0, <1>2 DEF PromptsOK, None
  <2>3. Took(guard, h.prompt) \subseteq 1 .. agent.prompts
    BY <1>0, <2>2, TookIs DEF PromptsOK
  <2>4. guard'.retired \subseteq 1 .. agent.prompts
    BY <1>0, <1>1, <1>4, <2>3 DEF PromptsOK, Settled, Worked, Stopped
  <2>5. guard'.background \subseteq 1 .. agent.prompts
    BY <1>0, <1>1, <1>4 DEF PromptsOK, Worked, Stopped
  <2>6. guard'.fence # <<>> => guard'.fence[1].scope <= agent.prompts
    BY <1>0, <1>5 DEF PromptsOK
  <2> QED BY <1>0, <1>1, <2>1, <2>4, <2>5, <2>6 DEF PromptsOK
<1>9. ToolsOK'
  <2>1. guard'.fence # <<>> => guard'.fence[1].tools \subseteq DOMAIN guard'.completed
    BY <1>0, <1>1, <1>5 DEF ToolsOK, Moves
  <2>2. ASSUME NEW k \in net'
        PROVE  k.at # h.at /\ (k.event = "PreToolUse" /\ k.tool \in DOMAIN agent.open => k.tool # h.tool)
    <3>1. k \in net /\ k # h
      BY <1>1, <2>2
    <3>2. h.event \in Events
      BY <1>1 DEF Hooks
    <3>3. CASE h.event = "PreToolUse"
      BY <1>0, <1>1, <1>2, <3>1, <3>3 DEF ToolsOK
    <3>4. CASE h.event \in Completions
      BY <1>0, <1>1, <1>2, <3>1, <3>4 DEF FlightOK
    <3>5. CASE h.event \in {"Stop", "UserPromptSubmit", "PermissionRequest"}
      <4>1. h.tool = None
        BY <1>0, <1>1, <3>5 DEF FlightOK
      <4>2. None \notin DOMAIN agent.open
        BY AgentType, IsOpenTools DEF OpenTools, None
      <4> QED BY <1>2, <3>1, <4>1, <4>2
    <3> QED BY <3>2, <3>3, <3>4, <3>5 DEF Events, Completions
  <2>3. now <= now' /\ h.at <= now' /\ \A t \in {h.tool} : t <= agent.tools
    BY <1>1, <1>2, <1>3
  <2> QED BY <1>0, <1>1, <1>2, <2>1, <2>2, <2>3, ToolsQuiet
<1> QED BY <1>7, <1>8, <1>9 DEF NamedInv

LEMMA NamedInit == ASSUME Init PROVE NamedInv
<1>1. guard = NewGuard /\ net = {} /\ now = 0 /\ terminal = Untouched /\ agent = Quiet
  BY DEF Init
<1>2. /\ guard.activeAt = 0 /\ guard.completedAt = 0 /\ guard.submittedAt = 0 /\ guard.active = None
      /\ guard.fence = <<>> /\ guard.retired = {} /\ guard.background = {}
      /\ DOMAIN guard.pending = {} /\ DOMAIN guard.completed = {}
  BY <1>1 DEF NewGuard
<1>3. terminal.fence = 0 /\ agent.prompts = 0
  BY Zenon, <1>1 DEF Untouched, Quiet
<1>4. TimesOK
  BY <1>1, <1>2, <1>3 DEF TimesOK
<1>5. PromptsOK
  BY <1>1, <1>2, <1>3 DEF PromptsOK, None
<1>6. ToolsOK
  BY <1>1, <1>2 DEF ToolsOK, SeenOK, Disjoint
<1> QED BY <1>4, <1>5, <1>6 DEF NamedInv

LEMMA NamedStep ==
    ASSUME ~MayOmit, TypeInv, TypeInv', AliveInv, NamedInv, [Next]_vars
    PROVE  NamedInv'
<1>1. CASE ~Alive'
  BY <1>1 DEF NamedInv
<1>2. CASE Alive' /\ Claude
  <2>1. Alive
    BY Zenon, <1>2 DEF Claude, Submit, StartTool, AskPermission, AutoDeny, EndTool, Stop, Wake
  <2> QED BY Zenon, <1>2, <2>1, ClaudeNamed
<1>3. CASE Alive' /\ User
  BY <1>3, UserNamed DEF User, Answer, Escape, CtrlC
<1>4. CASE Alive' /\ Runtime
  <2>1. Alive
    BY <1>4 DEF Alive, Runtime, Render, Disarm, CtrlCSettles, LaunchTimesOut, Persist, Deliver, Ingest, Lose
  <2>2. CASE Render
    BY <2>1, <2>2, RenderNamed
  <2>3. CASE Disarm \/ CtrlCSettles
    <3>1. terminal \in Terminals
      BY DEF TypeInv, ValuesOK
    <3>2. terminal'.fence = terminal.fence
      BY <2>3, <3>1 DEF Disarm, CtrlCSettles, Terminals
    <3> QED BY <2>1, <2>3, <3>2, NamedQuiet DEF Disarm, CtrlCSettles
  <2>4. CASE Persist \/ LaunchTimesOut
    BY <2>1, <2>4, NamedQuiet DEF Persist, LaunchTimesOut
  <2>5. ASSUME NEW h \in net, Deliver(h) PROVE NamedInv'
    BY <2>1, <2>5, DeliverNamed
  <2>6. ASSUME NEW h \in net, Lose(h) PROVE NamedInv'
    BY <2>1, <2>6, NamedQuiet DEF Lose
  <2> QED BY <1>4, <2>2, <2>3, <2>4, <2>5, <2>6 DEF Runtime
<1>5. CASE Ends
  BY <1>5 DEF Ends, Exit, Crash, Alive, NamedInv
<1>6. CASE UNCHANGED vars
  BY <1>6, NamedQuiet DEF vars, NamedInv, Alive
<1> QED BY <1>1, <1>2, <1>3, <1>4, <1>5, <1>6 DEF Next

LEMMA NamedInvariant == ~MayOmit => (Spec => [](TypeInv /\ AliveInv /\ NamedInv))
<1> SUFFICES ASSUME ~MayOmit PROVE Spec => [](TypeInv /\ AliveInv /\ NamedInv)
  OBVIOUS
<1>1. Init => TypeInv /\ AliveInv /\ NamedInv
  BY TypeInit, AliveInit, NamedInit
<1>2. TypeInv /\ AliveInv /\ NamedInv /\ [Next]_vars => (TypeInv /\ AliveInv /\ NamedInv)'
  BY TypeStep, AliveStep, NamedStep
<1> QED BY <1>1, <1>2, PTL DEF Spec

-----------------------------------------------------------------------------
(* The latest prompt, as long as none works on behind it.                   *)
Latest == Alive /\ ~agent.stray /\ agent.prompts # None

(* What was captured after `at` is of the latest prompt.                    *)
LatestFrom(at) == \A h \in net : h.at > at => h.prompt = agent.prompts

(* Nothing on its way can open the session again.                           *)
Closed ==
    /\ session.state = "review" /\ session.wait = <<>>
    /\ \A h \in net : h.at <= guard.completedAt \/ h.at <= terminal.fence \/ h.prompt \in guard.retired

(* The latest prompt has stopped for good.                                  *)
HasStopped == agent.turn = None /\ agent.ended = "stop" /\ agent.last = agent.prompts

(* The prompts that work, and those of the hooks on their way, come in order.  *)
PromptOrder ==
    /\ agent.turn \in {None, agent.prompts}
    /\ \A h \in net : h.prompt = agent.prompts => LatestFrom(h.at)

(* What is active of old is left behind when the latest prompt is heard of, and *)
(* the latest prompt is not left for an earlier one.                         *)
ForegroundOK ==
    /\ agent.prompts \in guard.background =>
          /\ guard.active = agent.prompts \/ (guard.active = None /\ ~guard.foreground)
          /\ LatestFrom(guard.completedAt)
    /\ guard.active = agent.prompts => LatestFrom(guard.activeAt)
    /\ guard.active # agent.prompts => \A h \in net : h.prompt = agent.prompts => h.at > guard.activeAt

(* A Ctrl-C that closed the latest prompt still waits for work of another one.  *)
FenceOK ==
    guard.fence # <<>> /\ guard.fence[1].scope = agent.prompts =>
        /\ guard.fence[1].awaiting /\ LatestFrom(guard.fence[1].at)
        /\ \A h \in net : h.at > guard.fence[1].at => h.event # "UserPromptSubmit"

(* A definitive Stop on its way is the last of the latest prompt's hooks.     *)
StopsLast ==
    \A h \in net : h.event = "Stop" /\ ~h.wake /\ h.prompt = agent.prompts =>
        /\ HasStopped /\ agent.prompts \notin agent.wakes
        /\ \A k \in net : k.prompt = agent.prompts => k.at <= h.at

(* The latest prompt is retired only when it is over or shut out.             *)
RetiredOK ==
    agent.prompts \in guard.retired => (agent.turn = None /\ agent.prompts \notin agent.wakes) \/ Closed

OrderOK == PromptOrder /\ ForegroundOK /\ FenceOK /\ StopsLast /\ RetiredOK

LEMMA ClosedSame ==
    ASSUME Closed, session'.state = session.state, session'.wait = session.wait, net' \subseteq net,
           guard'.completedAt = guard.completedAt, terminal'.fence = terminal.fence,
           guard'.retired = guard.retired
    PROVE  Closed'
BY DEF Closed

(* Nothing is added to what is on its way, and the guard keeps its foreground.  *)
LEMMA OrderSame ==
    ASSUME OrderOK, Settled(guard, guard'), guard'.completedAt = guard.completedAt,
           guard'.background = guard.background, net' \subseteq net,
           \/ guard'.fence = guard.fence
           \/ guard'.fence # <<>> /\ guard'.fence[1].awaiting /\ \A h \in net : ~(h.at > guard'.fence[1].at),
           agent'.prompts = agent.prompts, agent'.wakes = agent.wakes, agent'.turn \in {agent.turn, None},
           HasStopped => HasStopped', Closed => Closed'
    PROVE  OrderOK'
<1>1. PromptOrder'
  BY DEF OrderOK, PromptOrder, LatestFrom
<1>2. ForegroundOK'
  BY DEF OrderOK, ForegroundOK, LatestFrom, Settled
<1>3. FenceOK'
  BY DEF OrderOK, FenceOK, LatestFrom
<1>4. StopsLast'
  BY DEF OrderOK, StopsLast
<1>5. RetiredOK'
  BY DEF OrderOK, RetiredOK, Settled
<1> QED BY <1>1, <1>2, <1>3, <1>4, <1>5 DEF OrderOK

(* A prompt is submitted: nobody has heard of it.                            *)
LEMMA SubmitOrder ==
    ASSUME TypeInv, ~MayOmit, Alive, AliveInv, NamedInv, Submit
    PROVE  OrderOK'
<1>0. FlightOK /\ TimesOK /\ PromptsOK
  BY DEF AliveInv, NamedInv
<1> DEFINE p == agent.prompts + 1
<1>1. /\ agent'.turn = p /\ agent'.prompts = p
      /\ Captured("UserPromptSubmit", p, None, NoClass, FALSE)
  BY SubmitDoes
<1>2. guard' = guard
  BY DEF Submit
<1>3. /\ agent.prompts \in Nat /\ now \in Nat /\ guard.activeAt \in Nat
      /\ \A h \in net : h.at \in Nat /\ h.at <= now /\ h.prompt \in Nat
  BY NamedTypes
<1>4. guard.fence # <<>> => guard.fence[1].scope \in Nat
  BY NamedTypes DEF Fences
<1>5. PICK new : net' = net \cup {new} /\ new.at = now + 1 /\ new.event = "UserPromptSubmit" /\ new.prompt = p
  BY <1>1 DEF Captured
<1>6. \A h \in net : h.prompt # p
  BY <1>0, <1>3 DEF FlightOK
<1>7. /\ p \notin guard.retired /\ p \notin guard.background /\ guard.active # p
      /\ guard.fence # <<>> => guard.fence[1].scope # p
  BY <1>0, <1>3, <1>4, NamedTypes DEF PromptsOK
<1> HIDE DEF p
<1>8. \A h \in net' : h.prompt = p => h = new
  BY <1>5, <1>6
<1>9. PromptOrder'
  <2>1. \A h \in net' : ~(h.at > new.at)
    BY <1>3, <1>5
  <2> QED BY <1>1, <1>8, <2>1 DEF PromptOrder, LatestFrom
<1>10. ForegroundOK'
  <2>1. new.at > guard.activeAt
    BY <1>0, <1>3, <1>5 DEF TimesOK
  <2> QED BY <1>1, <1>2, <1>7, <1>8, <2>1 DEF ForegroundOK
<1>11. FenceOK' /\ RetiredOK'
  BY <1>1, <1>2, <1>7 DEF FenceOK, RetiredOK
<1>12. StopsLast'
  BY <1>1, <1>5, <1>8 DEF StopsLast
<1> QED BY <1>9, <1>10, <1>11, <1>12 DEF OrderOK

(* The latest prompt, which has not stopped, reports something.              *)
LEMMA CaptureOrder ==
    ASSUME TypeInv, ~MayOmit, NamedInv, Alive, OrderOK, ~HasStopped,
           guard' = guard, session' = session, terminal' = terminal,
           NEW event, NEW tool, NEW class, NEW wake, event # "UserPromptSubmit",
           Captured(event, agent.prompts, tool, class, wake),
           agent'.prompts = agent.prompts, agent'.turn \in {None, agent.prompts},
           event = "Stop" /\ ~wake => HasStopped' /\ agent.prompts \notin agent'.wakes,
           agent.turn # None \/ (agent'.turn = agent.turn /\ agent'.wakes = agent.wakes)
    PROVE  OrderOK'
<1>0. TimesOK
  BY DEF NamedInv
<1>1. now \in Nat /\ guard.activeAt \in Nat /\ \A h \in net : h.at \in Nat /\ h.at <= now
  BY NamedTypes
<1>2. PICK new : /\ net' = net \cup {new} /\ new.at = now + 1 /\ new.event = event
                 /\ new.wake = wake /\ new.prompt = agent.prompts
  BY DEF Captured
<1>3. \A at : LatestFrom(at) => LatestFrom(at)'
  BY <1>2 DEF LatestFrom
<1>4. \A h \in net' : ~(h.at > new.at)
  BY <1>1, <1>2
<1>5. PromptOrder'
  <2>1. LatestFrom(new.at)'
    BY <1>4 DEF LatestFrom
  <2>2. \A h \in net : h.prompt = agent.prompts => LatestFrom(h.at)
    BY DEF OrderOK, PromptOrder
  <2>3. \A h \in net' : h.prompt = agent.prompts => LatestFrom(h.at)'
    BY <1>2, <1>3, <2>1, <2>2
  <2> QED BY <2>3 DEF PromptOrder
<1>6. ForegroundOK'
  <2>1. new.at > guard.activeAt
    BY <1>0, <1>1, <1>2 DEF TimesOK
  <2> QED BY <1>2, <1>3, <2>1 DEF OrderOK, ForegroundOK
<1>7. FenceOK'
  BY <1>2, <1>3 DEF OrderOK, FenceOK
<1>8. StopsLast'
  <2>1. \A h \in net : ~(h.event = "Stop" /\ ~h.wake /\ h.prompt = agent.prompts)
    BY DEF OrderOK, StopsLast
  <2>2. \A k \in net' : k.at <= new.at
    BY <1>1, <1>2
  <2> QED BY <1>2, <2>1, <2>2 DEF StopsLast
<1>9. RetiredOK'
  <2>1. Closed /\ agent.prompts \in guard.retired => Closed'
    BY <1>2 DEF Closed
  <2> QED BY <2>1 DEF OrderOK, RetiredOK
<1> QED BY <1>5, <1>6, <1>7, <1>8, <1>9 DEF OrderOK

(* Background work resumes the latest prompt.                                *)
LEMMA WakeOrder ==
    ASSUME TypeInv, OrderOK, NEW prompt \in agent.wakes, Wake(prompt), prompt = agent.prompts
    PROVE  OrderOK'
<1>1. /\ agent.turn = None /\ agent'.turn = prompt /\ agent'.wakes = agent.wakes
      /\ agent'.prompts = agent.prompts /\ net' = net
  BY WakeDoes
<1>2. guard' = guard /\ session' = session /\ terminal' = terminal
  BY DEF Wake
<1>3. PromptOrder' /\ ForegroundOK' /\ FenceOK'
  BY <1>1, <1>2 DEF OrderOK, PromptOrder, ForegroundOK, FenceOK, LatestFrom
<1>4. StopsLast'
  BY <1>1 DEF OrderOK, StopsLast
<1>5. RetiredOK'
  <2>1. Closed => Closed'
    BY <1>1, <1>2 DEF Closed
  <2> QED BY <1>1, <1>2, <2>1 DEF OrderOK, RetiredOK
<1> QED BY <1>3, <1>4, <1>5 DEF OrderOK

(* Only a turn that is on is cut.                                           *)
LEMMA ActedEnding ==
    ASSUME TypeInv, Answer \/ Escape \/ CtrlC
    PROVE  \/ agent'.turn = agent.turn /\ agent'.ended = agent.ended /\ agent'.last = agent.last
           \/ agent.turn # None /\ agent'.turn = None /\ agent'.ended = "cut"
<1>1. /\ \A a \in {Granted, Denied, Unasked} :
            a.turn = agent.turn /\ a.ended = agent.ended /\ a.last = agent.last
      /\ CutTurn.turn = None /\ CutTurn.ended = "cut"
  BY DialogDoes
<1>2. \/ agent' \in {Granted, Denied, Unasked}
      \/ agent' = CutTurn /\ agent.turn # None
      \/ agent' = agent
  BY DEF Answer, Escape, CtrlC, Idle
<1> QED BY <1>1, <1>2

LEMMA UserOrder ==
    ASSUME TypeInv, Alive, AliveInv, NamedInv, OrderOK, Answer \/ Escape \/ CtrlC
    PROVE  OrderOK'
<1>0. TimesOK /\ Disjoint(guard)
  BY DEF NamedInv, ToolsOK
<1>1. /\ now' = now + 1 /\ net' = net
      /\ Kept(guard, guard', now + 1) /\ Settled(guard, guard')
      /\ \/ /\ ~CtrlC /\ guard'.fence = guard.fence /\ terminal'.fence = terminal.fence
            /\ session' = (IF NeedsInput(session) THEN Answered(session, now + 1) ELSE session)
         \/ /\ CtrlC
            /\ guard'.fence # <<>> /\ guard'.fence[1].at = now + 1 /\ guard'.fence[1].awaiting
  BY <1>0, UserDoes
<1>2. agent'.prompts = agent.prompts /\ agent'.wakes = agent.wakes
  BY ActedAgent
<1>3. \/ agent'.turn = agent.turn /\ agent'.ended = agent.ended /\ agent'.last = agent.last
      \/ agent.turn # None /\ agent'.turn = None /\ agent'.ended = "cut"
  BY ActedEnding
<1>4. HasStopped => HasStopped'
  BY <1>2, <1>3 DEF HasStopped
<1>5. ASSUME Closed PROVE Closed'
  <2>1. ~CtrlC
    BY <1>5 DEF Closed, CtrlC
  <2>2. session' = session
    BY <1>1, <1>5, <2>1 DEF Closed, NeedsInput
  <2> QED BY <1>1, <1>5, <2>1, <2>2 DEF Closed, Kept, Settled
<1>6. \/ guard'.fence = guard.fence
      \/ guard'.fence # <<>> /\ guard'.fence[1].awaiting /\ \A h \in net : ~(h.at > guard'.fence[1].at)
  <2>1. \A h \in net : ~(h.at > now + 1)
    <3>1. now \in Nat /\ \A h \in net : h.at \in Nat /\ h.at <= now
      BY NamedTypes
    <3> QED BY <3>1
  <2> QED BY <1>1, <2>1
<1> QED BY <1>1, <1>2, <1>3, <1>4, <1>5, <1>6, OrderSame DEF Kept

(* What is on its way is older than a rendered interruption, which leaves it out. *)
LEMMA CutCloses ==
    ASSUME TypeInv, session' = Cut(session), terminal'.fence = now + 1, net' \subseteq net
    PROVE  Closed'
<1>1. session'.state = "review" /\ session'.wait = <<>>
  BY CutType DEF TypeInv, ValuesOK
<1>2. \A h \in net' : h.at <= now + 1
  <2>1. now \in Nat /\ \A h \in net : h.at \in Nat /\ h.at <= now
    BY NamedTypes
  <2> QED BY <2>1
<1> QED BY <1>1, <1>2 DEF Closed

LEMMA RenderOrder ==
    ASSUME TypeInv, Alive, AliveInv, NamedInv, OrderOK, agent.prompts # None, Render
    PROVE  OrderOK'
<1>0. Disjoint(guard)
  BY DEF NamedInv, ToolsOK
<1>1. net' = net /\ agent' = agent
  BY <1>0, RenderDoes
<1>2. HasStopped => HasStopped'
  BY <1>1 DEF HasStopped
<1>3. CASE session' = session /\ guard' = guard /\ terminal'.fence = terminal.fence
  <2>1. Closed => Closed'
    BY <1>1, <1>3 DEF Closed
  <2> QED BY <1>1, <1>2, <1>3, <2>1, OrderSame DEF Settled
<1>4. CASE ~(session' = session /\ guard' = guard /\ terminal'.fence = terminal.fence)
  <2>1. /\ session' = Cut(session) /\ terminal'.fence = now + 1
        /\ guard'.completedAt = guard.completedAt /\ guard'.background = guard.background
        /\ guard'.fence = guard.fence
        /\ \/ Settled(guard, guard')
           \/ guard'.active = None /\ guard'.activeAt = 0 /\ ~guard'.foreground
    BY <1>0, <1>4, RenderDoes DEF Kept
  <2>2. Closed'
    BY <1>1, <2>1, CutCloses
  <2>3. CASE Settled(guard, guard')
    BY <1>1, <1>2, <2>1, <2>2, <2>3, OrderSame
  <2>4. CASE guard'.active = None /\ guard'.activeAt = 0 /\ ~guard'.foreground
    <3>1. PromptOrder' /\ FenceOK' /\ StopsLast'
      BY <1>1, <2>1 DEF OrderOK, PromptOrder, FenceOK, StopsLast, LatestFrom, HasStopped
    <3>2. RetiredOK'
      BY <2>2 DEF RetiredOK
    <3>3. ForegroundOK'
      <4>1. \A h \in net : h.at > 0
        BY NamedTypes
      <4>2. agent.prompts \in guard.background => LatestFrom(guard.completedAt)
        BY DEF OrderOK, ForegroundOK
      <4>3. \A at : LatestFrom(at)' <=> LatestFrom(at)
        BY <1>1 DEF LatestFrom
      <4>4. guard'.active # agent'.prompts
        BY <1>1, <2>4
      <4> QED BY <1>1, <2>1, <2>4, <4>1, <4>2, <4>3, <4>4 DEF ForegroundOK
    <3> QED BY <3>1, <3>2, <3>3 DEF OrderOK
  <2> QED BY <2>1, <2>3, <2>4
<1> QED BY <1>3, <1>4

LEMMA ClosedShut ==
    ASSUME TypeInv, Closed, NEW h \in net
    PROVE  ~Lively(h)
<1>1. h.at \in Nat /\ guard.completedAt \in Nat /\ terminal.fence \in Nat
  BY NamedTypes
<1>2. ~(h.at > guard.completedAt) \/ ~(h.at > terminal.fence) \/ h.prompt \in guard.retired
  BY <1>1 DEF Closed
<1> QED BY <1>2 DEF Lively, Accepts, Superseded

(* A hook that says nothing of the task leaves the session as it is.         *)
LEMMA DeliverUnheard ==
    ASSUME TypeInv, Alive, NEW h, Deliver(h), ~Observed(h)
    PROVE  session' = session
<1>1. CASE ~Lively(h)
  BY <1>1, NotLively
<1>2. CASE Lively(h)
  <2> DEFINE r == Reduce(session, h, Correlated(guard, h), "live")
  <2>1. session' = r.session /\ ~r.observed
    BY Zenon, <1>2, LivelyIs
  <2>2. SessionOf(session, now) /\ h \in Hooks
    BY DeliverIs DEF TypeInv, ValuesOK, TransportOK
  <2>3. ~OpensInteraction(h)
    BY <2>1, <2>2, ReduceOpens
  <2>4. session.wait # <<>>
    BY <2>1, <2>2, <2>3, ReduceIdle
  <2>5. PICK w \in Waits : session.wait = <<w>>
    BY <2>2, <2>4, SessionWait DEF SessionOf
  <2>6. r.session = session
    BY <2>1, <2>2, <2>3, <2>5, ReduceWaiting
  <2> QED BY <2>1, <2>6
<1> QED BY <1>1, <1>2

(* A hook of an earlier prompt is heard only while the latest one is not.     *)
LEMMA OlderHeard ==
    ASSUME TypeInv, OrderOK, NEW h \in net, Lively(h), agent.prompts # None, h.prompt # None,
           h.prompt # agent.prompts
    PROVE  /\ agent.prompts \notin guard.background /\ guard.active # agent.prompts
           /\ guard.fence # <<>> => guard.fence[1].scope # agent.prompts
<1>1. h.at > guard.completedAt /\ FenceAdmits(guard, h)
  BY DEF Lively, Accepts
<1>2. agent.prompts \notin guard.background
  BY <1>1 DEF OrderOK, ForegroundOK, LatestFrom
<1>3. guard.active # agent.prompts
  <2>1. SUFFICES ASSUME guard.active = agent.prompts PROVE FALSE
    OBVIOUS
  <2>2. LatestFrom(guard.activeAt)
    BY <2>1 DEF OrderOK, ForegroundOK
  <2>3. ~(h.at > guard.activeAt)
    BY <2>2 DEF LatestFrom
  <2>4. h.at <= guard.activeAt
    BY <2>3, NamedTypes
  <2>5. guard.active = None
    BY <2>1, <2>4 DEF Lively, Accepts, Superseded
  <2> QED BY <2>1, <2>5
<1>4. guard.fence # <<>> => guard.fence[1].scope # agent.prompts
  <2>1. guard.fence # <<>> => h.at > guard.fence[1].at
    BY <1>1 DEF FenceAdmits
  <2> QED BY <2>1 DEF OrderOK, FenceOK, LatestFrom
<1> QED BY <1>2, <1>3, <1>4

(* The latest prompt's own hook: it is not retired before, and no other's work   *)
(* ends the wait of a fence for it.                                         *)
LEMMA LatestHeard ==
    ASSUME TypeInv, OrderOK, NEW h \in net, Lively(h), h.prompt = agent.prompts
    PROVE  /\ agent.prompts \notin guard.retired
           /\ (guard.fence # <<>> /\ guard.fence[1].scope = agent.prompts) => FenceAfter(guard.fence, h) = guard.fence
<1>1. h.prompt \notin guard.retired /\ FenceAdmits(guard, h)
  BY DEF Lively, Accepts, Superseded
<1>2. ASSUME guard.fence # <<>>, guard.fence[1].scope = agent.prompts
      PROVE  FenceAfter(guard.fence, h) = guard.fence
  <2>1. h.at > guard.fence[1].at
    BY <1>1, <1>2 DEF FenceAdmits
  <2>2. h.event # "UserPromptSubmit"
    BY <1>2, <2>1 DEF OrderOK, FenceOK
  <2> QED BY <1>2, <2>2 DEF FenceAfter
<1> QED BY <1>1, <1>2

(* The prompts that a delivery retires.                                     *)
LEMMA RetiredBy ==
    ASSUME TypeInv, Alive, NamedInv, OrderOK, agent.prompts # None, NEW h, Deliver(h), Observed(h),
           agent.prompts \in guard'.retired
    PROVE  agent.prompts \in guard.retired \/ (h.event = "Stop" /\ ~h.wake /\ h.prompt = agent.prompts)
<1>1. /\ h \in net /\ Lively(h)
      /\ h.event # "Stop" => Worked(guard, h, guard')
      /\ h.event = "Stop" => Stopped(guard, h, guard')
  BY DeliverDoes
<1>2. guard'.retired \subseteq Took(guard, h.prompt) \cup (IF h.event = "Stop" /\ ~h.wake THEN {h.prompt} ELSE {})
  BY <1>1 DEF Worked, Stopped
<1>3. agent.prompts \notin guard.retired => agent.prompts \notin Took(guard, h.prompt)
  <2>1. h.prompt # None
    BY <1>1 DEF NamedInv, PromptsOK
  <2>2. h.prompt # agent.prompts => guard.active # agent.prompts
    BY <1>1, <2>1, OlderHeard
  <2> QED BY <2>2, TookIs
<1> QED BY <1>2, <1>3

LEMMA DeliverForeground ==
    ASSUME TypeInv, Alive, NamedInv, OrderOK, agent.prompts # None, NEW h, Deliver(h), Observed(h)
    PROVE  ForegroundOK'
<1>1. /\ h \in net /\ net' \subseteq net /\ agent' = agent /\ Lively(h)
      /\ h.event # "Stop" => Worked(guard, h, guard')
      /\ h.event = "Stop" => Stopped(guard, h, guard')
  BY DeliverDoes
<1>2. /\ h.prompt # None /\ h.at \in Nat /\ guard.activeAt \in Nat
      /\ \A k \in net : k.at \in Nat /\ k.at > 0
      /\ h.at > guard.completedAt /\ guard.completedAt \in Nat
  BY <1>1, NamedTypes DEF NamedInv, PromptsOK, Lively, Accepts
<1> DEFINE m == Max({guard.activeAt, h.at})
<1>3. m \in {guard.activeAt, h.at} /\ m >= guard.activeAt /\ m >= h.at /\ m \in Nat
  BY <1>2, MaxOfTwo
<1>4. /\ h.event # "Stop" => guard'.active = h.prompt /\ guard'.activeAt = m
                              /\ guard'.completedAt = guard.completedAt /\ guard'.background = guard.background
      /\ h.event = "Stop" => /\ guard'.active = None /\ guard'.activeAt = 0 /\ ~guard'.foreground
                             /\ guard'.completedAt = h.at
                             /\ guard'.background \subseteq guard.background \cup {h.prompt}
  BY <1>1 DEF Worked, Stopped
<1> HIDE DEF m
<1>5. CASE h.prompt = agent.prompts
  <2>1. LatestFrom(h.at)
    BY <1>1, <1>5 DEF OrderOK, PromptOrder
  <2>2. CASE h.event # "Stop"
    <3>1. LatestFrom(m)
      BY <1>2, <1>3, <2>1 DEF LatestFrom
    <3>2. agent.prompts \in guard.background => LatestFrom(guard.completedAt)
      BY DEF OrderOK, ForegroundOK
    <3> QED BY <1>1, <1>4, <1>5, <2>2, <3>1, <3>2 DEF ForegroundOK, LatestFrom
  <2>3. CASE h.event = "Stop"
    BY <1>1, <1>2, <1>4, <2>1, <2>3 DEF ForegroundOK, LatestFrom
  <2> QED BY <2>2, <2>3
<1>6. CASE h.prompt # agent.prompts
  <2>1. agent.prompts \notin guard.background /\ guard.active # agent.prompts
    BY <1>1, <1>2, <1>6, OlderHeard
  <2>2. agent.prompts \notin guard'.background
    BY <1>4, <1>6, <2>1
  <2>3. ASSUME NEW k \in net, k.prompt = agent.prompts PROVE k.at > guard.activeAt /\ k.at > h.at
    <3>1. k.at > guard.activeAt
      BY <2>1, <2>3 DEF OrderOK, ForegroundOK
    <3>2. LatestFrom(k.at)
      BY <2>3 DEF OrderOK, PromptOrder
    <3>3. ~(h.at > k.at)
      BY <1>1, <1>6, <3>2 DEF LatestFrom
    <3>4. k.at # h.at
      BY <1>1, <1>6, <2>3, NamedTypes
    <3> QED BY <1>2, <3>1, <3>3, <3>4
  <2>4. \A k \in net : k.prompt = agent.prompts => k.at > guard'.activeAt
    BY <1>2, <1>3, <1>4, <2>3
  <2> QED BY <1>1, <1>4, <1>6, <2>2, <2>4 DEF ForegroundOK
<1> QED BY <1>5, <1>6

LEMMA DeliverOrder ==
    ASSUME TypeInv, Alive, NamedInv, OrderOK, agent.prompts # None, NEW h, Deliver(h)
    PROVE  OrderOK'
<1>1. h \in net /\ net' \subseteq net /\ agent' = agent /\ terminal'.fence = terminal.fence
  BY DeliverDoes
<1>2. HasStopped => HasStopped'
  BY <1>1 DEF HasStopped
<1>3. CASE ~Observed(h)
  <2>1. /\ Settled(guard, guard') /\ guard'.completedAt = guard.completedAt
        /\ guard'.background = guard.background /\ guard'.fence = guard.fence
    BY <1>3, DeliverDoes
  <2>2. session' = session
    BY <1>3, DeliverUnheard
  <2>3. Closed => Closed'
    BY <1>1, <2>1, <2>2 DEF Closed, Settled
  <2> QED BY <1>1, <1>2, <2>1, <2>3, OrderSame
<1>4. CASE Observed(h)
  <2>1. Lively(h) /\ guard'.fence = FenceAfter(guard.fence, h) /\ h.prompt # None /\ guard.fence \in Opt(Fences)
    BY <1>1, <1>4, DeliverDoes, NamedTypes DEF NamedInv, PromptsOK, Guards
  <2>2. ~Closed
    BY <1>1, <2>1, ClosedShut
  <2>3. PromptOrder' /\ StopsLast'
    BY <1>1 DEF OrderOK, PromptOrder, StopsLast, LatestFrom, HasStopped
  <2>4. ForegroundOK'
    BY <1>4, DeliverForeground
  <2>5. FenceOK'
    <3>1. /\ guard'.fence # <<>> => guard.fence # <<>> /\ guard'.fence[1].scope = guard.fence[1].scope
      BY <2>1, FenceAfterRest
    <3>2. (guard'.fence # <<>> /\ guard'.fence[1].scope = agent.prompts) => guard'.fence = guard.fence
      BY <1>1, <2>1, <3>1, OlderHeard, LatestHeard
    <3>3. guard'.fence = guard.fence => FenceOK'
      BY <1>1 DEF OrderOK, FenceOK, LatestFrom
    <3>4. ~(guard'.fence # <<>> /\ guard'.fence[1].scope = agent'.prompts) => FenceOK'
      BY DEF FenceOK
    <3> QED BY <1>1, <3>2, <3>3, <3>4
  <2>6. RetiredOK'
    <3>1. ASSUME agent.prompts \in guard'.retired PROVE agent.turn = None /\ agent.prompts \notin agent.wakes
      <4>1. CASE agent.prompts \in guard.retired
        BY <2>2, <4>1 DEF OrderOK, RetiredOK
      <4>2. CASE h.event = "Stop" /\ ~h.wake /\ h.prompt = agent.prompts
        BY <1>1, <4>2 DEF OrderOK, StopsLast, HasStopped
      <4> QED BY <1>4, <3>1, <4>1, <4>2, RetiredBy
    <3> QED BY <1>1, <3>1 DEF RetiredOK
  <2> QED BY <2>3, <2>4, <2>5, <2>6 DEF OrderOK
<1> QED BY <1>3, <1>4

-----------------------------------------------------------------------------
(* The latest prompt's turn has come to its end.                            *)
HasEnded == agent.ended = "stop" /\ agent.last = agent.prompts

(* The Stop that will end everything when it is heard.                       *)
LastStop(h) ==
    /\ h.event = "Stop" /\ h.prompt = agent.prompts /\ agent.prompts \notin guard.retired
    /\ \A k \in net : k.at <= h.at
    /\ h.at > guard.completedAt /\ h.at > guard.activeAt /\ h.at > terminal.fence
    /\ session.wait # <<>> => h.at > session.wait[1].updatedAt

(* A turn that has stopped left no tool open, and the board knows or will.     *)
StopOK ==
    HasEnded =>
       /\ agent.turn = None
       /\ \A t \in DOMAIN agent.open : agent.open[t].prompt # agent.prompts
       /\ ~agent.blind => Closed \/ \E h \in net : LastStop(h)

LEMMA NotStopped == ASSUME ~TurnIsOver' PROVE ~HasEnded'
BY Zenon DEF TurnIsOver, HasEnded

LEMMA StopSame ==
    ASSUME StopOK, agent' = agent, Closed => Closed',
           \A h \in net : LastStop(h) => h \in net' /\ LastStop(h)'
    PROVE  StopOK'
BY DEF StopOK, HasEnded

LEMMA LastStopSame ==
    ASSUME NEW h, LastStop(h), net' \subseteq net, guard'.retired = guard.retired,
           guard'.completedAt = guard.completedAt, guard'.activeAt = guard.activeAt,
           terminal'.fence = terminal.fence, session'.wait = session.wait, agent' = agent
    PROVE  LastStop(h)'
BY DEF LastStop

LEMMA ClaudeStop ==
    ASSUME TypeInv, ~MayOmit, Alive, AliveInv, NamedInv, OrderOK, StopOK, Claude, ~agent'.stray
    PROVE  StopOK'
<1>1. CASE Submit
  BY <1>1, SubmitDoes, NotStopped DEF StopOK
<1>2. ASSUME NEW class \in {"tool", "question"}, StartTool(class) PROVE StopOK'
  <2>1. /\ agent.turn # None
        /\ agent'.ended = agent.ended /\ agent'.last = agent.last /\ agent'.prompts = agent.prompts
    BY <1>2, StartToolDoes
  <2> QED BY <2>1 DEF StopOK, HasEnded
<1>3. ASSUME NEW tool, AskPermission(tool) PROVE StopOK'
  <2>1. /\ agent.open[tool].prompt = agent.turn /\ tool \in DOMAIN agent.open
        /\ agent'.ended = agent.ended /\ agent'.last = agent.last /\ agent'.prompts = agent.prompts
    BY <1>3, AskPermissionDoes
  <2>2. agent.turn # None
    BY <2>1 DEF AliveInv, AgentOK, None
  <2> QED BY <2>1, <2>2 DEF StopOK, HasEnded
<1>4. ASSUME NEW tool, AutoDeny(tool) PROVE StopOK'
  <2>1. /\ agent.open[tool].prompt = agent.turn /\ tool \in DOMAIN agent.open
        /\ agent'.ended = agent.ended /\ agent'.last = agent.last /\ agent'.prompts = agent.prompts
    BY <1>4, AutoDenyDoes
  <2>2. agent.turn # None
    BY <2>1 DEF AliveInv, AgentOK, None
  <2> QED BY <2>1, <2>2 DEF StopOK, HasEnded
<1>5. ASSUME NEW tool, EndTool(tool) PROVE StopOK'
  <2>1. /\ tool \in DOMAIN agent.open /\ agent.open[tool].prompt = agent.prompts
        /\ agent'.ended = agent.ended /\ agent'.last = agent.last /\ agent'.prompts = agent.prompts
    BY <1>5, EndToolDoes
  <2> QED BY <2>1 DEF StopOK, HasEnded
<1>6. ASSUME NEW wake \in BOOLEAN, Stop(wake) PROVE StopOK'
  <2>1. /\ agent.turn # None
        /\ \A t \in DOMAIN agent.open : agent.open[t].prompt # agent.turn
        /\ agent'.turn = None /\ agent'.open = agent.open /\ agent'.prompts = agent.prompts
        /\ Captured("Stop", agent.turn, None, NoClass, wake)
    BY <1>6, StopDoes
  <2>2. agent.turn = agent.prompts
    BY <2>1 DEF OrderOK, PromptOrder
  <2>3. PICK new : /\ net' = net \cup {new} /\ new.at = now + 1 /\ new.event = "Stop"
                   /\ new.prompt = agent.prompts
    BY <2>1, <2>2 DEF Captured
  <2>4. guard' = guard /\ session' = session /\ terminal' = terminal
    BY <1>6 DEF Stop
  <2>5. CASE agent.prompts \in guard.retired
    <3>1. Closed
      BY <2>1, <2>5 DEF OrderOK, RetiredOK
    <3>2. Closed'
      BY <2>3, <2>4, <2>5, <3>1 DEF Closed
    <3> QED BY <2>1, <2>2, <3>2 DEF StopOK
  <2>6. CASE agent.prompts \notin guard.retired
    <3>1. now \in Nat /\ \A h \in net : h.at \in Nat /\ h.at <= now
      BY NamedTypes
    <3>2. new.at > guard.completedAt /\ new.at > guard.activeAt /\ new.at > terminal.fence
      BY <2>3, <3>1, NamedTypes DEF NamedInv, TimesOK
    <3>3. session.wait # <<>> => new.at > session.wait[1].updatedAt
      <4>1. session.wait # <<>> => session.wait[1].updatedAt \in Nat /\ session.wait[1].updatedAt <= now
        BY SessionWait DEF AliveInv, SessionTimes, WaitTimes, TypeInv, ValuesOK, SessionOf, Waits
      <4> QED BY <2>3, <3>1, <4>1
    <3>4. \A k \in net' : k.at <= new.at
      BY <2>3, <3>1
    <3>5. LastStop(new)'
      BY <2>1, <2>3, <2>4, <2>6, <3>2, <3>3, <3>4 DEF LastStop
    <3> QED BY <2>1, <2>2, <2>3, <3>5 DEF StopOK
  <2> QED BY <2>5, <2>6
<1>7. ASSUME NEW prompt \in agent.wakes, Wake(prompt) PROVE StopOK'
  BY <1>7, WakeDoes, NotStopped DEF StopOK
<1> QED BY Zenon, <1>1, <1>2, <1>3, <1>4, <1>5, <1>6, <1>7 DEF Claude

LEMMA UserStop ==
    ASSUME TypeInv, Alive, AliveInv, NamedInv, OrderOK, StopOK, Answer \/ Escape \/ CtrlC
    PROVE  StopOK'
<1>1. /\ agent'.prompts = agent.prompts
      /\ DOMAIN agent'.open \subseteq DOMAIN agent.open
      /\ \A t \in DOMAIN agent'.open : agent'.open[t] = agent.open[t]
      /\ agent' = agent \/ agent'.blind = Blind
  BY ActedAgent
<1>2. SUFFICES ASSUME HasEnded' PROVE StopOK'
  BY DEF StopOK
<1>3. agent'.turn = agent.turn /\ agent'.ended = agent.ended /\ agent'.last = agent.last
  BY <1>2, ActedEnding DEF HasEnded
<1>4. HasEnded /\ agent.turn = None
  BY <1>1, <1>2, <1>3 DEF HasEnded, StopOK
<1>5. ~Escape
  BY <1>4 DEF Escape, Idle
<1>6. CASE CtrlC
  <2>1. session' = Cut(session) /\ terminal'.fence = now + 1 /\ net' = net
    BY <1>6 DEF CtrlC, TypeInv, ValuesOK, Terminals
  <2>2. Closed'
    BY <2>1, CutCloses
  <2> QED BY <1>1, <1>3, <1>4, <2>2 DEF StopOK
<1>7. CASE Answer
  <2>1. agent.asking = None
    BY <1>4 DEF AliveInv, AgentOK
  <2>2. agent' = Unasked /\ NeedsInput(session)
    BY <1>7, <2>1 DEF Answer
  <2>3. Blind
    BY <2>1, <2>2 DEF Blind, NeedsInput
  <2>4. agent'.blind
    BY <2>2, <2>3, DialogDoes DEF Dealt
  <2> QED BY <1>1, <1>3, <1>4, <2>4 DEF StopOK
<1> QED BY <1>5, <1>6, <1>7

(* The last Stop is heard when it comes ...                                 *)
LEMMA LastStopHeard ==
    ASSUME TypeInv, Alive, AliveInv, NamedInv, OrderOK, agent.prompts # None, NEW h \in net, LastStop(h)
    PROVE  Lively(h)
<1>1. h.at \notin guard.delivered
  BY DEF TypeInv, JudgedOK, Apart
<1>2. FenceAdmits(guard, h)
  <2>1. SUFFICES ASSUME guard.fence # <<>> PROVE FenceAdmits(guard, h)
    BY DEF FenceAdmits
  <2>2. h.at > guard.fence[1].at
    <3>1. h.at \in Nat /\ terminal.fence \in Nat /\ guard.fence[1].at \in Nat
      BY <2>1, NamedTypes DEF Fences
    <3>2. guard.fence[1].at <= terminal.fence /\ h.at > terminal.fence
      BY <2>1 DEF NamedInv, TimesOK, LastStop
    <3> QED BY <3>1, <3>2
  <2>3. h.prompt = guard.fence[1].scope => guard.fence[1].awaiting
    BY <2>1 DEF OrderOK, FenceOK, LastStop
  <2> QED BY <2>2, <2>3 DEF FenceAdmits, LastStop
<1>3. h.at > guard.completedAt /\ h.at > terminal.fence
  BY DEF LastStop
<1>4. ~Superseded(guard, h)
  <2>1. ~(h.at <= guard.activeAt)
    BY NamedTypes DEF LastStop
  <2>2. ~(h.prompt \in guard.background /\ guard.foreground /\ h.prompt # guard.active)
    BY DEF OrderOK, ForegroundOK, LastStop
  <2> QED BY <2>1, <2>2 DEF Superseded, LastStop
<1>5. ~OpensInteraction(h)
  BY DEF OpensInteraction, LastStop
<1>6. ~ToolIsDone(guard, h)
  <2>1. h.tool = None
    BY DEF LastStop, AliveInv, FlightOK
  <2>2. None \notin DOMAIN guard.completed
    BY NamedTypes, IsMap DEF ToolMaps, None
  <2> QED BY <2>1, <2>2 DEF ToolIsDone, LastStop, ToolEnds
<1>7. ~(guard.awaiting /\ h.prompt = None /\ h.event \notin {"UserPromptSubmit", "Stop"})
  BY DEF LastStop
<1> QED BY <1>1, <1>2, <1>3, <1>4, <1>5, <1>6, <1>7 DEF Lively, Accepts

(* ... and makes it Review.                                                 *)
LEMMA StopFinishes ==
    ASSUME NEW n, NEW s, SessionOf(s, n), NEW h \in Hooks, h.event = "Stop", NEW tool,
           s.wait # <<>> => h.at > s.wait[1].updatedAt,
           NEW r, r = Reduce(s, h, tool, "live")
    PROVE  r.session.state = "review" /\ r.session.wait = <<>> /\ r.observed
<1>1. ~OpensInteraction(h)
  BY DEF OpensInteraction
<1>2. CASE s.wait = <<>>
  BY <1>1, <1>2, ReduceIdle
<1>3. CASE s.wait # <<>>
  <2>1. PICK w \in Waits : s.wait = <<w>>
    BY <1>3, SessionWait DEF SessionOf
  <2>2. CompletesWait(w, h)
    BY <1>3, <2>1 DEF CompletesWait, Follows
  <2> QED BY <1>1, <2>1, <2>2, ReduceWaiting
<1> QED BY <1>2, <1>3

LEMMA DeliverLastStop ==
    ASSUME TypeInv, Alive, AliveInv, NamedInv, OrderOK, agent.prompts # None,
           NEW h, Deliver(h), LastStop(h)
    PROVE  Closed'
<1>1. h \in net /\ h \in Hooks /\ net' \subseteq net /\ SessionOf(session, now)
  BY DeliverDoes DEF TypeInv, ValuesOK
<1>2. Lively(h)
  BY <1>1, LastStopHeard
<1>3. session' = Judgement(h).session /\ Observed(h) = Judgement(h).observed
      /\ Judgement(h) = Reduce(session, h, Correlated(guard, h), "live")
  BY <1>2, LivelyIs
<1>4. session'.state = "review" /\ session'.wait = <<>> /\ Observed(h)
  <2>1. h.event = "Stop" /\ (session.wait # <<>> => h.at > session.wait[1].updatedAt)
    BY DEF LastStop
  <2> DEFINE r == Judgement(h)
  <2>2. r.session.state = "review" /\ r.session.wait = <<>> /\ r.observed
    BY <1>1, <1>3, <2>1, StopFinishes
  <2> QED BY <1>3, <2>2
<1>5. guard'.completedAt = h.at
  BY <1>4, DeliverDoes DEF LastStop, Stopped
<1> QED BY <1>1, <1>4, <1>5 DEF Closed, LastStop

LEMMA OtherBeforeStop ==
    ASSUME TypeInv, Alive, AliveInv, NamedInv, OrderOK, agent.prompts # None,
           NEW h, Deliver(h), NEW s \in net, LastStop(s), s # h
    PROVE  LastStop(s)'
<1>1. /\ h \in net /\ net' \subseteq net /\ agent' = agent /\ terminal'.fence = terminal.fence
      /\ ~Observed(h) => Settled(guard, guard') /\ guard'.completedAt = guard.completedAt
      /\ Observed(h) => /\ h.event # "Stop" => Worked(guard, h, guard')
                        /\ h.event = "Stop" => Stopped(guard, h, guard')
  BY DeliverDoes
<1>2. /\ s.at \in Nat /\ h.at \in Nat /\ s.at > 0 /\ guard.activeAt \in Nat /\ s.at # h.at
      /\ h.at <= s.at
  BY <1>1, NamedTypes DEF LastStop
<1>3. h.at < s.at
  BY <1>2
<1>4. guard'.completedAt \in {guard.completedAt, h.at}
  BY <1>1 DEF Worked, Stopped
<1>5. guard'.activeAt \in {guard.activeAt, h.at, 0}
  BY <1>1, <1>2, MaxOfTwo DEF Settled, Worked, Stopped
<1>6. s.at > guard'.completedAt /\ s.at > guard'.activeAt
  BY <1>2, <1>3, <1>4, <1>5 DEF LastStop
<1>7. agent.prompts \notin guard'.retired
  <2>1. ~(h.event = "Stop" /\ ~h.wake /\ h.prompt = agent.prompts)
    BY <1>1, <1>2, <1>3 DEF OrderOK, StopsLast, LastStop
  <2> QED BY <1>1, <2>1, RetiredBy DEF LastStop, Settled
<1>8. session'.wait # <<>> => s.at > session'.wait[1].updatedAt
  <2> DEFINE n == s.at - 1
  <2>1. n \in Nat /\ h.at <= n
    BY <1>2, <1>3
  <2>2. session.wait # <<>> => session.wait[1] \in Waits /\ WaitTimes(session.wait[1], now)
    BY SessionWait DEF AliveInv, SessionTimes, TypeInv, ValuesOK, SessionOf
  <2>3. session.wait # <<>> => WaitTimes(session.wait[1], n) /\ session.wait[1].openedAt <= n
    <3>1. SUFFICES ASSUME session.wait # <<>>
                   PROVE  WaitTimes(session.wait[1], n) /\ session.wait[1].openedAt <= n
      OBVIOUS
    <3>2. session.wait[1].openedAt \in Nat /\ session.wait[1].updatedAt \in Nat
      BY <2>2, <3>1 DEF Waits
    <3>3. s.at > session.wait[1].updatedAt /\ session.wait[1].openedAt <= session.wait[1].updatedAt
      BY <2>2, <3>1 DEF LastStop, WaitTimes
    <3> QED BY <1>2, <3>2, <3>3 DEF WaitTimes
  <2>4. SessionOf(session, n)
    BY Zenon, <2>3 DEF TypeInv, ValuesOK, SessionOf
  <2>5. SessionTimes(session, n)
    BY <2>3 DEF SessionTimes
  <2> HIDE DEF n
  <2>6. SessionTimes(session', n)
    BY <2>1, <2>4, <2>5, DeliverTimes
  <2>7. session'.wait # <<>> => session'.wait[1].updatedAt \in Nat
    <3>1. SessionOf(session', now)
      BY <1>1, DeliverIs, DeliveredType DEF TypeInv, ValuesOK
    <3> QED BY <3>1, SessionWait DEF SessionOf, Waits
  <2> QED BY <1>2, <2>6, <2>7 DEF SessionTimes, WaitTimes, n
<1> QED BY <1>1, <1>6, <1>7, <1>8 DEF LastStop

LEMMA DeliverStop ==
    ASSUME TypeInv, Alive, AliveInv, NamedInv, OrderOK, StopOK, agent.prompts # None,
           NEW h, Deliver(h)
    PROVE  StopOK'
<1>1. h \in net /\ net' = net \ {h} /\ agent' = agent /\ terminal'.fence = terminal.fence
  BY DeliverDoes
<1>2. ASSUME Closed PROVE Closed'
  <2>1. ~Lively(h)
    BY <1>1, <1>2, ClosedShut
  <2>2. ~Observed(h) /\ session' = session
    BY <2>1, NotLively
  <2>3. Settled(guard, guard') /\ guard'.completedAt = guard.completedAt
    BY <2>2, DeliverDoes
  <2> QED BY <1>1, <1>2, <2>2, <2>3 DEF Closed, Settled
<1>3. LastStop(h) => Closed'
  BY DeliverLastStop
<1>4. \A s \in net : LastStop(s) /\ s # h => s \in net' /\ LastStop(s)'
  BY <1>1, OtherBeforeStop
<1> QED BY <1>1, <1>2, <1>3, <1>4 DEF StopOK, HasEnded

-----------------------------------------------------------------------------
(* When the dialog was opened that Claude shows.                            *)
AskedAt == agent.open[agent.asking].asked

(* Nothing that came after it ends a turn, begins one or asks for another.    *)
AskTimes ==
    /\ AskedAt \in 1 .. now
    /\ guard.submittedAt < AskedAt /\ terminal.fence < AskedAt /\ guard.completedAt < AskedAt
    /\ \A h \in net : /\ h.at > AskedAt => h.event = "PostToolUse" /\ h.prompt = agent.prompts
                      /\ h.at = AskedAt => OpensInteraction(h)

(* The request for the dialog is on its way, the only one ...                *)
IsRequested ==
    /\ session.wait = <<>>
    /\ \E d \in net : /\ d.at = AskedAt /\ OpensInteraction(d) /\ d.prompt = agent.prompts
                      /\ d.event = "PreToolUse" => d.tool = agent.asking
                      /\ \A h \in net : OpensInteraction(h) => h = d

(* ... or its wait is shown.                                                *)
IsWaitedFor ==
    /\ NeedsInput(session) /\ session.wait[1].openedAt = AskedAt
    /\ session.wait[1].prompt = agent.prompts
    /\ \A h \in net : ~OpensInteraction(h) /\ h.at # AskedAt

(* The dialog is one that the board is asked to show.                        *)
Counts == ~Fenced /\ ~TurnIsClosed /\ ~agent.blind /\ ~DoneSinceAsked

AskOK == agent.asking # None => AskTimes /\ (Counts => IsRequested \/ IsWaitedFor)

(* A dialog opens.                                                          *)
LEMMA AskBegun ==
    ASSUME TypeInv, ~MayOmit, Alive, NamedInv, agent.asking = None,
           guard' = guard, session' = session, terminal' = terminal,
           NEW event, NEW tool, NEW class, NEW wake, Captured(event, agent.prompts, tool, class, wake),
           agent'.prompts = agent.prompts, AskedAt' = now + 1, agent'.blind = Blind,
           event = "PermissionRequest" \/ (event = "PreToolUse" /\ class = "question"),
           event = "PreToolUse" => tool = agent'.asking
    PROVE  AskOK'
<1>1. PICK new : /\ net' = net \cup {new} /\ new.at = now + 1 /\ new.event = event /\ new.tool = tool
                 /\ new.class = class /\ new.prompt = agent.prompts /\ now' = now + 1
  BY DEF Captured
<1>2. now \in Nat /\ \A h \in net : h.at \in Nat /\ h.at <= now
  BY NamedTypes
<1>3. OpensInteraction(new)
  BY <1>1 DEF OpensInteraction
<1>4. AskTimes'
  <2>1. AskedAt' \in 1 .. now'
    BY <1>1, <1>2
  <2>2. guard.submittedAt < now + 1 /\ terminal.fence < now + 1 /\ guard.completedAt < now + 1
    BY NamedTypes DEF NamedInv, TimesOK
  <2>3. \A h \in net' : ~(h.at > now + 1) /\ (h.at = now + 1 => h = new)
    BY <1>1, <1>2
  <2> QED BY <1>3, <2>1, <2>2, <2>3 DEF AskTimes
<1>5. ASSUME Counts' PROVE IsRequested'
  <2>1. ~Blind
    BY <1>5 DEF Counts
  <2>2. session.wait = <<>> /\ \A h \in net : ~OpensInteraction(h)
    BY <2>1 DEF Blind
  <2> QED BY <1>1, <1>3, <2>2 DEF IsRequested
<1> QED BY <1>4, <1>5 DEF AskOK

(* A tool that Claude does not ask about is done.                            *)
LEMMA EndToolAsk ==
    ASSUME TypeInv, ~MayOmit, Alive, AliveInv, AskOK, NEW tool, EndTool(tool), ~agent'.stray
    PROVE  AskOK'
<1>1. /\ tool \in DOMAIN agent.open /\ agent.asking # tool
      /\ agent'.open = Without(tool) /\ agent.open[tool].prompt = agent.prompts
      /\ agent'.asking = agent.asking /\ agent'.blind = agent.blind /\ agent'.turn = agent.turn
      /\ agent'.prompts = agent.prompts
      /\ Captured("PostToolUse", agent.open[tool].prompt, tool, agent.open[tool].class, FALSE)
  BY EndToolDoes
<1>2. guard' = guard /\ session' = session /\ terminal' = terminal
  BY DEF EndTool
<1>3. CASE agent.asking = None
  BY <1>1, <1>3 DEF AskOK
<1>4. CASE agent.asking # None
  <2>1. agent.asking \in DOMAIN agent.open
    BY <1>4 DEF AliveInv, AgentOK
  <2>2. AskedAt' = AskedAt
    <3>1. Without(tool)[agent.asking] = agent.open[agent.asking]
      <4>1. agent.asking \in DOMAIN agent.open \ {tool}
        BY <1>1, <2>1
      <4> QED BY <4>1, WithoutIs
    <3>2. agent'.open[agent'.asking] = agent.open[agent.asking]
      BY <1>1, <3>1
    <3> QED BY <3>2 DEF AskedAt
  <2>3. AskTimes /\ (Counts => IsRequested \/ IsWaitedFor)
    BY <1>4 DEF AskOK
  <2>4. PICK new : /\ net' = net \cup {new} /\ new.at = now + 1 /\ new.event = "PostToolUse"
                   /\ new.prompt = agent.prompts /\ now' = now + 1
    BY <1>1 DEF Captured
  <2>5. now \in Nat /\ AskedAt \in Nat /\ AskedAt <= now /\ AskedAt >= 1
    BY <2>3, NamedTypes DEF AskTimes
  <2>6. ~OpensInteraction(new) /\ new.at # AskedAt
    BY <2>4, <2>5 DEF OpensInteraction
  <2>7. AskTimes'
    <3>1. AskedAt \in 1 .. now'
      BY <2>4, <2>5
    <3> QED BY <1>1, <1>2, <2>2, <2>3, <2>4, <2>6, <3>1 DEF AskTimes
  <2>8. Counts' => Counts
    BY <1>1, <1>2, <2>2 DEF Counts, Fenced, TurnIsClosed, DoneSinceAsked, AskedAt
  <2>9. IsRequested => IsRequested'
    BY <1>1, <1>2, <2>2, <2>4, <2>6 DEF IsRequested
  <2>10. IsWaitedFor => IsWaitedFor'
    BY <1>1, <1>2, <2>2, <2>4, <2>6 DEF IsWaitedFor
  <2> QED BY <2>3, <2>7, <2>8, <2>9, <2>10 DEF AskOK
<1> QED BY <1>3, <1>4

LEMMA ClaudeAsk ==
    ASSUME TypeInv, ~MayOmit, Alive, AliveInv, NamedInv, OrderOK, AskOK, Claude, ~agent'.stray
    PROVE  AskOK'
<1>0. agent.turn = None => agent.asking = None
  BY DEF AliveInv, AgentOK
<1>1. CASE Submit
  BY <1>0, <1>1, SubmitDoes DEF AskOK
<1>2. ASSUME NEW class \in {"tool", "question"}, StartTool(class) PROVE AskOK'
  <2>1. LET tool == agent.tools + 1
        IN  /\ agent.turn # None /\ agent.asking = None
            /\ agent'.open[tool].asked = (IF class = "question" THEN now + 1 ELSE 0)
            /\ agent'.asking = (IF class = "question" THEN tool ELSE None)
            /\ agent'.blind = (IF class = "question" THEN Blind ELSE agent.blind)
            /\ agent'.prompts = agent.prompts
            /\ Captured("PreToolUse", agent.turn, tool, class, FALSE)
    BY <1>2, StartToolDoes
  <2>2. agent.turn = agent.prompts
    BY <2>1 DEF OrderOK, PromptOrder
  <2>3. guard' = guard /\ session' = session /\ terminal' = terminal
    BY <1>2 DEF StartTool
  <2>4. CASE class = "tool"
    BY <2>1, <2>4 DEF AskOK
  <2>5. CASE class = "question"
    <3> DEFINE tool == agent.tools + 1
    <3>1. /\ agent'.asking = tool /\ AskedAt' = now + 1 /\ agent'.blind = Blind
          /\ Captured("PreToolUse", agent.prompts, tool, class, FALSE)
      BY <2>1, <2>2, <2>5 DEF AskedAt
    <3> HIDE DEF tool
    <3> QED BY Zenon, <2>1, <2>3, <2>5, <3>1, AskBegun
  <2> QED BY <2>4, <2>5
<1>3. ASSUME NEW tool, AskPermission(tool) PROVE AskOK'
  <2>1. /\ agent.asking = None /\ tool \in DOMAIN agent.open /\ agent.open[tool].prompt = agent.turn
        /\ agent'.open[tool].asked = now + 1
        /\ agent'.asking = tool /\ agent'.blind = Blind /\ agent'.prompts = agent.prompts
        /\ Captured("PermissionRequest", agent.turn, None, "tool", FALSE)
    BY <1>3, AskPermissionDoes
  <2>2. agent.turn # None
    BY <2>1 DEF AliveInv, AgentOK, None
  <2>3. agent.turn = agent.prompts
    BY <2>2 DEF OrderOK, PromptOrder
  <2>4. guard' = guard /\ session' = session /\ terminal' = terminal
    BY <1>3 DEF AskPermission
  <2>5. AskedAt' = now + 1 /\ Captured("PermissionRequest", agent.prompts, None, "tool", FALSE)
    BY <2>1, <2>3 DEF AskedAt
  <2>6. "PermissionRequest" # "PreToolUse"
    OBVIOUS
  <2> QED BY Zenon, <2>1, <2>4, <2>5, <2>6, AskBegun
<1>4. ASSUME NEW tool, AutoDeny(tool) PROVE AskOK'
  BY <1>4, AutoDenyDoes DEF AskOK
<1>5. ASSUME NEW tool, EndTool(tool) PROVE AskOK'
  BY <1>5, EndToolAsk
<1>6. ASSUME NEW wake \in BOOLEAN, Stop(wake) PROVE AskOK'
  BY <1>6, StopDoes DEF AskOK
<1>7. ASSUME NEW prompt \in agent.wakes, Wake(prompt) PROVE AskOK'
  BY <1>0, <1>7, WakeDoes DEF AskOK
<1> QED BY Zenon, <1>1, <1>2, <1>3, <1>4, <1>5, <1>6, <1>7 DEF Claude

(* Nothing that asks is lost, and the guard stays as it is.                  *)
LEMMA AskSame ==
    ASSUME AskOK, agent' = agent, now' = now, net' \subseteq net,
           \A h \in net : OpensInteraction(h) => h \in net',
           guard' = guard, terminal'.fence = terminal.fence, session'.wait = session.wait
    PROVE  AskOK'
<1>1. AskedAt' = AskedAt
  BY DEF AskedAt
<1>2. AskTimes => AskTimes'
  BY <1>1 DEF AskTimes
<1>3. Counts' => Counts
  BY <1>1 DEF Counts, Fenced, TurnIsClosed, DoneSinceAsked, AskedAt
<1>4. IsRequested => IsRequested'
  BY <1>1 DEF IsRequested
<1>5. IsWaitedFor => IsWaitedFor'
  BY <1>1 DEF IsWaitedFor, NeedsInput
<1> QED BY <1>2, <1>3, <1>4, <1>5 DEF AskOK

(* A delivery takes back nothing that keeps a dialog from counting.           *)
LEMMA CountsBefore ==
    ASSUME TypeInv, Alive, NamedInv, NEW h, Deliver(h), Counts'
    PROVE  Counts
<1>1. /\ agent' = agent /\ Moves(guard, guard', {h.tool}, h.at)
      /\ ~Observed(h) => Settled(guard, guard') /\ guard'.fence = guard.fence
      /\ Observed(h) => /\ guard'.fence = FenceAfter(guard.fence, h)
                        /\ h.event # "Stop" => Worked(guard, h, guard')
                        /\ h.event = "Stop" => Stopped(guard, h, guard')
  BY DeliverDoes
<1>2. guard.fence \in Opt(Fences)
  BY NamedTypes DEF Guards
<1>3. Fenced => Fenced'
  <2>1. CASE ~Observed(h)
    BY <1>1, <2>1 DEF Fenced
  <2>2. CASE Observed(h)
    <3>1. /\ guard'.fence = <<>> <=> guard.fence = <<>>
          /\ guard.fence # <<>> => guard'.fence[1].scope = guard.fence[1].scope
      BY <1>1, <1>2, <2>2, FenceAfterRest
    <3> QED BY <1>1, <3>1 DEF Fenced
  <2> QED BY <2>1, <2>2
<1>4. TurnIsClosed => TurnIsClosed'
  <2>1. guard.retired \subseteq guard'.retired
    BY <1>1, TookIs DEF Settled, Worked, Stopped
  <2> QED BY <1>1, <2>1 DEF TurnIsClosed
<1>5. DoneSinceAsked => DoneSinceAsked'
  <2>1. ASSUME NEW t \in DOMAIN guard.completed
        PROVE  t \in DOMAIN guard'.completed /\ guard'.completed[t].at = guard.completed[t].at
    BY <1>1 DEF Moves
  <2> QED BY <1>1, <2>1 DEF DoneSinceAsked
<1> QED BY <1>1, <1>3, <1>4, <1>5 DEF Counts

LEMMA DeliverAskTimes ==
    ASSUME TypeInv, Alive, NamedInv, AskTimes, NEW h, Deliver(h)
    PROVE  AskTimes'
<1>1. /\ h \in net /\ net' \subseteq net /\ now' = now /\ agent' = agent
      /\ terminal'.fence = terminal.fence /\ guard'.submittedAt = guard.submittedAt
      /\ ~Observed(h) => guard'.completedAt = guard.completedAt
      /\ Observed(h) => /\ h.event # "Stop" => Worked(guard, h, guard')
                        /\ h.event = "Stop" => Stopped(guard, h, guard')
  BY DeliverDoes
<1>2. guard'.completedAt = guard.completedAt \/ (h.event = "Stop" /\ guard'.completedAt = h.at)
  BY <1>1 DEF Worked, Stopped
<1>3. ASSUME h.event = "Stop" PROVE h.at < AskedAt
  <2>1. h.at \in Nat /\ AskedAt \in Int
    BY <1>1, NamedTypes DEF AskTimes
  <2>2. ~(h.at > AskedAt) /\ h.at # AskedAt
    BY <1>1, <1>3 DEF AskTimes, OpensInteraction
  <2> QED BY <2>1, <2>2
<1>4. guard'.completedAt < AskedAt
  BY <1>2, <1>3 DEF AskTimes
<1>5. AskedAt' = AskedAt
  BY <1>1 DEF AskedAt
<1> QED BY <1>1, <1>4, <1>5 DEF AskTimes

(* The completion of a tool is remembered with the time of its hook.          *)
LEMMA CommittedDone ==
    ASSUME NEW g \in Guards, NEW h \in Hooks, h.event \in Completions
    PROVE  LET k == Committed(g, h, TRUE)
           IN  h.tool \in DOMAIN k.completed /\ k.completed[h.tool].at = h.at
<1> DEFINE m == Moved(g, h)
           e == AfterSubmit(m, h)
           f == AfterPrompt(e, h)
           t == AfterTool(f, h)
<1>1. h.event # "Stop"
  BY DEF Completions
<1>2. Committed(g, h, TRUE) = t
  <2>1. Committed(g, h, TRUE) = AfterStop(t, h)
    BY Zenon, CommittedIs
  <2> QED BY <1>1, <2>1 DEF AfterStop
<1>3. m \in Guards
  BY HeardType
<1> HIDE DEF m
<1>4. e \in Guards
  BY <1>3, AfterSubmitType
<1> HIDE DEF e
<1>5. f \in Guards
  BY <1>4, AfterPromptType
<1> HIDE DEF f
<1> DEFINE prompt == IF h.tool \in DOMAIN f.pending /\ f.pending[h.tool].prompt # None
                     THEN f.pending[h.tool].prompt ELSE h.prompt
           done == [prompt |-> prompt, class |-> h.class, at |-> h.at]
           left == Restrict(f.pending, DOMAIN f.pending \ {h.tool})
           next == Put(f.completed, h.tool, done)
<1>6. t = [f EXCEPT !.pending = left, !.completed = next]
  BY DEF AfterTool, Completions
<1> HIDE DEF prompt
<1>7. done.at = h.at
  OBVIOUS
<1> HIDE DEF done
<1>8. h.tool \in DOMAIN next /\ next[h.tool] = done
  BY DEF Put
<1> HIDE DEF left, next
<1>9. t.completed = next
  BY <1>5, <1>6 DEF Guards
<1> QED BY <1>2, <1>7, <1>8, <1>9

(* The request for the dialog that Claude shows is heard when it comes ...     *)
LEMMA RequestHeard ==
    ASSUME TypeInv, Alive, AliveInv, NamedInv, OrderOK, agent.asking # None, AskTimes, Counts,
           NEW d \in net, d.at = AskedAt, OpensInteraction(d), d.prompt = agent.prompts,
           d.event = "PreToolUse" => d.tool = agent.asking
    PROVE  Lively(d)
<1>1. /\ agent.asking \in DOMAIN agent.open /\ agent.turn = agent.prompts
      /\ d.prompt # None /\ d.event # "Stop"
  <2>1. agent.asking \in DOMAIN agent.open /\ agent.turn # None
    BY DEF AliveInv, AgentOK
  <2> QED BY <2>1 DEF OrderOK, PromptOrder, NamedInv, PromptsOK, OpensInteraction
<1>2. d.tool \notin DOMAIN guard.completed
  <2>1. CASE d.event = "PreToolUse"
    BY <1>1, <2>1 DEF NamedInv, ToolsOK
  <2>2. CASE d.event # "PreToolUse"
    <3>1. d.tool = None
      BY <2>2 DEF OpensInteraction, AliveInv, FlightOK
    <3>2. None \notin DOMAIN guard.completed
      BY NamedTypes, IsMap DEF ToolMaps, None
    <3> QED BY <3>1, <3>2
  <2> QED BY <2>1, <2>2
<1>3. d.at \notin guard.delivered
  BY DEF TypeInv, JudgedOK, Apart
<1>4. FenceAdmits(guard, d)
  <2>1. SUFFICES ASSUME guard.fence # <<>> PROVE FenceAdmits(guard, d)
    BY DEF FenceAdmits
  <2>2. d.at > guard.fence[1].at
    <3>1. d.at \in Nat /\ terminal.fence \in Nat /\ guard.fence[1].at \in Nat
      BY <2>1, NamedTypes DEF Fences
    <3>2. guard.fence[1].at <= terminal.fence /\ terminal.fence < d.at
      BY <2>1 DEF NamedInv, TimesOK, AskTimes
    <3> QED BY <3>1, <3>2
  <2>3. d.tool \notin guard.fence[1].tools
    BY <1>2, <2>1 DEF NamedInv, ToolsOK
  <2>4. d.prompt # guard.fence[1].scope
    BY <1>1, <2>1 DEF Counts, Fenced
  <2> QED BY <1>1, <2>2, <2>3, <2>4 DEF FenceAdmits
<1>5. d.at > guard.completedAt /\ d.at > terminal.fence /\ ~(d.at < guard.submittedAt)
  BY NamedTypes DEF AskTimes
<1>6. ~Superseded(guard, d)
  <2>1. d.prompt \notin guard.retired
    BY <1>1 DEF Counts, TurnIsClosed
  <2>2. ~(d.prompt \in guard.background /\ guard.foreground /\ d.prompt # guard.active)
    BY <1>1 DEF OrderOK, ForegroundOK
  <2>3. d.prompt # guard.active => ~(d.at <= guard.activeAt)
    BY <1>1, NamedTypes DEF OrderOK, ForegroundOK
  <2> QED BY <1>1, <2>1, <2>2, <2>3 DEF Superseded
<1>7. ~ToolIsDone(guard, d)
  <2>1. ASSUME NEW t \in DOMAIN guard.completed PROVE ~(guard.completed[t].at >= d.at)
    <3>1. guard.completed[t].at \in Nat /\ d.at \in Nat
      BY NamedTypes, MapElement DEF Seen
    <3>2. guard.completed[t].at # d.at
      BY DEF NamedInv, ToolsOK, SeenOK
    <3>3. ~(guard.completed[t].at > d.at)
      BY DEF Counts, DoneSinceAsked, AskedAt
    <3> QED BY <3>1, <3>2, <3>3
  <2> QED BY <1>1, <1>2, <2>1 DEF ToolIsDone
<1> QED BY <1>1, <1>3, <1>4, <1>5, <1>6, <1>7 DEF Lively, Accepts

(* ... and opens its wait.                                                  *)
LEMMA RequestShown ==
    ASSUME TypeInv, Alive, NEW d, Deliver(d), Lively(d), d.at = AskedAt, OpensInteraction(d),
           d.prompt = agent.prompts, session.wait = <<>>, \A h \in net : OpensInteraction(h) => h = d
    PROVE  IsWaitedFor'
<1> DEFINE tool == Correlated(guard, d)
           r == Reduce(session, d, tool, "live")
           w == Opened(d, tool)
<1>1. session' = r.session /\ d \in net /\ net' = net \ {d} /\ agent' = agent
  BY Zenon, LivelyIs, DeliverIs
<1>2. SessionOf(session, now)
  BY DEF TypeInv, ValuesOK
<1> HIDE DEF tool
<1>3. r.session.wait = <<Shown(session, d, tool)>>
  BY <1>2, ReduceOpens
<1>4. Shown(session, d, tool) = w
  BY DEF Shown
<1> HIDE DEF r
<1>5. w.status = "waiting" /\ w.openedAt = d.at /\ w.prompt = d.prompt
  BY Zenon DEF Opened
<1> HIDE DEF w
<1>6. session'.wait = <<w>>
  BY <1>1, <1>3, <1>4
<1>7. session'.wait # <<>> /\ session'.wait[1] = w
  BY <1>6
<1>8. NeedsInput(session') /\ session'.wait[1].openedAt = d.at /\ session'.wait[1].prompt = d.prompt
  BY <1>5, <1>7 DEF NeedsInput
<1>9. \A h \in net' : ~OpensInteraction(h) /\ h.at # d.at
  BY <1>1, NamedTypes
<1>10. AskedAt' = AskedAt /\ agent'.prompts = agent.prompts
  BY <1>1 DEF AskedAt
<1> QED BY <1>8, <1>9, <1>10 DEF IsWaitedFor

(* Nothing else opens a wait in the meantime.                               *)
LEMMA RequestStays ==
    ASSUME TypeInv, Alive, IsRequested, NEW h, Deliver(h),
           h.at # AskedAt
    PROVE  IsRequested'
<1>1. h \in net /\ net' = net \ {h} /\ agent' = agent
  BY DeliverIs
<1>2. PICK d \in net : /\ d.at = AskedAt /\ OpensInteraction(d) /\ d.prompt = agent.prompts
                       /\ d.event = "PreToolUse" => d.tool = agent.asking
                       /\ \A k \in net : OpensInteraction(k) => k = d
  BY DEF IsRequested
<1>3. ~OpensInteraction(h) /\ h # d
  BY <1>1, <1>2
<1>4. session'.wait = <<>>
  <2>1. CASE ~Lively(h)
    BY <2>1, NotLively DEF IsRequested
  <2>2. CASE Lively(h)
    <3> DEFINE r == Reduce(session, h, Correlated(guard, h), "live")
    <3>1. session' = r.session
      BY Zenon, <2>2, LivelyIs
    <3>2. r.session.wait = <<>>
      BY <1>3, ReduceIdle DEF IsRequested, TypeInv, ValuesOK
    <3> QED BY <3>1, <3>2
  <2> QED BY <2>1, <2>2
<1>5. AskedAt' = AskedAt
  BY <1>1 DEF AskedAt
<1> QED BY <1>1, <1>2, <1>3, <1>4, <1>5 DEF IsRequested

(* The wait for the dialog is ended by nothing but the end of its tool.       *)
LEMMA WaitStays ==
    ASSUME TypeInv, Alive, AliveInv, NamedInv, AskTimes, IsWaitedFor, NEW h, Deliver(h), ~DoneSinceAsked'
    PROVE  IsWaitedFor'
<1>1. h \in net /\ net' = net \ {h} /\ agent' = agent /\ h \in Hooks /\ guard' = Committed(guard, h, Observed(h))
      /\ SessionOf(session, now) /\ guard \in Guards /\ Observed(h) \in BOOLEAN
  BY DeliverIs, NamedTypes, DeliveredType DEF TypeInv, ValuesOK
<1>2. ~OpensInteraction(h) /\ h.at # AskedAt
  BY <1>1 DEF IsWaitedFor
<1>3. PICK w \in Waits : session.wait = <<w>>
  BY <1>1, SessionWait DEF IsWaitedFor, NeedsInput, SessionOf
<1>4. /\ w.status = "waiting" /\ w.openedAt = AskedAt /\ w.prompt = agent.prompts
      /\ WaitTimes(w, now)
  BY <1>3 DEF IsWaitedFor, NeedsInput, AliveInv, SessionTimes
<1>5. AskedAt' = AskedAt
  BY <1>1 DEF AskedAt
<1>6. ASSUME session'.wait # <<>>, session'.wait[1].status = w.status,
             session'.wait[1].openedAt = w.openedAt, session'.wait[1].prompt = w.prompt
      PROVE  IsWaitedFor'
  BY <1>1, <1>4, <1>5, <1>6 DEF IsWaitedFor, NeedsInput
<1>7. CASE ~Lively(h)
  BY <1>3, <1>6, <1>7, NotLively
<1>8. CASE Lively(h)
  <2> DEFINE r == Reduce(session, h, Correlated(guard, h), "live")
  <2>1. session' = r.session /\ Observed(h) = r.observed
    BY Zenon, <1>8, LivelyIs
  <2>2. /\ NamesTool(w, h) => r.session.wait = <<Named(w, h)>>
        /\ MovesOn(w, h) => r.observed
        /\ ~NamesTool(w, h) /\ ~MovesOn(w, h) /\ ~Denies(w, h) /\ ~CompletesWait(w, h) => r.session = session
    BY <1>1, <1>2, <1>3, ReduceWaiting
  <2> HIDE DEF r
  <2>3. h.at \in Nat /\ AskedAt \in Nat /\ w.openedAt \in Nat /\ w.updatedAt \in Nat /\ w.openedAt <= w.updatedAt
    BY <1>1, <1>4, NamedTypes DEF AskTimes, Waits, WaitTimes
  <2>4. h.at >= w.openedAt => h.at > AskedAt /\ h.event = "PostToolUse" /\ h.prompt = w.prompt
    BY <1>1, <1>2, <1>4, <2>3 DEF AskTimes
  <2>5. h.at > w.updatedAt => h.event = "PostToolUse" /\ h.prompt = w.prompt
    BY <2>3, <2>4
  <2>6. ~Denies(w, h) /\ ~CompletesWait(w, h)
    BY <2>4, <2>5 DEF Denies, CompletesWait, IsCurrent, Follows
  <2>7. ~MovesOn(w, h)
    <3>1. ~LaterPrompt(w, h)
      BY <2>5 DEF LaterPrompt, Follows, Conflicts
    <3>2. ~WorkResumed(w, h)
      BY <1>4 DEF WorkResumed
    <3>3. ASSUME Resolves(w, h), MovesOn(w, h) PROVE FALSE
      <4>1. h.at > AskedAt /\ h.event \in Completions
        BY <2>4, <3>3 DEF Resolves, IsCurrent, Completions
      <4>2. Observed(h)
        BY <2>1, <2>2, <3>3
      <4>3. guard' = Committed(guard, h, TRUE)
        BY <1>1, <4>2
      <4>4. h.tool \in DOMAIN guard'.completed /\ guard'.completed[h.tool].at = h.at
        BY <1>1, <4>1, <4>3, CommittedDone
      <4>5. guard'.completed[h.tool].at > agent'.open[agent'.asking].asked
        BY <1>1, <4>1, <4>4 DEF AskedAt
      <4> QED BY <4>4, <4>5 DEF DoneSinceAsked
    <3> QED BY <3>1, <3>2, <3>3 DEF MovesOn
  <2>8. CASE NamesTool(w, h)
    <3>1. /\ Named(w, h).status = w.status /\ Named(w, h).prompt = w.prompt
          /\ Named(w, h).openedAt = w.openedAt
      BY <1>4, NamedTimes
    <3>2. session'.wait = <<Named(w, h)>>
      BY <2>1, <2>2, <2>8
    <3>3. session'.wait # <<>> /\ session'.wait[1] = Named(w, h)
      BY <3>2
    <3> QED BY <1>6, <3>1, <3>3
  <2>9. CASE ~NamesTool(w, h)
    <3>1. session' = session
      BY <2>1, <2>2, <2>6, <2>7, <2>9
    <3> QED BY <1>3, <1>6, <3>1
  <2> QED BY <2>8, <2>9
<1> QED BY <1>7, <1>8

LEMMA DeliverAsk ==
    ASSUME TypeInv, Alive, AliveInv, NamedInv, OrderOK, AskOK, NEW h, Deliver(h)
    PROVE  AskOK'
<1>1. agent' = agent /\ h \in net
  BY DeliverIs
<1>2. CASE agent.asking = None
  BY <1>1, <1>2 DEF AskOK
<1>3. CASE agent.asking # None
  <2>1. AskTimes /\ (Counts => IsRequested \/ IsWaitedFor)
    BY <1>3 DEF AskOK
  <2>2. AskTimes'
    BY <2>1, DeliverAskTimes
  <2>3. ASSUME Counts' PROVE IsRequested' \/ IsWaitedFor'
    <3>1. Counts
      BY <2>3, CountsBefore
    <3>2. CASE IsWaitedFor
      <4>1. ~DoneSinceAsked'
        BY <2>3 DEF Counts
      <4> QED BY <2>1, <3>2, <4>1, WaitStays
    <3>3. CASE IsRequested /\ h.at # AskedAt
      BY <3>3, RequestStays
    <3>4. CASE IsRequested /\ h.at = AskedAt
      <4>1. PICK d \in net : /\ d.at = AskedAt /\ OpensInteraction(d) /\ d.prompt = agent.prompts
                             /\ d.event = "PreToolUse" => d.tool = agent.asking
                             /\ \A k \in net : OpensInteraction(k) => k = d
        BY <3>4 DEF IsRequested
      <4>2. h = d
        BY <1>1, <3>4, <4>1, NamedTypes
      <4>3. Lively(h)
        BY <1>3, <2>1, <3>1, <4>1, <4>2, RequestHeard
      <4>4. session.wait = <<>>
        BY <3>4 DEF IsRequested
      <4> QED BY <4>1, <4>2, <4>3, <4>4, RequestShown
    <3> QED BY <2>1, <3>1, <3>2, <3>3, <3>4
  <2> QED BY <2>2, <2>3 DEF AskOK
<1> QED BY <1>2, <1>3

-----------------------------------------------------------------------------
(* All of it, for the latest prompt; and nothing has stopped before the first.  *)
LatestOK == OrderOK /\ StopOK /\ AskOK

LatestInv == /\ Latest => LatestOK
             /\ Alive /\ agent.prompts = None => agent.ended # "stop"

LEMMA ClaudeOrder ==
    ASSUME TypeInv, ~MayOmit, Alive, AliveInv, NamedInv, OrderOK, StopOK, Claude, ~agent'.stray
    PROVE  OrderOK'
<1>1. CASE Submit
  BY <1>1, SubmitOrder
<1>2. agent.turn # None => agent.turn = agent.prompts /\ ~HasStopped
  BY DEF OrderOK, PromptOrder, HasStopped
<1>3. ASSUME NEW class \in {"tool", "question"}, StartTool(class) PROVE OrderOK'
  <2>1. /\ agent.turn # None /\ agent'.turn = agent.turn /\ agent'.prompts = agent.prompts
        /\ Captured("PreToolUse", agent.turn, agent.tools + 1, class, FALSE)
    BY <1>3, StartToolDoes
  <2>2. guard' = guard /\ session' = session /\ terminal' = terminal
    BY <1>3 DEF StartTool
  <2>3. /\ Captured("PreToolUse", agent.prompts, agent.tools + 1, class, FALSE) /\ ~HasStopped
        /\ agent'.turn \in {None, agent.prompts}
        /\ "PreToolUse" # "UserPromptSubmit" /\ "PreToolUse" # "Stop"
    BY <1>2, <2>1
  <2> QED BY Zenon, <2>1, <2>2, <2>3, CaptureOrder
<1>4. ASSUME NEW tool, AskPermission(tool) PROVE OrderOK'
  <2>1. /\ agent.open[tool].prompt = agent.turn /\ tool \in DOMAIN agent.open
        /\ agent'.turn = agent.turn /\ agent'.prompts = agent.prompts
        /\ Captured("PermissionRequest", agent.turn, None, "tool", FALSE)
    BY <1>4, AskPermissionDoes
  <2>2. guard' = guard /\ session' = session /\ terminal' = terminal
    BY <1>4 DEF AskPermission
  <2>3. agent.turn # None
    BY <2>1 DEF AliveInv, AgentOK, None
  <2>4. /\ Captured("PermissionRequest", agent.prompts, None, "tool", FALSE) /\ ~HasStopped
        /\ agent'.turn \in {None, agent.prompts}
        /\ "PermissionRequest" # "UserPromptSubmit" /\ "PermissionRequest" # "Stop"
    BY <1>2, <2>1, <2>3
  <2> QED BY Zenon, <2>1, <2>2, <2>3, <2>4, CaptureOrder
<1>5. ASSUME NEW tool, AutoDeny(tool) PROVE OrderOK'
  <2>1. /\ agent.open[tool].prompt = agent.turn /\ tool \in DOMAIN agent.open
        /\ agent'.turn = agent.turn /\ agent'.prompts = agent.prompts
        /\ Captured("PermissionDenied", agent.turn, tool, "tool", FALSE)
    BY <1>5, AutoDenyDoes
  <2>2. guard' = guard /\ session' = session /\ terminal' = terminal
    BY <1>5 DEF AutoDeny
  <2>3. agent.turn # None
    BY <2>1 DEF AliveInv, AgentOK, None
  <2>4. /\ Captured("PermissionDenied", agent.prompts, tool, "tool", FALSE) /\ ~HasStopped
        /\ agent'.turn \in {None, agent.prompts}
        /\ "PermissionDenied" # "UserPromptSubmit" /\ "PermissionDenied" # "Stop"
    BY <1>2, <2>1, <2>3
  <2> QED BY Zenon, <2>1, <2>2, <2>3, <2>4, CaptureOrder
<1>6. ASSUME NEW tool, EndTool(tool) PROVE OrderOK'
  <2> DEFINE class == agent.open[tool].class
  <2>1. /\ tool \in DOMAIN agent.open /\ agent.open[tool].prompt = agent.prompts
        /\ agent'.turn = agent.turn /\ agent'.prompts = agent.prompts /\ agent'.wakes = agent.wakes
        /\ Captured("PostToolUse", agent.open[tool].prompt, tool, class, FALSE)
    BY <1>6, EndToolDoes
  <2>2. guard' = guard /\ session' = session /\ terminal' = terminal
    BY <1>6 DEF EndTool
  <2>3. ~HasStopped
    BY <2>1 DEF StopOK, HasEnded, HasStopped
  <2> HIDE DEF class
  <2>4. /\ Captured("PostToolUse", agent.prompts, tool, class, FALSE)
        /\ agent'.turn \in {None, agent.prompts}
        /\ "PostToolUse" # "UserPromptSubmit" /\ "PostToolUse" # "Stop"
    BY <2>1 DEF OrderOK, PromptOrder
  <2> QED BY Zenon, <2>1, <2>2, <2>3, <2>4, CaptureOrder
<1>7. ASSUME NEW wake \in BOOLEAN, Stop(wake) PROVE OrderOK'
  <2>1. /\ agent.turn # None /\ agent'.turn = None /\ agent'.prompts = agent.prompts
        /\ agent'.ended = "stop" /\ agent'.last = agent.turn
        /\ ~wake => agent'.wakes = agent.wakes \ {agent.turn}
        /\ Captured("Stop", agent.turn, None, NoClass, wake)
    BY <1>7, StopDoes
  <2>2. guard' = guard /\ session' = session /\ terminal' = terminal
    BY <1>7 DEF Stop
  <2>3. /\ Captured("Stop", agent.prompts, None, NoClass, wake) /\ ~HasStopped
        /\ agent'.turn \in {None, agent.prompts} /\ "Stop" # "UserPromptSubmit"
        /\ ~wake => agent.prompts \notin agent'.wakes
    BY <1>2, <2>1
  <2>4. HasStopped'
    BY <1>2, <2>1 DEF HasStopped
  <2> QED BY Zenon, <2>1, <2>2, <2>3, <2>4, CaptureOrder
<1>8. ASSUME NEW prompt \in agent.wakes, Wake(prompt) PROVE OrderOK'
  <2>1. prompt = agent.prompts
    BY <1>8, WakeDoes
  <2> QED BY <1>8, <2>1, WakeOrder
<1> QED BY Zenon, <1>1, <1>3, <1>4, <1>5, <1>6, <1>7, <1>8 DEF Claude

LEMMA ClaudeLatest ==
    ASSUME TypeInv, ~MayOmit, Alive, AliveInv, NamedInv, LatestInv, Claude
    PROVE  LatestInv'
<1>1. CASE Submit
  <2>1. /\ agent.turn = None /\ agent'.prompts = agent.prompts + 1 /\ ~TurnIsOver'
        /\ agent'.asking = agent.asking /\ agent.prompts \in Nat
    BY <1>1, SubmitDoes, NamedTypes
  <2>2. OrderOK'
    BY <1>1, SubmitOrder
  <2>3. StopOK'
    BY <2>1, NotStopped DEF StopOK
  <2>4. AskOK'
    BY <2>1 DEF AskOK, AliveInv, AgentOK
  <2> QED BY <2>1, <2>2, <2>3, <2>4 DEF LatestInv, LatestOK, None
<1>2. CASE ~Submit
  <2>1. agent'.prompts = agent.prompts /\ (agent.stray => agent'.stray)
    BY Zenon, <1>2, StartToolDoes, AskPermissionDoes, AutoDenyDoes, EndToolDoes, StopDoes, WakeDoes DEF Claude
  <2>2. Latest' => OrderOK' /\ StopOK' /\ AskOK'
    <3> SUFFICES ASSUME Latest' PROVE OrderOK' /\ StopOK' /\ AskOK'
      OBVIOUS
    <3>1. OrderOK /\ StopOK /\ AskOK /\ ~agent'.stray
      BY <2>1 DEF Latest, LatestInv, LatestOK
    <3> QED BY <3>1, ClaudeOrder, ClaudeStop, ClaudeAsk
  <2>3. agent.prompts = None => agent'.ended # "stop"
    <3>1. agent.prompts = None => agent.turn = None
      BY NamedTypes DEF AliveInv, AgentOK, None
    <3>2. agent'.ended = agent.ended \/ ~TurnIsOver' \/ agent.turn # None
      BY Zenon, <1>2, StartToolDoes, AskPermissionDoes, AutoDenyDoes, EndToolDoes, StopDoes, WakeDoes DEF Claude
    <3>3. ~TurnIsOver' => agent'.ended # "stop"
      BY Zenon DEF TurnIsOver
    <3> QED BY <3>1, <3>2, <3>3 DEF LatestInv
  <2> QED BY <2>1, <2>2, <2>3 DEF LatestInv, LatestOK
<1> QED BY <1>1, <1>2

LEMMA UserLatest ==
    ASSUME TypeInv, Alive, AliveInv, NamedInv, LatestInv, Answer \/ Escape \/ CtrlC
    PROVE  LatestInv'
<1>1. /\ agent'.prompts = agent.prompts /\ agent'.stray = agent.stray /\ agent'.asking = None
      /\ agent'.ended = agent.ended \/ agent'.ended = "cut"
  BY ActedAgent
<1>2. ASSUME Latest' PROVE LatestOK'
  <2>1. OrderOK /\ StopOK /\ AskOK
    BY <1>1, <1>2 DEF Latest, LatestInv, LatestOK
  <2>2. AskOK'
    BY <1>1 DEF AskOK
  <2> QED BY <2>1, <2>2, UserOrder, UserStop DEF LatestOK
<1> QED BY <1>1, <1>2 DEF LatestInv

(* Nothing is heard: only starts of ordinary tools are lost.                  *)
LEMMA QuietLatest ==
    ASSUME Alive, LatestInv, agent' = agent, now' = now, net' \subseteq net,
           \A h \in net : h \in net' \/ BestEffort(h),
           guard' = guard, terminal'.fence = terminal.fence, session'.wait = session.wait,
           session'.state \in {session.state, "review"}
    PROVE  LatestInv'
<1>1. ASSUME Latest' PROVE LatestOK'
  <2>1. OrderOK /\ StopOK /\ AskOK
    BY <1>1 DEF Latest, LatestInv, LatestOK
  <2>2. Closed => Closed'
    BY DEF Closed
  <2>3. HasStopped => HasStopped'
    BY DEF HasStopped
  <2>4. OrderOK'
    BY <2>1, <2>2, <2>3, OrderSame DEF Settled
  <2>5. \A h \in net : LastStop(h) => h \in net' /\ LastStop(h)'
    <3>1. \A h \in net : LastStop(h) => ~BestEffort(h)
      BY DEF LastStop, BestEffort
    <3> QED BY <3>1, LastStopSame
  <2>6. StopOK'
    BY <2>1, <2>2, <2>5, StopSame
  <2>7. \A h \in net : OpensInteraction(h) => h \in net'
    BY DEF OpensInteraction, BestEffort
  <2>8. AskOK'
    BY <2>1, <2>7, AskSame
  <2> QED BY <2>4, <2>6, <2>8 DEF LatestOK
<1> QED BY <1>1 DEF LatestInv

LEMMA RenderLatest ==
    ASSUME TypeInv, Alive, AliveInv, NamedInv, LatestInv, Render
    PROVE  LatestInv'
<1>1. agent' = agent /\ agent.turn = None /\ agent.ended = "cut"
  BY DEF Render, Idle
<1>2. ASSUME Latest' PROVE LatestOK'
  <2>1. OrderOK /\ agent.prompts # None
    BY <1>1, <1>2 DEF Latest, LatestInv, LatestOK
  <2>2. OrderOK'
    BY <2>1, RenderOrder
  <2>3. StopOK'
    BY <1>1 DEF StopOK, HasEnded
  <2>4. AskOK'
    BY <1>1 DEF AskOK, AliveInv, AgentOK
  <2> QED BY <2>2, <2>3, <2>4 DEF LatestOK
<1> QED BY <1>1, <1>2 DEF LatestInv

LEMMA DeliverLatest ==
    ASSUME TypeInv, Alive, AliveInv, NamedInv, LatestInv, NEW h, Deliver(h)
    PROVE  LatestInv'
<1>1. agent' = agent
  BY DeliverIs
<1>2. ASSUME Latest' PROVE LatestOK'
  <2>1. OrderOK /\ StopOK /\ AskOK /\ agent.prompts # None
    BY <1>1, <1>2 DEF Latest, LatestInv, LatestOK
  <2> QED BY <2>1, DeliverOrder, DeliverStop, DeliverAsk DEF LatestOK
<1> QED BY <1>1, <1>2 DEF LatestInv

LEMMA LatestInit == ASSUME Init PROVE LatestInv
<1>1. agent.prompts = None /\ ~TurnIsOver
  BY Zenon DEF Init, Quiet, TurnIsOver, None
<1>2. agent.ended # "stop"
  BY Zenon, <1>1 DEF TurnIsOver
<1> QED BY <1>1, <1>2 DEF LatestInv, Latest

LEMMA LatestStep ==
    ASSUME ~MayOmit, TypeInv, AliveInv, NamedInv, LatestInv, [Next]_vars
    PROVE  LatestInv'
<1>1. CASE ~Alive'
  BY <1>1 DEF LatestInv, Latest
<1>2. CASE Alive' /\ Claude
  <2>1. Alive
    BY Zenon, <1>2 DEF Claude, Submit, StartTool, AskPermission, AutoDeny, EndTool, Stop, Wake
  <2> QED BY Zenon, <1>2, <2>1, ClaudeLatest
<1>3. CASE Alive' /\ User
  BY <1>3, UserLatest DEF User, Answer, Escape, CtrlC
<1>4. CASE Alive' /\ Runtime
  <2>1. Alive
    BY <1>4 DEF Alive, Runtime, Render, Disarm, CtrlCSettles, LaunchTimesOut, Persist, Deliver, Ingest, Lose
  <2>2. CASE Render
    BY <2>1, <2>2, RenderLatest
  <2>3. CASE Disarm \/ CtrlCSettles
    <3>1. terminal \in Terminals
      BY DEF TypeInv, ValuesOK
    <3>2. terminal'.fence = terminal.fence
      BY <2>3, <3>1 DEF Disarm, CtrlCSettles, Terminals
    <3> QED BY <2>1, <2>3, <3>2, QuietLatest DEF Disarm, CtrlCSettles
  <2>4. CASE LaunchTimesOut
    <3>1. session'.wait = session.wait /\ session'.state = "review"
      BY <2>4 DEF LaunchTimesOut, TypeInv, ValuesOK, SessionOf, Sessions
    <3> QED BY <2>1, <2>4, <3>1, QuietLatest DEF LaunchTimesOut
  <2>5. CASE Persist
    BY <2>1, <2>5, QuietLatest DEF Persist
  <2>6. ASSUME NEW h \in net, Deliver(h) PROVE LatestInv'
    BY <2>1, <2>6, DeliverLatest
  <2>7. ASSUME NEW h \in net, Lose(h) PROVE LatestInv'
    <3>1. \A k \in net : k \in net' \/ BestEffort(k)
      BY <2>7 DEF Lose
    <3> QED BY <2>1, <2>7, <3>1, QuietLatest DEF Lose
  <2> QED BY <1>4, <2>2, <2>3, <2>4, <2>5, <2>6, <2>7 DEF Runtime
<1>5. CASE Ends
  BY <1>5 DEF Ends, Exit, Crash, Alive, LatestInv, Latest
<1>6. CASE UNCHANGED vars
  <2>1. CASE Alive
    BY <1>6, <2>1, QuietLatest DEF vars
  <2>2. CASE ~Alive
    BY <1>6, <2>2 DEF vars, Alive, LatestInv, Latest
  <2> QED BY <2>1, <2>2
<1> QED BY <1>1, <1>2, <1>3, <1>4, <1>5, <1>6 DEF Next

(* All of the invariant, for every launch whose hooks name their prompt: what is  *)
(* still on its way can only be heard in an order that the guard                *)
(* (hook-event-order.ts) and the reducer (session-state-machine.ts) bear.       *)
THEOREM InvariantHolds == ~MayOmit => (Spec => [](TypeInv /\ AliveInv /\ NamedInv /\ LatestInv))
<1> SUFFICES ASSUME ~MayOmit PROVE Spec => [](TypeInv /\ AliveInv /\ NamedInv /\ LatestInv)
  OBVIOUS
<1>1. Init => TypeInv /\ AliveInv /\ NamedInv /\ LatestInv
  BY TypeInit, AliveInit, NamedInit, LatestInit
<1>2. TypeInv /\ AliveInv /\ NamedInv /\ LatestInv /\ [Next]_vars =>
        (TypeInv /\ AliveInv /\ NamedInv /\ LatestInv)'
  BY TypeStep, AliveStep, NamedStep, LatestStep
<1> QED BY <1>1, <1>2, PTL DEF Spec

-----------------------------------------------------------------------------
(* Whatever order the hooks of a launch come in, however late, and whatever the *)
(* user types and the terminal renders between them: when none is on its way, a *)
(* latest turn that has stopped is in Review and asks nothing                 *)
(* (hook-event-order.ts, session-state-machine.ts), provided that the hooks   *)
(* name their prompt.                                                       *)
THEOREM FinishedTurnsAreReview == ~MayOmit => (Spec => []FinishedIsReview)
<1> SUFFICES ASSUME ~MayOmit PROVE Spec => []FinishedIsReview
  OBVIOUS
<1>1. TypeInv /\ AliveInv /\ NamedInv /\ LatestInv => FinishedIsReview
  <2> SUFFICES ASSUME LatestInv, net = {}, Alive, agent.ended = "stop", agent.last = agent.prompts,
                      ~agent.blind, ~agent.stray
               PROVE  session.state = "review" /\ session.wait = <<>>
    BY DEF FinishedIsReview, AllHeard
  <2>1. StopOK
    BY DEF LatestInv, LatestOK, Latest
  <2> QED BY <2>1 DEF StopOK, HasEnded, Closed
<1> QED BY <1>1, InvariantHolds, PTL

(* In the same generality, a dialog that Claude shows for its latest prompt is a *)
(* wait on the board once its request has been heard: no hook that was delayed, *)
(* reordered or lost, and no hook of a parallel tool, hides it.                *)
THEOREM DialogsAreShown == ~MayOmit => (Spec => []WaitIsShown)
<1> SUFFICES ASSUME ~MayOmit PROVE Spec => []WaitIsShown
  OBVIOUS
<1>1. TypeInv /\ AliveInv /\ NamedInv /\ LatestInv => WaitIsShown
  <2> SUFFICES ASSUME TypeInv, AliveInv, LatestInv, net = {}, Alive, agent.asking # None,
                      agent.turn = agent.prompts, Counts, ~agent.stray
               PROVE  NeedsInput(session)
    BY DEF WaitIsShown, AllHeard, Counts
  <2>1. agent.prompts # None
    BY DEF AliveInv, AgentOK
  <2>2. AskOK
    BY <2>1 DEF LatestInv, LatestOK, Latest
  <2>3. IsRequested \/ IsWaitedFor
    BY <2>2 DEF AskOK
  <2> QED BY <2>3 DEF IsRequested, IsWaitedFor
<1> QED BY <1>1, InvariantHolds, PTL
=============================================================================
