---------------------------- MODULE ProviderHooks ----------------------------
(***************************************************************************)
(* One Claude launch and what the board shows of it: the agent works and    *)
(* reports through hooks, the hooks travel and are ingested one by one in    *)
(* any order (src/trpc/hooks-api.ts, src/terminal/session-manager.ts,        *)
(* src/terminal/session-transition-controller.ts), the user answers,         *)
(* presses Escape or Ctrl-C (src/terminal/session-input-pipeline.ts), the    *)
(* process exits, and the runtime may crash and find on disk the session     *)
(* and the receipts it had written.  HookEventOrder judges the hooks and     *)
(* SessionStateMachine says what an admitted one means.                     *)
(*                                                                         *)
(* The agent is external: it is modelled from the hooks that the launch      *)
(* settings ask of it and from what the code says of their gaps (an          *)
(* interrupt and a manual denial have no hook, a permission request names    *)
(* no tool, a prompt may go unnamed).  Hooks go through a durable outbox and *)
(* are retried until acknowledged, except the start of an ordinary tool,     *)
(* which is best effort.  The clock `now` ticks at every capture and at      *)
(* every act of the user, so capture times are distinct.                    *)
(***************************************************************************)
EXTENDS SessionStateMachine

CONSTANTS
    Prompts,        \* how many prompts the user submits
    Tools,          \* how many tools the agent starts
    MaxHooks,       \* bound on the hooks captured
    MaxFlying,      \* bound on the hooks on their way at once
    MaxUserActs,    \* bound on answers, Escapes and Ctrl-Cs
    MaxWakes,       \* bound on Stops that leave background work
    MaxCrashes,     \* bound on crashes of the runtime
    MayOmit         \* whether the agent may leave the prompt of a hook unnamed

ASSUME BoundsAssumption ==
    /\ Prompts \in Nat \ {0} /\ Tools \in Nat
    /\ MaxHooks \in Nat \ {0} /\ MaxFlying \in Nat \ {0}
    /\ MaxUserActs \in Nat /\ MaxWakes \in Nat /\ MaxCrashes \in Nat
    /\ MayOmit \in BOOLEAN

VARIABLES
    now,        \* the latest capture time or time of a user's act
    agent,      \* Claude: its turn, its open tools, what it asks of the user
    net,        \* hooks captured and not yet ingested
    unacked,    \* hooks ingested whose acknowledgement waits for the disk
    process,    \* what the runtime knows of it: live, exited, cut, startup
    session,    \* the session summary
    guard,      \* the ordering guard in memory
    receipts,   \* the summary's ordering receipts, and all deliveries received
    saved,      \* session, receipts and Ctrl-C fence on disk
    terminal,   \* the PTY's bookkeeping: Escape armed, Ctrl-C pending, fence, worked, a cut rendered
    acts        \* how much of each bound is used

vars == <<now, agent, net, unacked, process, session, guard, receipts, saved, terminal, acts>>

Quiet ==
    [turn |-> None, asking |-> None, open |-> <<>>, wakes |-> {}, ended |-> "", last |-> None,
     blind |-> FALSE, stray |-> FALSE, prompts |-> 0, tools |-> 0]
NoReceipts == [kept |-> <<>>, ids |-> {}]
Untouched == [armed |-> FALSE, pending |-> FALSE, fence |-> 0, worked |-> FALSE, rendered |-> FALSE]

\* What the durable writer would put on disk now.
Durable(s, r, g) == [session |-> s, receipts |-> r, fence |-> g.fence]

Init ==
    /\ now = 0
    /\ agent = Quiet
    /\ net = {} /\ unacked = {}
    /\ process = "live"
    /\ session = Launched
    /\ guard = NewGuard
    /\ receipts = NoReceipts
    /\ saved = Durable(Launched, NoReceipts, NewGuard)
    /\ terminal = Untouched
    /\ acts = [hooks |-> 0, user |-> 0, wakes |-> 0, crashes |-> 0]

Alive == process = "live"

-----------------------------------------------------------------------------
(* Claude.  Every hook is captured now and is on its way.                  *)

Capture(event, prompt, tool, class, wake) ==
    /\ acts.hooks < MaxHooks /\ Cardinality(net) < MaxFlying
    /\ now' = now + 1
    /\ acts' = [acts EXCEPT !.hooks = @ + 1, !.wakes = IF wake THEN @ + 1 ELSE @]
    /\ \E named \in IF MayOmit THEN {prompt, None} ELSE {prompt} :
          net' = net \cup {[at |-> now + 1, event |-> event, prompt |-> named, tool |-> tool,
                            class |-> class, wake |-> wake]}

Idle == agent.turn = None
CurrentTools == {t \in DOMAIN agent.open : agent.open[t].prompt = agent.turn}

Submit ==
    /\ Alive /\ Idle /\ agent.prompts < Prompts
    /\ Capture("UserPromptSubmit", agent.prompts + 1, None, "", FALSE)
    /\ agent' = [agent EXCEPT !.turn = agent.prompts + 1, !.prompts = @ + 1, !.ended = "",
                              !.stray = FALSE]
    /\ UNCHANGED <<unacked, process, session, guard, receipts, saved, terminal>>

\* A dialog opens or is dealt with while the board is behind: a hook that announces
\* one is still on its way, or the wait for an earlier one is still there.
Blind ==
    \/ agent.blind
    \/ \E h \in net : OpensInteraction(h)
    \/ agent.asking = None /\ session.wait # <<>>

\* A question is a tool whose start asks the user.
StartTool(class) ==
    LET tool == agent.tools + 1
    IN  /\ Alive /\ ~Idle /\ agent.asking = None /\ tool <= Tools
        /\ Capture("PreToolUse", agent.turn, tool, class, FALSE)
        /\ agent' = [agent EXCEPT !.tools = tool,
                                  !.open = Put(@, tool, [prompt |-> agent.turn, class |-> class,
                                                     asked |-> IF class = "question" THEN now + 1 ELSE 0]),
                                  !.asking = IF class = "question" THEN tool ELSE None,
                                  !.blind = IF class = "question" THEN Blind ELSE @]
        /\ UNCHANGED <<unacked, process, session, guard, receipts, saved, terminal>>

\* A tool asks for permission at most once.
AskPermission(tool) ==
    /\ Alive /\ agent.asking = None /\ tool \in CurrentTools /\ agent.open[tool].asked = 0
    /\ Capture("PermissionRequest", agent.turn, None, "tool", FALSE)
    /\ agent' = [agent EXCEPT !.asking = tool, !.open[tool].asked = now + 1, !.blind = Blind]
    /\ UNCHANGED <<unacked, process, session, guard, receipts, saved, terminal>>

Without(tool) == Restrict(agent.open, DOMAIN agent.open \ {tool})

\* The permission mode denies a tool by itself.
AutoDeny(tool) ==
    /\ Alive /\ tool \in CurrentTools /\ agent.open[tool].class = "tool"
    /\ agent.asking \in {None, tool}
    /\ Capture("PermissionDenied", agent.turn, tool, "tool", FALSE)
    /\ agent' = [agent EXCEPT !.asking = None, !.open = Without(tool),
                              !.blind = IF agent.asking = tool THEN Blind ELSE @]
    /\ UNCHANGED <<unacked, process, session, guard, receipts, saved, terminal>>

\* A tool that an interrupt cut may still report its failure afterwards; `stray`
\* says that a prompt has worked on since a later one was submitted.
EndTool(tool) ==
    /\ Alive /\ tool \in DOMAIN agent.open /\ agent.asking # tool
    /\ Capture("PostToolUse", agent.open[tool].prompt, tool, agent.open[tool].class, FALSE)
    /\ agent' = [agent EXCEPT !.open = Without(tool), !.stray = @ \/ agent.open[tool].prompt # agent.prompts]
    /\ UNCHANGED <<unacked, process, session, guard, receipts, saved, terminal>>

\* A Stop that leaves a shell or a monitor running may wake its prompt again.
Stop(wake) ==
    /\ Alive /\ ~Idle /\ agent.asking = None /\ CurrentTools = {}
    /\ wake => acts.wakes < MaxWakes
    /\ Capture("Stop", agent.turn, None, "", wake)
    /\ agent' = [agent EXCEPT !.turn = None, !.ended = "stop", !.last = agent.turn,
                              !.wakes = IF wake THEN @ \cup {agent.turn} ELSE @ \ {agent.turn}]
    /\ UNCHANGED <<unacked, process, session, guard, receipts, saved, terminal>>

\* Background work resumes its prompt; no hook announces it.
Wake(prompt) ==
    /\ Alive /\ Idle /\ prompt \in agent.wakes
    /\ agent' = [agent EXCEPT !.turn = prompt, !.ended = "", !.stray = @ \/ prompt # agent.prompts]
    /\ UNCHANGED <<now, net, unacked, process, session, guard, receipts, saved, terminal, acts>>

-----------------------------------------------------------------------------
(* The user, through the terminal.                                         *)

Act ==
    /\ acts.user < MaxUserActs
    /\ acts' = [acts EXCEPT !.user = @ + 1]
    /\ now' = now + 1

\* handleTaskSessionInput: input to a shown wait is recorded as its answer.
RecordAnswer(g) ==
    /\ guard' = IF NeedsInput(session) THEN Submitted(g, now + 1, session.wait[1].tool) ELSE g
    /\ session' = IF NeedsInput(session) THEN Answered(session, now + 1) ELSE session

\* What the agent does with the dialog: grants it or, without a hook, drops its tool.
Granted == [agent EXCEPT !.asking = None, !.blind = Blind]
Denied == [Granted EXCEPT !.open = Without(agent.asking)]
Unasked == [agent EXCEPT !.blind = Blind]

\* The turn ends without a hook; its tools may still report.
CutTurn == [Granted EXCEPT !.turn = None, !.ended = "cut", !.last = agent.turn]

\* The answer may also be typed at a dialog that is already gone.
Answer ==
    /\ Alive /\ Act
    /\ agent.asking # None \/ NeedsInput(session)
    /\ agent' \in IF agent.asking # None THEN {Granted, Denied} ELSE {Unasked}
    /\ RecordAnswer(guard)
    /\ UNCHANGED <<net, unacked, process, receipts, saved, terminal>>

\* A bare Escape: the guard notes the prompt it was aimed at and the detector
\* of the rendered result is armed.  The agent may ignore it.
Escape ==
    /\ Alive /\ Act
    /\ ~Idle
    /\ agent' \in {CutTurn} \cup {IF agent.asking # None THEN Denied ELSE Unasked}
    /\ terminal' = [terminal EXCEPT !.armed = @ \/ MayRenderInterruption(session)]
    /\ RecordAnswer(EscapePressed(guard))
    /\ UNCHANGED <<net, unacked, process, receipts, saved>>

\* Ctrl-C while Running removes the claim at once and fences what is older.  It
\* ends the turn; during a wait it is an answer like any other.
CtrlC ==
    /\ Alive /\ Act
    /\ session.state = "running"
    /\ agent' = IF Idle THEN agent ELSE CutTurn
    /\ guard' = CtrlCPressed(guard, now + 1)
    /\ session' = Cut(session)
    /\ terminal' = [terminal EXCEPT !.pending = TRUE, !.fence = now + 1]
    /\ UNCHANGED <<net, unacked, process, receipts, saved>>

-----------------------------------------------------------------------------
(* The terminal's own evidence and timers.                                 *)

\* retireInterruptedClaudePrompt and the fence at the time of detection.
AfterRender(g, at) == Interrupted(g, at)

\* The detector sees Claude's interrupted screen; it fires once.
Render ==
    /\ Alive /\ terminal.armed /\ Idle /\ agent.ended = "cut"
    /\ MayRenderInterruption(session)
    /\ IF EscapeIsCurrent(guard)
       THEN /\ now' = now + 1
            /\ session' = Cut(session)
            /\ guard' = AfterRender(guard, now + 1)
            /\ terminal' = [terminal EXCEPT !.armed = FALSE, !.fence = now + 1, !.rendered = TRUE]
       ELSE /\ terminal' = [terminal EXCEPT !.armed = FALSE]
            /\ UNCHANGED <<now, session, guard>>
    /\ UNCHANGED <<agent, net, unacked, process, receipts, saved, acts>>

Disarm ==
    /\ terminal.armed
    /\ terminal' = [terminal EXCEPT !.armed = FALSE]
    /\ UNCHANGED <<now, agent, net, unacked, process, session, guard, receipts, saved, acts>>

\* The recovery timer only retires the bookkeeping for a process exit.
CtrlCSettles ==
    /\ terminal.pending
    /\ terminal' = [terminal EXCEPT !.pending = FALSE]
    /\ UNCHANGED <<now, agent, net, unacked, process, session, guard, receipts, saved, acts>>

LaunchTimesOut ==
    /\ MayTimeOut(session)
    /\ session' = [session EXCEPT !.state = "review", !.reason = "unconfirmed"]
    /\ UNCHANGED <<now, agent, net, unacked, process, guard, receipts, saved, terminal, acts>>

-----------------------------------------------------------------------------
(* The transport and the ingestion.                                        *)

BestEffort(h) == h.event = "PreToolUse" /\ h.class = "tool"

Lose(h) ==
    /\ h \in net /\ BestEffort(h)
    /\ net' = net \ {h}
    /\ UNCHANGED <<now, agent, unacked, process, session, guard, receipts, saved, terminal, acts>>

\* withSessionEvidence: how far a hook may speak for the process.
Context(h) ==
    CASE process = "live" -> IF h.at > terminal.fence THEN "live" ELSE "unconfirmed"
      [] process = "cut" -> "unconfirmed"
      [] process \in {"exited", "startup"} -> process

Received(r, h) == [kept |-> WithReceipt(r.kept, h), ids |-> r.ids \cup {h.at}]

\* An acknowledgement waits for the disk when task meaning changed, when the
\* receipt closes a tool, and when nothing changed but earlier changes are dirty.
AwaitsDisk(h, observed) ==
    LET meaning == <<session, guard.fence>> # <<session', guard'.fence>>
    IN  /\ Durable(session', receipts', guard') # saved
        /\ \/ meaning \/ (observed /\ h.event \in Completions)
           \/ <<session, receipts, guard.fence>> = <<session', receipts', guard'.fence>>

\* observeSummaryChange and applyTransitionEvent: work or a completion settles
\* a pending Ctrl-C, and Running disarms the detector.
TerminalAfter(t, h, observed) ==
    LET resumed == session.state # "running" /\ session'.state = "running"
        worked == session'.evidence
        finished == h.event = "Stop" /\ observed /\ session'.wait = <<>>
    IN  [t EXCEPT !.armed = @ /\ ~resumed,
                  !.pending = @ /\ ~(resumed \/ (observed /\ worked) \/ finished),
                  !.worked = @ \/ worked]

\* ingest: evaluate, apply, commit, then acknowledge.
Ingest(h, accepted, result) ==
    LET observed == accepted /\ result.observed
    IN  /\ net' = net \ {h}
        /\ session' = IF accepted THEN result.session ELSE session
        /\ guard' = Committed(guard, h, observed)
        /\ receipts' = IF observed THEN Received(receipts, h) ELSE receipts
        /\ terminal' = IF Alive THEN TerminalAfter(terminal, h, observed) ELSE terminal
        /\ unacked' = IF ~BestEffort(h) /\ AwaitsDisk(h, observed) THEN unacked \cup {h} ELSE unacked
        /\ UNCHANGED <<now, agent, process, saved, acts>>

Deliver(h) ==
    /\ h \in net
    /\ Ingest(h, Accepts(guard, h), Reduce(session, h, Correlated(guard, h), Context(h)))

\* The durable writer (SessionPersistence has its generations).
Persist ==
    /\ saved # Durable(session, receipts, guard)
    /\ saved' = Durable(session, receipts, guard)
    /\ unacked' = {}
    /\ UNCHANGED <<now, agent, net, process, session, guard, receipts, terminal, acts>>

-----------------------------------------------------------------------------
(* The end of the process, and of the runtime.                             *)

\* handleTaskSessionExit.  An exit after a Ctrl-C closes the launch to late hooks.
Exit(clean) ==
    /\ Alive
    /\ process' = IF terminal.pending THEN "cut" ELSE "exited"
    /\ session' = Exited(session, clean, terminal.pending, terminal.worked)
    /\ terminal' = [terminal EXCEPT !.armed = FALSE, !.pending = FALSE]
    /\ UNCHANGED <<now, agent, net, unacked, guard, receipts, saved, acts>>

\* The answer that a saved wait has got.
AnswerOf(s) ==
    IF s.wait # <<>> /\ s.wait[1].submittedAt # 0 /\ s.wait[1].status # "waiting"
    THEN [at |-> s.wait[1].submittedAt, tool |-> s.wait[1].tool]
    ELSE [at |-> 0, tool |-> None]

\* The Ctrl-C fence is not restored.
MutantRestoredGuard(d) ==
    LET answer == AnswerOf(d.session)
    IN  Restored(d.receipts.kept, d.receipts.ids, <<>>, answer.at, answer.tool)

\* hydrateFromRecord: the guard that a new runtime builds from the disk.
RestoredGuard(d) ==
    LET answer == AnswerOf(d.session)
    IN  Restored(d.receipts.kept, d.receipts.ids, d.fence, answer.at, answer.tool)

\* The process dies with its terminal; what was not acknowledged is sent again.
Crash ==
    /\ acts.crashes < MaxCrashes
    /\ acts' = [acts EXCEPT !.crashes = @ + 1]
    /\ process' = "startup"
    /\ session' = Hydrated(saved.session)
    /\ receipts' = saved.receipts
    /\ guard' = RestoredGuard(saved)
    /\ net' = {h \in net \cup unacked : ~BestEffort(h)}
    /\ unacked' = {}
    /\ terminal' = Untouched
    /\ UNCHANGED <<now, agent, saved>>

-----------------------------------------------------------------------------
Claude ==
    \/ Submit
    \/ \E class \in {"tool", "question"} : StartTool(class)
    \/ \E tool \in DOMAIN agent.open : AskPermission(tool) \/ AutoDeny(tool) \/ EndTool(tool)
    \/ \E wake \in BOOLEAN : Stop(wake)
    \/ \E prompt \in agent.wakes : Wake(prompt)

User == Answer \/ Escape \/ CtrlC

Runtime ==
    \/ Render \/ Disarm \/ CtrlCSettles \/ LaunchTimesOut \/ Persist
    \/ \E h \in net : Deliver(h) \/ Lose(h)

Ends == (\E clean \in BOOLEAN : Exit(clean)) \/ Crash

Next == Claude \/ User \/ Runtime \/ Ends

Spec == Init /\ [][Next]_vars

-----------------------------------------------------------------------------
Statuses == {"waiting", "response_submitted", "resolution_unknown"}

\* Type invariant: times have happened, a Running session waits for nobody, and
\* a hook on its way is not one that the guard has judged before.
TypeOK ==
    /\ now \in Nat
    /\ process \in {"live", "exited", "cut", "startup"}
    /\ session.state \in {"running", "review"}
    /\ \A i \in DOMAIN session.wait :
          session.wait[i].status \in Statuses /\ session.wait[i].openedAt <= now
    /\ session.state = "running" => session.wait = <<>> /\ session.reason = ""
    /\ \A h \in net \cup unacked : h.at \in 1 .. now
    /\ guard.delivered \cap {h.at : h \in net} = {}

AllHeard == net = {}
Fenced == guard.fence # <<>> /\ guard.fence[1].scope = agent.turn
TurnIsClosed == agent.turn \in guard.retired

DoneSinceAsked == \E t \in DOMAIN guard.completed : guard.completed[t].at > agent.open[agent.asking].asked

\* Whatever order its hooks came in, once all have been judged a dialog that
\* Claude still shows for its latest prompt is a wait on the board.  Left out:
\* a turn that Ctrl-C or a rendered Escape has closed and that background work
\* resumed; a dialog that opened while the board was behind with another one, or
\* after a prompt that works on behind the latest; and a dialog during which a
\* parallel tool was done, as a request heard after that is taken for its own.
WaitIsShown ==
    (/\ AllHeard /\ Alive /\ agent.asking # None /\ agent.turn = agent.prompts
     /\ ~Fenced /\ ~TurnIsClosed /\ ~agent.blind /\ ~agent.stray /\ ~DoneSinceAsked) => NeedsInput(session)

\* Whatever order its hooks came in, once all have been judged a turn that has
\* stopped is in Review and asks nothing: no delayed start, completion or request
\* of the turn leaves it Running or waiting.  Left out: a prompt that works on
\* behind the latest one, and an answer typed while the board was behind.  It is
\* about hooks that name their prompt, the ones the run sends: where MayOmit lets
\* a hook name none, a late one of an earlier prompt may be taken for the turn's.
FinishedIsReview ==
    (/\ AllHeard /\ Alive /\ agent.ended = "stop" /\ agent.last = agent.prompts
     /\ ~agent.blind /\ ~agent.stray) => session.state = "review" /\ session.wait = <<>>

LaterPromptFlying == \E h \in net : h.event = "UserPromptSubmit" /\ h.at > terminal.fence

\* After an Escape that was seen to cut the turn, no delayed hook of a prompt that
\* the guard had heard of makes the task Running again, not even one captured
\* after the cut: only a new prompt does.
CutTurnStaysCut ==
    [][(/\ guard.awaiting /\ 1 .. agent.prompts \subseteq guard.retired
        /\ Idle /\ agent.ended = "cut" /\ ~LaterPromptFlying
        /\ session.state = "review" /\ session.reason = "interrupted")
          => session'.state # "running"]_vars

\* Nothing that is on its way was captured after the wait was opened and ends a
\* turn or begins one, or comes from another prompt after the wait was last heard of.
OnlyOlder(w) ==
    \A h \in net : /\ h.event \in {"Stop", "UserPromptSubmit"} => h.at < w.openedAt
                   /\ h.prompt # agent.turn => h.at <= w.updatedAt

\* While Claude still asks, a wait that is shown for that very tool is ended by
\* the user or the process only: hooks of parallel tools do not count as answers,
\* nor do the late ones of what the wait came after.
WaitIsNotForged ==
    [][(/\ Alive /\ process' = "live" /\ agent.asking # None /\ NeedsInput(session)
        /\ session.wait[1].tool = agent.asking /\ session.wait[1].prompt = agent.turn
        /\ OnlyOlder(session.wait[1]))
          => NeedsInput(session') \/ agent' # agent \/ acts'.user # acts.user]_vars

\* The guard that a restart would rebuild from the compacted receipts judges each
\* hook still on its way as the guard in memory does ("Rebuilds the exact
\* provider-specific ordering guard from durable metadata").  A rendered Escape
\* and an answer that the wait no longer records leave nothing durable; and hooks
\* must name their prompt, as the tool of an answer may be learnt after it.
RestoreAgrees ==
    (guard.submittedAt = AnswerOf(session).at /\ ~terminal.rendered /\ ~MayOmit) =>
       \A h \in net : Accepts(guard, h) = Accepts(RestoredGuard(Durable(session, receipts, guard)), h)

=============================================================================
