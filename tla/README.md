# kvach in TLA+

kvach is an AI coding agent written in Go: a loop that sends a conversation to
a language model, executes the tools the model asks for, and reports to a
terminal UI, a command line or an HTTP server. This directory holds TLA+
modules of its concurrent and fault-prone core, TLC configurations that check
them on small instances, and TLAPS proofs of the results that matter most.

    tlc -config MCAgentLoop_wide.cfg MCAgentLoop
    tlapm AgentLoopProofs.tla

`PROJECT.json` lists the components, the runs, for every definition the source
lines it stands for, a mutation of the code for every property checked, the
findings, and the hazards of the code with the properties that watch them.

## 1. The system

Everything is under `src/internal` unless a path says otherwise.

| component | state it keeps | operations | what makes it hard |
|---|---|---|---|
| Agent loop (`agent/agent.go`) | conversation, turn, stream in progress, allow rules, event channel of 64 | `Run`: persist, request, receive, execute calls, ask, end | cancellation anywhere; a caller that is slow or gone; store errors that are dropped; a response that stops half-way |
| Permission decision (`permission/`) | deny and allow rules, mode | `checkToolPermissions`, `MatchRule` | the order of the stages |
| Providers (`provider/*`) | none between calls | `Stream`: an SSE or JSON response turned into events | each parser sends other events |
| Failover (`provider/failover.go`) | time of the last failure, behind a lock | `Stream`, `ResetFailure` | requests in flight across the cooldown record failures late |
| Subagent runner (`agent/subagent_runner.go`, `multiagent/`, `tool/task`) | states, cancel functions and results by task | `Run`, `Status`, `Cancel` | nested runs, each parent receiving its child's events |
| HTTP prompt requests (`server/server.go`) | active run, history and pending permissions of each session | prompt, cancel, list runs, answer a permission | overlapping requests; clients that leave; locks released before an effect |
| HTTP event subscriptions (`server/server.go`) | subscribers of a session, 128 slots each | subscribe, publish | events dropped on a full channel, or before the subscription |
| HTTP session resources (`server/server.go`) | none of its own; the run history | create, list, get, archive, messages, list runs | an archive between check and use; pages of a history that grows |
| Session store (`session/sqlite.go`) | sessions, messages, parts, todos | append and list | one statement after another, any of which may fail; order by whole seconds |
| Event bus (`bus/bus.go`) | subscribers | publish, subscribe | unsubscribe closes a channel |
| Terminal UI (`tui/`) | `running`, `pendingPrompt`, goroutines in flight, 16 queued prompts | keys and messages handled by `Update`; `Ask` | messages of an old run that arrive in a new one |
| Command line (`cli/`) | a reader of standard input | `run`, `serve`, `session`, stdio prompts | a cancelled prompt that still reads a line |
| Snapshots (`snapshot/snapshot.go`) | a shadow git repository, a lock per directory | track, patch, restore, prune; worktrees | half-done restores; renames; garbage collected beside a track; tools that edit meanwhile |
| Memory (`memory/memory.go`) | topic files and their index | write, delete, rebuild, load | two writers and one index; two limits |
| Configuration (`config/config.go`) | none | load and merge four sources | what a zero means, setting by setting |
| Skills (`skill/`, `tool/skill`) | a catalog, paths and activated names of the process | discover, activate | filled lazily by any session's call, without a lock |
| Todo tool (`tool/todo`) | a list in the session store | validate, store, publish | a list reported and not stored |
| Prompts, profiles, git helpers | files, caches | parse, substitute | sequential |
| Tools (`tool/*`) | the work tree, processes | validate, check, call | partial failure of multi-file edits |
| Hooks, LSP, MCP | none | interfaces only | no implementation in the repository |

How they interact. A caller (the `run` command, the UI, the server or the
subagent runner) calls `Agent.Run` and receives events from a bounded channel
that `Run` closes. Inside, the loop calls the provider (whose goroutine fills a
channel of its own), the session store (synchronously), the tools, and an
`Asker` supplied by the caller, which blocks until somebody decides. The Task
tool calls the subagent runner, which calls `Run` of a child. Cancellation is a
context that derives from the caller's.

What makes each correct:

* Agent loop: one terminal event and then the close; a conversation any provider
  accepts; every prompt resolved; nothing executed that is not permitted; the
  log a faithful prefix; a cancelled run ends once its tools return.
* Server: at most one run of a session goes on uncancelled, it is the one the
  table names, a run stays listed, the history is true, prompts can be answered
  and answers arrive, a cancelled request returns once the tool its agent is in does.
* UI: a key answers the prompt that is shown; the UI never stays busy; each run
  is followed to its close; each prompt gets to the screen (it does not: §6).
* Subagent runner: a result tells how the child ended and agrees with the state,
  nothing is left behind in the maps, cancelling ends the tree once tools return.
* Event feed: a client sees each run in its order, and without a gap while it
  keeps up. Listing: a walk through the pages skips no run.
* Sessions: the thread of a session has each run's messages in the order they
  were written; a todo list reported as stored is there.
* Snapshots: no collection takes what is referenced or in use; a restore that
  returns has brought every file back.
* Memory: the index is within its limits, and true after an undisturbed change.
  Configuration: the last source that gives a setting a value wins.
* Providers: the calls that run are the calls the model made. Failover: the
  primary is used again once it works. Skills: the project's win.

## 2. Modules

| module | models | state and actions against the code |
|---|---|---|
| `Permission` | the decision before a call | operators, one per function; a rule carries the set of inputs its pattern matches |
| `ToolDialogue` | abstract: what a provider requires of a conversation | a variable for the conversation, one for whether it is over; four actions |
| `AgentRun` | abstract: what `Run`'s caller sees of a run | operators on a record (phase, events held, outcome), used by every module that calls `Run` |
| `AgentLoop` | `Agent.Run`, `loop`, `processStream`, `executeToolCalls`, `askPermission`, the persisting | `pc` is the place in the code; one action per step that blocks, sends or calls out |
| `PromptServer` | one session of the HTTP server | a handler and an agent per request; lock sections are single steps, and what follows the unlock is a step of its own |
| `Tui` | the UI's `Update`, its goroutines and its asker | `Update` handles a key or a message in one step; `stage` is the goroutine that starts or follows a run |
| `Delegation` | the tree of agents and the runner they share | `call` is the place in `subagentRunner.Run`; `states`, `cancels`, `results` are the runner's maps |
| `EventFeed` | the event stream of one session: `publishEvent`, `handleSessionEvents`, `subscribeSession` | the subscribers are copied under the lock and sent to after it: `sending` is what a publisher still has to send |
| `RunsListing` | `appendRunHistory`, `handleSessionRuns` and its query | a client walks by offset while runs end; only entries and their status are kept |
| `Sessions` | the SQLite store, those who admit runs to a session, and `TodoWrite` | rows are positions of a sequence (their rowid); `writer` is the place in `AppendMessage`, one step per statement |
| `Snapshot` | `Track`, `Restore`, `Prune` | `op` is the place between two git commands; git is what its commands do to `work`, references and objects |
| `Memory` | `WriteTopic`, `DeleteTopic`, `RebuildIndex`, the clipping of the index | a topic is its place in the alphabet and the length of its line |
| `Configuration` | `Load`, `mergeConfig`, the environment | one setting per way of merging, instead of every field |
| `ProviderStream` | one response through each parser and `processStream`, and back into the next request | a block is its kind and its number of pieces |
| `Skills` | `activate_skill` and `FSLoader` | `user` is the place of each session's call; the maps are the process's |
| `Failover` | `FailoverProvider` | `rest` is what is left of the cooldown |
| `MCAgentLoop`, `MCPromptServer` | small instances | values of the constants only |
| `MCScheduling` | `Delegation`, `Failover` and one `PromptServer` request under their fairness | a sum: see below |
| `MCComponents` | the eight components that share no state | a sum: see below |
| `AgentLoopProofs`, `PromptServerProofs`, `TuiProofs`, `EventFeedProofs`, `SnapshotProofs` | theorems about one module each | — |
| `DelegationProofs` | theorems about `Delegation`, `Failover` and the sum `MCScheduling` | — |
| `ComponentProofs` | theorems about `RunsListing`, `Skills`, `Configuration`, `Sessions`, `Memory`, `ProviderStream` and the sum `MCComponents` | — |
| `Flattening` | lemmas about `FlattenSeq`, and induction over numbers | — |

`MCComponents` and `MCScheduling` check several components in one run: a behaviour
chooses a `part` in its first state and takes the steps of that part only. A
property of a part then holds of the sum exactly if it holds of the part and of
the initial states the part rests in, because no part reads another's
variables; the parts that rest are given one initial state to keep the sum of
the state spaces a sum. The components are not composed with one another: they
interact by calls that change nothing of what the other keeps (the server's
admission of a run is an action of `Sessions`, the end of one an action of
`RunsListing`).

`AgentLoop` EXTENDS `AgentRun` and `Permission`, and refines both abstract
modules: `KeepsDialogue` is `ToolDialogue`'s specification under a refinement
mapping, and `KeepsContract` says that every step is a step of `AgentRun` or
invisible to the caller. `PromptServer`, `Tui` and `Delegation` EXTEND
`AgentRun`: their agents are any that keep that contract, and `AgentLoop` is
proved to be one. So the three compositions are checked against less than the
loop does, for the price of a record with three fields.

`AgentLoop`, in the code's order:

* `EnsureSession`, `NoSession`: `ensureSession` and the user's prompt.
* `AppendMessage`, `AppendPart`, `Persisted`: one insert each; a write fails
  when the context is cancelled, and at most `MaxFaults` times otherwise. The
  loop ignores errors, and so does the model: it goes on as the code does.
* `BeginTurn`: turn budget and context, in that order, then the request.
* `StreamOpens`, `StreamRefused`, `RecvToolStart`, `RecvToolEnd`,
  `RecvMessageEnd`, `RecvError`, `RecvClose`: the provider's stream. `Protocol`
  says which parser it is, as the three send different events.
* `RejectCall`, `AdmitCall`, `AskPermission`, `AskReplied`, `AskCancelled`,
  `ResolvePermission`, `CallDenied`, `CallReturns`, `CallsDone`.
* `Finish`, `Fail`, `Close`; and the environment's `Receive` and `Cancel`.

`CallReturns` is a tool that returns, and nothing says that it must, cancelled
or not. In `PromptServer` and `Delegation`, whose agents are abstract, a tool is
a state of its own ("tool"), entered and left by steps of the agent.

What is abstracted: text, reasoning and usage events (they differ from
`tool.started` in nothing a property says); the 64-slot channel between the
parser and the loop, merged with the receive; the system prompt and the memory
put into it; a nil session store. The second check of the finish reason
(`agent.go:188`) cannot be reached with calls pending. `IsEnabled` is never
consulted by the agent.

`PromptServer` has one session because every map of the server is keyed by the
session and no operation touches two keys. `Refuse` covers every early
rejection, the one for an archived session included. `clearRun` and the
deferred `cancel` are one step: between them lies a local effect only. The
early return for a writer that cannot flush is left out (`net/http`'s always
can). A failed write ends the handler only when its client is gone.

`Tui` merges a goroutine's receive with the `Update` that handles the message:
what may happen in between is one more slot of a channel whose capacity is a
parameter anyway. After Ctrl+C `Update` runs no more; agents go on until the
process exits.

`Delegation`: contexts derive, so an agent is live when nobody in its `Lineage`
is cancelled. An agent executes one call at a time and so waits for its child.
A call that names a `task_id` reads a stored result and changes nothing.

`EventFeed`: several publishers stand for the overlapping prompt handlers of a
session, each of which publishes one event at a time; `since` records what had
been published when a client subscribed, so that a gap can be told from an
event that came too early.

`Sessions`: `admitted` lies between the check that a session is not archived and
the run's first write, so that messages for a session archived in between are
behaviours of the model, as of the code. A statement fails when another
connection has the database; the failure of the one that touches the session's
time is not looked at by the code. A crash is a writer that takes no more steps.

`Snapshot`: an operation holds the lock of its directory from `Enter` to
`Return`; `GiveUp` is a git command that fails, a cancelled context or a crash.
Renames are whatever pairing git may find among alike files, and a path with a
space is read as its last word. Tools edit the work tree at any moment.

`Memory`: a write that is cut off leaves an empty file, which the next rebuild
cannot parse and leaves out. There is no lock: two processes interleave freely.
The entries that do not fit are the last in the alphabet, as in the code; the
property leaves open which they are (§6).

`Configuration`: a plain setting's zero says nothing, an optional one's does,
and a flag can only be set; files may say zero of each. Which fields are which
was read off `mergeConfig`.

`ProviderStream`: `Sent` is what is left of a part on its way to the API.
Google's calls go without their id, and a result's id in the place of a name.

`Skills`: a directory is listed, and each name in it read and, as a step of its
own, entered. Before, between and after, files may change, and any other
session's call may begin anew with empty maps, into which the first goes on to
enter what it has read. A file that cannot be read counts as one that does not
parse. Go stops a process in which it notices two writers of a map at once; the
model goes on.

## 3. Runs

| run | instance | properties |
|---|---|---|
| `agent_wide` | one turn, two calls out of five kinds, one-slot channel | `TypeOK`, `OneTerminalEvent`, `PromptsAreResolved`, `SameStory`, `KeepsDialogue`, `KeepsContract` |
| `agent_turns` | two turns of one call, plan mode, a deny rule, an allow rule, always-replies, one store fault, Google's parser | `RunsAsPermitted`, `DenyRulesBind`, `LogFollowsConversation`, `CancelEndsRun` |
| `server` | two prompt requests, both streamed, one permission prompt each, history of one | `TypeOK`, `HistoryIsTrue`, `LiveRunIsActive`, `ActiveRunIsServed`, `PromptsCanBeAnswered`, `RepliesReachTheAgent`, `StaysListed` |
| `tui` | three submitted prompts, one permission prompt each, queue of one | `TypeOK`, `ShownPromptIsAwaited`, `RepliesReachTheirRun`, `BusyMeansUnfinished`, `EndedRunIsFollowed` |
| `scheduling` | a root, its child and its child's child; one prompt request with two permission prompts; three requests over a cooldown of three ticks | `TypesOK`, `NothingLeftRunning`, `ResultTellsTheEnd`, `StatusAgreesWithResult`, `CancelEndsTheTree`, `CancelEndsRequest`, `FailsBack` |
| `components` | see the bounds below | `TypesOK`, `SnapshotsSurvive`, `RestoreBringsBack`, `FeedIsFaithful`, `WalkMissesNothing`, `EachRunInOrder`, `ReportedTodosAreStored`, `IndexIsRight`, `LastValueDecides`, `ToolCallsSurvive`, `ProjectSkillsWin` |
| `truncated`, `denyrules`, `openai`, `undrained`, `tui_screen`, `skills` | the least in which it happens | one property each, which the code violates (§6) |

What they show beyond types:

* `SameStory`: the events the caller got and the results the model got agree,
  call by call, rejections included.
* `RunsAsPermitted`, `DenyRulesBind`: a rule granted in the first turn is used in
  the second, and reverses no deny rule. With one call to a turn, the run does
  not have a rule granted between two calls of the same turn; the theorems do.
* `LogFollowsConversation`: whatever writes failed and wherever the process
  stopped, the stored messages are messages of the conversation, in its order.
* `LiveRunIsActive`: however register, cancel and clear interleave, a run that
  goes on uncancelled is the one the table names or is about to be cancelled.
* `RepliesReachTheAgent`, `RepliesReachTheirRun`: the decision an agent acts on
  was taken on its own prompt; one that was accepted is not lost unless the
  run was cancelled.
* `StatusAgreesWithResult`: the runner writes a task's state and its result under
  two locks, and a cancellation by id may fall before, between and after.
* `BusyMeansUnfinished`, `EndedRunIsFollowed`: they hold although runs overlap.
* `SnapshotsSurvive`: without the lock, the collection at the end of a `Prune`
  would take a commit that a `Track` has made and not yet named.
* `RestoreBringsBack`: it holds although renames are read as modifications and
  the wrong file may be removed, since the checkout comes last.
* `FeedIsFaithful`: sends after the lock's release do not reorder a publisher,
  because each publisher waits for its own sends.
* `WalkMissesNothing`: runs are entered at the front, so that a walk by offset
  meets some twice and misses none that is still listed.
* `EachRunInOrder`: the time of a message is taken before its insert, so that two
  runs may be ordered by it against their rows; one run never is.
* `IndexIsRight`: the index on disk is within both limits whatever has failed.
  Failed and interleaved changes spoil what it lists until the next change that
  nobody disturbs, and not beyond it.
* `LastValueDecides`: less than "later sources override earlier ones"
  (`config.go:3`): a later zero or "false" is skipped where the merge cannot tell
  it from silence, and the property says which of two values wins (§6).
* `ToolCallsSurvive`: Anthropic's parser reports an end for every block that
  stops; what puts the calls together must drop those of text. In the request
  that follows, results come after their calls and in their order; that they
  carry the calls' ids is claimed for Anthropic and OpenAI only (§6).
* `ProjectSkillsWin`: a second discovery may begin in the middle of a first, which
  then enters what it had read into the emptied map; the order of directories
  decides all the same. It is claimed when all discoveries that overlapped are
  over, none failed and no file has changed since the first of them began: a file
  that changes under one of them may leave the wrong directory, since what is
  entered late was read early.
* `FailsBack`: failures recorded late prolong the cooldown, but not for ever.

Every property of a passing run has a mutation of the model in `PROJECT.json`
that breaks it: a dropped guard, a missing reset, an unbuffered channel. The
mutated definitions stand beside the originals under "Mutation:".

### Bounds

`MaxTurns`, `MaxCalls`, `MaxFaults`, `MaxAsks`, `MaxRuns` cap counters;
`EventCap` (64), `MaxHistory` (100) and `QueueCap` (16) are the code's own with
smaller values. Channels of one slot are full after one send, which gives every
blocked send the code can have. Two calls are the least for which order and a
partial failure show; two turns the least for which a rule granted in one is
used in the next; two requests the least that replace one another; a history of
one is at its limit at once. Three submitted prompts are the least with two
runs under way, since the second must already run when the first one's close
arrives. A chain of two tasks has a node that is parent and child.

In `components`:

* Snapshots: two files, one named so that its status line is read as the other;
  two contents, two callers, two commits (`MaxSnapshots`), the least for a
  parent and for a rename. The two callers are of one process; the lock does not
  reach another process's. No file is ignored.
* Event feed: two publishers of two events (`EventsEach`), two watchers, channels
  of one slot (`FeedCap`, 128).
* Listing: four runs end (`Ended`), three are kept (`MaxRuns`, 100), pages of one,
  of at most nine (`MostPerPage` is two, so that nine is lowered), by default of
  all, and by status.
* Sessions: one session, two runs of two messages (`MaxWrites`), two seconds. A
  message of another session is in no query of this one; the choice of the
  latest session is then a choice of one or none.
* Memory: three topics whose lines have 2, 3 and 4 bytes, limits that let in two,
  two processes.
* Configuration: one setting of each kind, two values and zero, every content of
  three files and of the environment, silence about a setting included.
* Providers: every reply of up to three blocks of three kinds, calls in two pieces.
* Skills: one name in two directories, two sessions, which are taken to work in
  one project.

Symmetry is used in `server` alone: requests are interchangeable and no
liveness is checked there. Deadlock is checked except where requests, agents or
components may all be finished (`PromptServer`, `MCScheduling`, `MCComponents`);
`AgentLoop` and `Tui` have an explicit final step.

### Fairness

* `AgentLoop`: the loop's own steps (Go schedules a goroutine that can run) and
  a caller that keeps receiving. The model and a user owe nothing until the
  context is cancelled; then the request or the body fails and `Ask` returns.
  Google's response is in memory before its channel exists, and is sent to its
  end. A tool owes nothing at all: `tool.go:31` asks of it to return once the
  context is cancelled, but `question.go:110-132` reads standard input and
  `bash.go:132-141` waits for whoever holds the pipe.
* `PromptServer`, `Delegation`: handlers, `Ask`, runner steps. That a cancelled
  agent ends is assumed (strong fairness, since it is enabled whenever there is
  room in a channel and the agent is in no tool), and is `AgentLoop`'s
  `CancelEndsRun`. That it leaves a tool is not assumed.
* So `CancelEndsRun`, `CancelEndsTheTree` and `CancelEndsRequest` are
  conditional: they have as a premise, of the behaviour, that no tool is stuck
  (`ToolsReturn`; `ToolsReturnBelow` for a task and those it delegates to). With
  a tool that never returns, a cancelled run does not end, and neither does the
  chain above it nor the request it belongs to.
* `Tui`: every command's goroutine and the delivery of its message. The user
  owes nothing: a prompt may stand for ever.
* `Failover`: time passes, and a call under way returns, as its context or the
  HTTP client sees to. Nobody owes a request, a reset, or the primary's repair.
* In `scheduling` the three are conjoined. The actions that fairness is about
  are disabled while a part rests in its initial state, so that the fairness of
  one part asks nothing of another.

The remaining components have no liveness worth stating: their operations are
straight lines of calls that return or fail.

## 4. Proofs

All for every value of the constants that meets the named assumptions: any
number of turns, calls, requests, any rules, any channel capacity.

`AgentLoopProofs`:

| theorem | states |
|---|---|
| `TypeCorrect` | `Spec => []TypeOK` |
| `OneTerminal` | `OneTerminalEvent` |
| `PromptsResolved` | `PromptsAreResolved` |
| `Permitted` | `RunsAsPermitted` |
| `Refinement` | `KeepsDialogue`: `AgentLoop` implements `ToolDialogue` |
| `Contract` | `KeepsContract`: every step keeps to `AgentRun` |
| `LogFollows` | `LogFollowsConversation` |
| `TheSameStory` | `SameStory` |
| `DenyBinds` | `DenyRulesBind`: a call a deny rule names completes only if its tool asks by itself |

The inductive invariant has two layers. `IInv` is `TypeOK`, with `Position` (what
each `pc` says of conversation, calls and results: in `execute` the newest
message is the model's and asks for exactly `toolCalls`) and `Progress` (results
so far answer the first calls, in order). Without `Position` the refinement does
not go through: that the loop appends answers to the message that asked is a
fact about the place it is at. `PInv` adds the prompts: an open prompt is the
last event, its call is the pending one, and a call about to execute was
cleared. `RunsAsPermitted` needs `Cleared`, because rules may have grown
between the decision and the execution.

`LogInv` is for the session log: entries name messages of the conversation, in
its order (`InOrder`); the message that is being written is the newest, and has
its entry exactly when its parts are being written (`AtHand`); and as long as no
write has failed nothing is missing (`NoGap`). The last needs `Whole`, the
number of messages that must be complete, because the newest is one less than
complete while it is at hand. `TheSameStory` follows both lists, what was told and what is in
the conversation, as each grows by one at its end; that the flattening of a
longer list is that of the shorter and one piece more is `Flattening`'s.
`DenyBinds` is what is true of the claim that the run `denyrules` refutes
(§6). Its `BlockInv` says that no call that is asked about, or about to run, is
blocked: a block is decided before allow rules and mode are looked at, so that
neither a rule granted meanwhile nor a reply reverses it.

`PromptServerProofs`:

| theorem | states |
|---|---|
| `ServerTypeCorrect` | `TypeOK`, the history within its bound |
| `LiveRunsAreActive` | `LiveRunIsActive`, for any number of overlapping requests |
| `PromptsAnswerable` | `PromptsCanBeAnswered` |
| `RepliesReach` | `RepliesReachTheAgent` |
| `HistoryTrue` | `HistoryIsTrue` |
| `ActiveServed` | `ActiveRunIsServed` |
| `RunsStayListed` | `StaysListed`, an action property |

`LiveRunIsActive` is inductive together with types. `PromptsAnswerable` and
`RepliesReach` need `Fresh` (a prompt not yet opened has no trace in any map)
and `OneClient` (what was replied was taken by a resolve request first).
`HistoryTrue` needs `RunAndAgent`: a handler that left its loop because the
channel was closed has received everything, so that the status it records is
that of an agent that has ended; and what a record says of a run (`Says`) stays
true, as outcomes are final. `RunsStayListed` needs `RecordedIsListed`: whoever
is about to take its run out of the table has entered it into the history,
unless its client had gone, and only a full history may have lost it since.

`TuiProofs`:

| theorem | states |
|---|---|
| `TuiTypeCorrect` | `TypeOK`, the queue within its capacity |
| `ShownIsAwaited` | `ShownPromptIsAwaited` |
| `RepliesReachRuns` | `RepliesReachTheirRun` |
| `BusyUnfinished` | `BusyMeansUnfinished` |

The invariant's core is `Outstanding`: the prompts in the queue and on the
screen are distinct, each awaited by its agent (or the program is quitting) and
unanswered, and a prompt not yet put into the queue has no answer. Distinctness
is what lets one prompt be answered without a doubt about the others; the last
part is what makes a new one unanswered when it is put. `Answers` then follows
a decision from the key to what `Ask` returns. These hold although a later
prompt may displace an earlier one (§6): what is displaced is lost, not misled.

`DelegationProofs`:

| theorem | states |
|---|---|
| `DelegationTypeCorrect` | `TypeOK` |
| `NothingRemains` | `NothingLeftRunning` |
| `ResultsTellTheEnd` | `ResultTellsTheEnd` |
| `StatusAgrees` | `StatusAgreesWithResult` |

`Verdicts` says that the runner's verdict is its initial "completed" until the
terminal event has been received, and tells that event from then on, which is
the last before the close; `Stored`, that a result is a verdict that was final;
`Unstarted`, that a call which has not started its agent has no run, and that
whoever delegates has itself been started; `Agreed`, that between the two writes
the state is already the verdict the result will get, unless the task's cancel
function has been taken by its id.

`EventFeedProofs`: `FeedTypeCorrect` and `FeedFaithful` (`FeedIsFaithful`). A
publisher sends its newest event only, so whatever a watcher has of it, in its
channel or shown, is not beyond `published`, and below it while the newest is
still being sent to that watcher (`NotAhead`): the next to arrive is always
later than all before it. `Subscribed` gives that whoever watches is among the
subscribers a publisher copies, so that nothing passes it by.

`SnapshotProofs`: `SnapTypeCorrect`, `SnapshotsAreSafe` (`SnapshotsSurvive`) and
`RestoreIsComplete` (`RestoreBringsBack`). The lock gives that at most one
caller is between two commands (`Excluded`), so that a collection meets no
commit in the making; what it keeps, the least closed set of commits that holds
the references, contains the references themselves. That the checkout comes
last makes a restored work tree right whatever was removed before it.

`DelegationProofs` also has `FailoverTypeCorrect`, and `SchedulingTypeCorrect`
(`MCScheduling`'s `TypesOK`), which combines the two: a behaviour of the sum is
a behaviour of each part, since a part that rests stutters.

`ComponentProofs`:

| theorem | states | of |
|---|---|---|
| `WalkMisses` | `WalkMissesNothing` | `RunsListing` |
| `ProjectWins` | `ProjectSkillsWin` | `Skills` |
| `LastDecides` | `LastValueDecides` | `Configuration` |
| `RunsInOrder` | `EachRunInOrder` | `Sessions` |
| `TodosAreStored` | `ReportedTodosAreStored` | `Sessions` |
| `IndexRight` | `IndexIsRight` | `Memory` |
| `CallsSurvive` | `ToolCallsSurvive` | `ProviderStream` |
| `OpenAIRunsNothing` | no call of an OpenAI model is ever put together (§6) | `ProviderStream` |
| `AllTypeCorrect` | `TypesOK` | the sum `MCComponents` |

with type correctness of each component (`HistoryBounded`, `SkillTypeCorrect`,
`ConfigTypeCorrect`, `SessTypeCorrect`, `MemTypeCorrect`, `StreamTypeCorrect`),
which `AllTypeCorrect` combines with those of the snapshots and the event feed.
Each component has an inductive invariant of its own:

* Listing, `ListInv`: the history holds the newest runs by number, newest first
  (`Newest`), so that a run that ends moves every other one place further and
  drops only the last; and of what a client has passed, each run that was listed
  when it began is among those it has seen (`Seen`). A page cut out of a
  filtered listing needs both of the listing before and after a run more:
  filtering is a flattening of pieces, and one more piece at the front shifts it.
* Skills, `SkillInv`: as long as no file has changed under the discoveries at work
  (`PathsLead`), what has been read and is still to be entered is there
  (`ParsedIsTrue`), every path names a directory that has the skill
  (`PathsAreTrue`), and each directory that has it is not beyond its path, or
  some discovery has still to come to that directory or to enter what it read
  there (`NoneIsMissed`, `Pending`). That some discovery need not be the one
  that emptied the maps, which is why two over one map do no harm.
* Configuration, `ConfigInv`: after each source every setting is already right
  for the sources read so far; a source that does not decide a setting changes
  neither the setting nor which source is the last to decide it.
* Sessions, `SessInv`: the messages of a run are numbered in the order of their
  rows at times that do not go back, and the one it is about to insert comes
  after them all (`InOrder`), which makes the order by time and then by row that
  of the run; what is reported has its row and its part (`RowsKept`).
* Memory, `MemInv`: what a process that met no other has found is what there is,
  and the index it has written is the index of that (`Alone`); and every index
  written is what the clipping leaves of a list of topics (`Listed`), so that with
  its header it fits (`KeptFits`). Of the clipping: `ClipIs` (the longest
  beginning within both limits), `AlphabeticalIs` (each name once), `KeptIs` (what
  is left names topics, each once, and all if all lines fit).
* Provider streams, `StreamInv`: at every moment some number of blocks has been
  read whole, the calls among them have been put together, and of the next block
  the pieces heard so far are what is in hand (`At`); the parsers of Anthropic
  and Google keep that with every event, and OpenAI's never puts a call aside.
  In the next request calls come before results because the two are told one
  after the other (`ConvertMessage` keeps the parts of either kind in order, and
  their ids except Google's of the calls).

`MemoryAssumption` says that the process that edits topics by hand is none of
`Keepers`; `StreamAssumption`, that a reply is a sequence of blocks with at
least one piece each.

`Flattening`. The library's induction takes the induction hypothesis as an
operator, which cannot be instantiated here. Its theorem that a non-empty set has
a least element under a well-founded relation takes a set: `Induction` is that
for subsets of the natural numbers, and what a recursive function computes is
then proved by induction over the set of numbers up to which it computes it. So
`FlattenSeq`, the byte counts and the cutting of `Memory` and the assembly of
`ProviderStream` are defined by recursive functions, and every fact about them
that an invariant needs is a lemma, proved for sequences of every length.

Only model-checked: liveness (`CancelEndsRun`, `EndedRunIsFollowed`,
`CancelEndsTheTree`, `CancelEndsRequest`, `FailsBack`), as ENABLED and fairness
are out of the prover's reach. Every invariant and every safety property of an
action that a passing run checks is a theorem. No module uses RECURSIVE.

## 5. What is not modelled

`PROJECT.json` gives the reason component by component.

* Event bus: its one publisher is `TodoWrite`, and nothing subscribes.
* Worktrees, profiles, the daily transcripts of the memory, `UpdateSession` and
  `UpdatePart`: nothing in the repository calls them.
* Prompt templates, git helpers, the removal of comments from JSONC, the
  pattern languages of rules, the frontmatter of skills and topics: text in,
  text out. Patterns and files are abstracted to what they match or whether
  they parse.
* Hooks, LSP, MCP: interfaces without an implementation.
* What a tool does to files, processes and the network: a call returns or fails,
  and in `Snapshot` a tool's edit is a step of the environment.
* The stdio asker: it serves one run and ends with the process.
* The allow rules shared by overlapping runs of one `Agent` in the UI (§8).

## 6. Where the code and its words disagree

* `truncated`: the parsers close the stream at the end of the body, whatever
  ended it, and the loop takes what arrived for the model's message; the run is
  `completed`, which `agent/types.go:98` reserves for a model that stopped by
  itself.
* `denyrules`: a tool that itself answers "ask" never gets to the deny rules,
  which `permission/permission.go:9` calls hard blocks.
* `openai`: its parser sends no end of a tool call, without which the loop
  drops the call: `tool.started` has been reported, nothing executes, and the
  run is `completed`.
* `undrained`: after a failed write the handler leaves the event channel, which
  `agent/agent.go:106` says its caller must drain.
* `tui_screen`: `running` is cleared by `EventDone` and again by the close of the
  same channel. A prompt submitted between the two is running when the second
  clears the flag; a third can then be submitted; and of two permission prompts
  the later replaces the earlier on the screen, whose agent waits until the
  program is quit.

* `skills`: the activated names belong to the process, and a name is in the set
  before its content has been loaded. A session is told "already active in this
  session" for a skill another session got, or none did.

Observations without a run, from reading:

* `SessionID` is said to resume a session, but its history is not loaded: a
  resumed run's conversation begins with its own prompt (`agent.go:96`, 125-133,
  `cli/run.go:103`).
* A run cancelled in mid-stream is reported as an error or as completed rather
  than aborted, and recorded so by the server.
* An allow_always reply adds a rule that is never consulted for tools that
  answer "ask" themselves.
* `Cancel` on a finished task turns its status into cancelled while its stored
  result keeps another state. `TaskID` is said to resume a task and returns its
  cached result.
* A session archived after a run's admission still gets that run's messages.
* The catalog of skills is that of the project whose session called first, for
  all sessions of the process.
* `RebuildIndex` drops the entries last in the alphabet, where
  `memory.go:236-238` says the least recently updated; and it stops at the first
  line that does not fit, though a later one may.
* A later source's explicit zero or "false" does not override an earlier value
  of a plain setting or a flag (`config.go:312`, 323, 448), where `config.go:3`
  says that later sources override earlier ones: an agent that the user's
  file disables cannot be enabled by a project's.
* A tool must return once its context is cancelled (`tool.go:31`), but the
  question tool waits for a line of standard input (`question.go:110-132`) and
  the shell for grandchildren that hold its output (`bash.go:132-141`, without a
  `WaitDelay`): cancelling then aborts no run, where `agent.go:106` says it does.
* A skill that was read before its file was removed may be entered after, also
  over what a newer discovery found, and is then loaded from a path that is gone
  (`fs_loader.go:152-163`).
* A renamed file survives a `Restore` beside the one brought back, where
  `snapshot.go:6` promises the state before.
* `Prune` deletes references but reclaims nothing, as every commit stays
  reachable as an ancestor of `current`, unless a failed rev-parse has started a
  new line of commits.
* A worktree's `Reset` runs `clean -fd` where its comment says `-ffdx`
  (`snapshot.go:318-331`), and `Remove` ignores a failed `branch -D`.
* A `ResetFailure` is undone by a request in flight that then records its failure.
* A project's deny list replaces the user's instead of adding to it
  (`config.go:326`).
* The OpenAI parser's last event, with the usage, erases the finish reason.
* Google's calls are sent without an id and its results with the call's id where
  the function's name belongs (`google.go:262`, 267-268), so that only their order
  ties them together; and generated ids start again with each response.

## 7. Reading order

`AgentRun`, `ToolDialogue`, `Permission`, `AgentLoop`; then `PromptServer`, `Tui`
or `Delegation`, which need only `AgentRun`; then the proofs, `Flattening` first. The modules of
`MCComponents` and `Failover` stand alone, in any order.

## 8. Plan

1. `GrantedRules`: the allow rules that overlapping runs of one `Agent` share,
   with Go's slices (array, length, capacity) and an append that is not locked;
   children that copy the slice.
2. Multi-file edits: which files a failed edit has changed.
