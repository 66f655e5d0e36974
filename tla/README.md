# FreeClaudeDesktop in TLA+

TLA+ specifications of FreeClaudeDesktop, model-checked with TLC, with proofs checked by TLAPS.
Paths are those of the repository.

## 1. The system

FreeClaudeDesktop lets Claude Desktop use any OpenAI-compatible gateway. One resident process, `freeclaude`, runs

- an HTTP **proxy** on 127.0.0.1:3000 (`proxy/`): it takes Anthropic Messages requests, answers some of them itself,
  translates the others to OpenAI chat completions, forwards them and converts the answer, streaming or not, back;
- a **dashboard** API (settings, models, RPC) behind the same port, and `/companion`, a WebSocket over which the proxy
  hands host operations to
- the **companion daemon** (`cli/src/companion_daemon.rs`), a task of the same process that connects back to the proxy;
- a **CLI** (`cli/src/main.rs`) that installs, starts, stops and removes that process and the files it manages;
- a **core** library (`core/`): settings file, keyring, models cache, atomic file transactions, the managed
  configuration of Claude (profile, environment, MCP servers), and the pure conversions.

| Component | State | Operations | Talks to | What is hard |
|---|---|---|---|---|
| SSE stream converter (`streaming.rs`) | flags, block index, tool table, channel of 100 events | one handler per kind of delta, done event, error, cancellation | upstream body, response body | every `send().await` can wait or be cancelled; the upstream orders deltas as it likes; deadline in mid-stream |
| Companion channel (`companion.rs`, `companion_daemon.rs`) | active session, pending map per session, backoff | forward a request, accept and end a session, resolve a reply, reconnect | dashboard RPC, WebSocket, settings | replacing a session that is still up, replies out of order, ids from the clock, half-dead links |
| Atomic file transactions (`atomic_file.rs`) | target files, staged temporary files, remembered originals | stage, commit, roll back, discard | every store below | failure or crash between two renames, two transactions at once, failing rollback |
| Settings and models cache (`config.rs`, `config_service.rs`, `models_endpoint.rs`, `models_cache.rs`, `dashboard_settings.rs`, `crypto.rs`) | settings file, keyring entry, one-slot models cache, managed configuration | save, refresh models, RPC ApplySettings, stale-model retry | gateway, files, keyring | read-modify-write across awaits, no lock, several stores written one after the other |
| Managed configuration (`launcher*.rs`) | profile copies, `_meta.json`, MCP servers, environment | apply, restore, reset, resync | Claude Desktop's files | partial failures, backups, restoring what was there before |
| Runtime lifecycle (`main.rs`, `native.rs`, `runtime_daemon.rs`, `autostart.rs`) | pid files, port, processes | install, start, stop, uninstall, purge | operating system | stale pid files, start and stop at the same time, health polling |
| Request handling (`handler.rs`, `model_retry.rs`, `upstream.rs`, `messages_probe.rs`, `router.rs`) | none of its own | dispatch, retry once, convert errors | all of the above | retry of a request already sent, settings refreshed meanwhile |
| Model routing and naming (`request_converter.rs`, `response_converter.rs`) | none (pure) | resolve a route, clamp the effort, normalise and rank models | settings | chains of fallbacks, collisions of aliases |
| Message conversion (`request_converter.rs`, `response_converter.rs`) | none (pure) | convert requests, answers and tool calls | handler | pairing of tool calls and results |
| Local answers (`optimization/`) | none (pure) | detect and answer background prompts | handler | order of the detectors |
| API log (`api_log.rs`) | log file and four archives | append, rotate | handler | rotation with a failing rename |

## 2. The modules

Every definition that models code is listed with its lines in `PROJECT.json` under `map`. Data is reduced to what the
properties tell apart; control is kept: every early return, error path and write, in the code's order.

```
MessageStream <--refines-- SseStream        <-- MCSseStream,        SseStreamProofs
                           Companion        <-- MCCompanion,        CompanionProofs
                           AtomicFile       <-- MCAtomicFile,       FilesProofs
                           SettingsStore    <-- MCSettingsStore,    SettingsStoreProofs
                           RuntimeLifecycle <-- MCRuntimeLifecycle, RuntimeLifecycleProofs
                           ManagedConfig    <-- MCManagedConfig,    ManagedConfigProofs
                           Conversation     <-- MCConversation,     ConversationProofs
ModelRouting  <--extends-- ProxyRequest     <-- MCProxyRequest,     ProxyRequestProofs
                           ApiLog           <-- MCApiLog,           FilesProofs
```

### SseStream, MessageStream (`proxy/src/server/streaming.rs`)

`start_sse_stream_conversion` is one task that reads the chunks of an OpenAI answer and writes Anthropic events into a
channel of bounded size, which the response body drains. The variables carry the names of the code's locals
(`sent_start`, `text_block_open`, `content_block_index`, `active_tools`, ...) in short; `todo` is what is left to do
of the chunk in hand. Each `tx.send(..).await` is a point where the task waits for the reader or is cancelled by
`tx.closed()`, so every event is an action of its own: `EnsureMessageStart`, `EmitTextBlockStart`, `EmitTextDelta`,
`SignThinking`, `CloseThinking`, `StartToolBlock`, `EmitToolDelta`, `FinishTool`, `EmitMessageDelta`,
`EmitMessageStop`, `EmitError`. `ReadChunk`, `ReadEnd` and `ReadError` are the upstream, `Receive` and `Disconnect` the
client, `Cancel` the select. The events written are kept as a ledger (blocks open, indices closed, events out of
place), as a reader of the stream would keep it.

`MessageStream` is the abstract specification: a message starts, blocks start at fresh indices and stop, the message
ends once, with all blocks stopped, unless an error ends it. `SseStream` restricted to an *orderly* upstream
(something is said before the first tool call, and nothing after it) implements it; the refinement mapping is at the
end of `SseStream`.

### Companion (`proxy/src/server/companion.rs`, `cli/src/companion_daemon.rs`)

A *session* is one connection of the daemon and one run of `handle_companion_session`; a *request* is one run of
`forward_request`. `active` is the slot of `CompanionState`, `rx[s]` the unbounded channel, `pending[s]` the map of
one-shot senders. A link may break by itself or because one end closes it, and each end notices in its own time, so a
new session registers while the old one is still up. When a session ends it empties the slot **whoever is in it**; a
successor that loses its only sender that way sees its channel end and returns too. Two requests may get the same
clock reading as id: the later one then takes the earlier one's place in the map.

### AtomicFile (`core/src/platform/atomic_file.rs`)

`write_transaction` step by step: stage each file, commit by rename one at a time, on failure restore what was
replaced, in reverse, and report `rollback failed` if a restore fails. Any system call may fail, a writer may die at
any point, and two writers may run at once, for there is no lock.

### SettingsStore (`config_service.rs`, `models_endpoint.rs`, `dashboard_settings.rs`, `companion_daemon.rs`, `models_cache.rs`, `launcher.rs`)

Five stores (settings file, keyring entry, models cache, Claude's managed configuration, deployment mode with
`_meta.json`) and seven kinds of operation on them: the dashboard's save, the models endpoint, the refresh by a stale
model, the companion's `ApplySettings`, the initialisation by `start`, the rewriting of the port in Claude's
configuration (`install`, and the companion's synchronisation), and the restoration. An operation is a list of
steps, each of which may fail; they overlap freely, since nothing locks the settings across the awaits. Before the
first of them the settings file may be of the flat format of old, or hold a key in plain text (`Relic`): `start`
migrates it (`Migrate`), and begins with the defaults if it cannot read it or cannot write what it migrated.

### RuntimeLifecycle (`cli/src/main.rs`, `cli/src/runtime/native.rs`)

`start`, `stop`, `uninstall` and `purge` against `proxy.pid`, the process table and `GET /healthz`. A daemon boots and
binds the port its command read from the environment, or dies if another has it; a dead child of a running command is
a zombie that `kill` still finds. Seven faults can be switched on (`Faults`): overlapping commands; a command that is
killed; a failing read, write or removal of a file; a daemon that is up but does not answer `/healthz` in time; a
`kill` that cannot be run; a crash of the daemon; a reboot.

The code can lose a daemon: it runs on, and `proxy.pid` does not name it, or soon will not. The history variable
`lost` holds the daemons this has happened to, and exactly four events put one there:

1. a health check that gets no answer from it, because it is slow, still booting or on another port: `start` goes on
   to overwrite the pid file (`Ask`; `main.rs:274-285`);
2. its pid cannot be written (`NotWritten`; `native.rs:33`);
3. the `start` that spawned it is killed before it has written the pid (`Interrupt`);
4. `uninstall` or `purge` takes the "not found" of a missing `kill` program for a missing pid file, goes on and reports
   success (`CannotKill`; `native.rs:55-57`, `main.rs:161-163`, `246-248`).

The properties say what holds of every other daemon, and so that nothing else loses one. A stop, an uninstall or a
purge may report success while a lost daemon runs, and a start may be answered by one.

### ModelRouting, ProxyRequest (`request_converter.rs`, `response_converter.rs`, `handler.rs`, `model_retry.rs`)

`ModelRouting` is the pure part: the list Claude is shown (order, aliases, levels of reasoning, visibility, the 1M
filter), the seven rules that resolve a name, the precedence of efforts and the fallback for a model that is gone. A
model is its provider id, a number; a name in a request is a record of what the rules can see in it.
`ProxyRequest` is `handle_proxy` from the settings to the answer, with one retry, while settings are saved (key first,
file later), lists fetched, models retired and the menu of Claude Desktop read again.

### ManagedConfig (`launcher.rs`, `launcher/environment.rs`, `launcher/mcp.rs`, `launcher/profile.rs`)

What a command does to Claude Desktop's files, step by step: `settings.json` of Claude Code with the record of what was
there before, the two profile directories (the official one and the mirror `Claude-3p`) with mode, servers and library,
and the backup that a reset sets aside. Eight commands are lists of steps (install, a save, resync, reset, restore,
uninstall, launch, the look at what is in force); a step may fail, which ends the command with an error after the
rollback the code has for it, or the process ends there. `PartMirrors` and `PartBackups` are the directories that a
copy or a removal leaves when it is cut short. Between commands the user edits `settings.json`. Commands follow each
other; their overlap is in `SettingsStore`, where all of this is one store.

### Conversation (`request_converter.rs`, `response_converter.rs`)

A conversation of several turns through both conversions: the client keeps a list of Anthropic messages, each request
carries all of it, and `Converted` is what the gateway gets. A text, an image, a call or a result is a token (turn,
kind, number). The client says something (text, blank text, an image, an unknown block), answers calls in three styles
(results and words in one message, in several, after a system message), sends a request again, or goes on after a
failure; the gateway's replies have thinking, text and calls, with or without ids. Nothing holds the client to the
calls of the last reply: it may send results under other ids (`Strays`), late ones, foreign ones or none, and the code
copies whatever id it gets (`request_converter.rs:420-433`). `CallsAreAnswered` therefore has two parts. For every
client, a tool message only ever stands behind an assistant's message. For a client that answers all calls of each
reply, and no other, in one message, every call of a request is answered by the tool message of its id, in order, and
no tool message is left over. For a client that does not, the proxy neither drops a result without its call nor makes
up for one that is missing, and no property says that it does.

### ApiLog (`proxy/src/server/api_log.rs`)

`append_record` and `rotate_logs`, a step per file operation; each may fail, or the process end there, which leaves
a rotation half done or a line torn. A record is its number, and a file the set of records that can be read from it.

## 3. What is checked

| Run | Question | Result |
|---|---|---|
| `sse_any` | What does the converter guarantee whatever the upstream sends, with a slow or vanishing client? | Text and thinking events are always in place, the stream ends once, an index is never reused after its stop; a client that leaves frees the upstream; every stream ends |
| `sse_orderly` | And for an upstream that keeps the usual order? | The stream is well formed and implements `MessageStream` |
| `sse_toolfirst` | Is that order needed? | Yes: a tool call that comes first opens a block outside any message, and the stream never ends properly |
| `companion` | Do replies reach their requests, does every request return, does the daemon find its way back? | Yes, except between requests that share an id; a broken link costs at most three connections |
| `atomic_file` | Is a transaction all or nothing? | Yes, for the files no other writer touches, failures and deaths included, except when it says `rollback failed` |
| `settings_any` | Do five stores written without a lock agree? | Claude's token stays the proxy's, the cache never serves another gateway's models, an edit that runs alone is in force everywhere |
| `runtime_any` | Does the pid file name every daemon, and do commands tell the truth? | Yes, while commands follow each other, but for the daemons that a health check missed, whose pid was not written, or that a missing `kill` left behind |
| `managed_any` | What do failing, repeated and interrupted commands do to the user's own configuration? | What the user had is in place or on record, the library survives a failed reset, and a command that succeeds has done all it says |
| `managed_uninstall` | Does `uninstall` put back what was there? | No: it restores twice, and the second time removes the variables the first has put back |
| `conversation` | What does the gateway hear of a conversation? | All of it, once and in order, if the results of a turn come in one message; then calls and results match one to one; each request goes on from the one before |
| `proxy_request` | Does a request reach the model that was picked, and is it answered? | Yes for every list and override of the instance; at most one retry, to another model; answered by what the gateway said; logged once |
| `api_log` | What do half-done rotations cost? | Only the oldest records; the rest stays in order, no file outgrows its bound |

The two runs that expect a violation are documented under `findings`, with the sentence of the repository that the
code does not keep. They use the specification without fairness where the property is a safety property.

### Bounds, and why they are enough

- **SseStream**: two tool indices, 64 chunks (8 lists of calls, with or without reasoning, text and a finish), a channel of 2, block index up to 2. Two
  tools and two blocks are what an interaction needs: the defects found show up with one tool and one text block. The
  channel of 2 is full after two events, so each event is at some time the one that waits. Several chunks follow one
  another until `MaxBase` stops the reading, so any sequence of kinds of delta occurs.
- **Companion**: two requests and two ids (so both equal and different ones), one link that breaks by itself and five
  sessions, one more than the four that `ReconnectsBounded` allows: a fifth could be opened.
- **AtomicFile**: a writer of three files and one of two of them in the other order, so that the rollback has
  something to do in reverse and the writers cross.
- **SettingsStore**: two operations of any kinds in any overlap, two gateways, two keys, two overrides, from any state
  a former save leaves and any file an older release does. With two operations every pair of reads and writes of the code is interleaved.
- **RuntimeLifecycle**: three commands, two process ids, two ports, two polls of the twenty: enough for a failed start,
  a stop and a removal around any fault, with one daemon lost and another on record. `overlap` is off, for all three
  properties have commands that follow each other as their premise (`calm`); the theorems hold with it as well.
- **ManagedConfig**: any number of commands, failures, interruptions and edits: the state space is finite, for a
  command leaves only what the files say. Two managed variables of the code's three (one the user has, one not), two
  servers (one of this program's older releases), two entries of the user's in the library, and every combination of
  profiles and files there may be before the first command.
- **Conversation**: three turns: a call is made in one, answered in the next, and both are carried by the third. Two
  calls at once are enough for their results to be apart. Besides the calls of the last reply the client may answer
  none, or the first call of the first turn (`MCStrays`): one that was never made, that a later reply has left behind,
  or that has been answered already.
- **ProxyRequest**: three models (free, reasoning, a 1M variant), three lists, two overrides, two mappings, every kind
  of name, one request and one change by each path under it. Requests share no state but the settings, which the
  changes alter whether or not a second request is the cause. Nothing changes any more once all are answered.
- **ApiLog**: an active file and three archives of three units, lines of one and two units, nine records: enough to
  fill all four files and to lose records, with a failure at every operation.

Operations, gateways, keys, commands and process ids are declared symmetric where only safety is checked.

### Fairness

- SseStream: the runtime polls a task that can run (`Write`, `Cancel`), and hyper polls the body of a live connection
  (`Receive`). The upstream owes nothing. `StreamEnds` has the total timeout of `http_client` (`core/src/lib.rs:70`)
  as its premise: once it has passed, every poll of the upstream fails.
- Companion: tasks that can run are polled, a closed loopback socket is reported to both ends, an RPC of the daemon
  returns, and a proxy that listens accepts the daemon at some attempt. Links need not break.
- ProxyRequest: weak fairness of each request's own steps: the same timeout ends every call to a gateway. Nothing is
  assumed of the user, of the gateway's list or of the client.

The other specifications have no fairness, for their properties are safety properties.

## 4. What is proved

TLAPS proves these for every value of the constants, under the assumptions named in the modules.

**SseStreamProofs** (any finite set of tool indices, any set of chunks, any capacity and index bound):

- `InvCorrect`: the inductive invariant `IInv`. That events are in place does not follow from itself: the flags have
  to mirror the ledger (`ProseAtBase`, `FlagsAgree`: the one open text or thinking block is the one at
  `content_block_index`), stopped indices have to lie below the index while chunks are read (`ClosedBelowBase`), and
  the events of the end come in order (`EndingInOrder`).
- `TypeCorrect`, `TextAndThinkingSafe`, `OneProseBlockSafe`, `EndsOnceSafe` and `ClosedIndexSafe` follow from it.
- `OrderlyCorrect`: for an orderly upstream, `OrderlyInv` adds that once a tool is known only tool calls are left to
  do, so the base stands still, and that the open tool blocks are exactly those at base + index. `OrderlyWellFormed`
  and `Refinement` (`OrderlySpec` implements `MessageStream`) follow.

**FilesProofs**, of the API log (any number of archives, any size, any set of line lengths that fit in a file):

- `LogInvCorrect`: `LogIInv` adds to the properties that nothing is recorded that was not written (`Recorded`), that the
  place the next rename fills is free (`GapAhead`) and that a line is appended only where it fits (`Fits`). `GapAhead`
  is what makes half-done rotations harmless: a rename in the loop never overwrites, whichever archives are missing.
- `LogTypeCorrect`, `LogInOrderSafe`, `LogOldestLostSafe`, `LogSizeBoundedSafe` follow from it. The names of `ApiLog`
  that `AtomicFile` has too begin with `Log`, since one module proves about both.

**FilesProofs**, of transactions (any number of calls, any files and contents, any lists of writes that name no file twice):

- `InvCorrect`: as long as no other writer has touched a call's files, where the call is says what is in each of them.
  While it commits, the files up to its place are new and the others as they were (`SplitAt`); a rollback goes
  downwards and leaves new only what it failed to restore (`PartlyBack`); and it can restore at all because the
  originals it has read are those of the beginning (`Remembered`) and it holds one for each file it has replaced
  (`Originals`).
- `TypeCorrect`, `AllOrNothingSafe` and `WholeFilesSafe` follow from it.

**CompanionProofs** (any finite number of requests, ids and connections):

- `InvCorrect`: a message is in one channel, once, and only until it is forwarded (`QueuedOnce`); a record is kept
  under its own id by the session that forwarded it (`OnRecord`); a request has its route from its first step
  (`Routed`); and sessions come one after the other, each when the link of the last is gone (`InTurn`).
- `ReconnectsBounded` is not inductive: a broken link costs connections long after it broke, since the session it
  belonged to may yet register over its successor, and yet empty the slot. `Budget` counts what is still to be paid,
  one for each such session and one for a last session that is going to end; no step raises the sum but a break, by
  three.
- `TypeCorrect`, `AnsweredByItsOwnReplySafe`, `WaitingIsHeldSafe`, `DisconnectedIsTrueSafe` and
  `ReconnectsBoundedSafe` follow from it.

**SettingsStoreProofs** (any number of operations, gateways, keys and models, in any interleaving):

- `InvCorrect`: the token is one because every copy of it is: the file, the file of old, Claude's configuration and
  what each operation in flight holds in memory all carry the token of the installation, until a restoration or a
  lost file (`OneToken`). A models cache is right although settings change under the fetch, because the list and the
  gateway it is stored under come from the same settings in memory (`Placed`, for the labels of `Fresh`). And an
  operation that nobody has disturbed has put in place what its place in the code says (`Stage`); a step of another
  operation contradicts that it is undisturbed (`Last`).
- `TypeCorrect`, `TokenAgreesSafe`, `CacheServesItsGatewaySafe` and `EditInForceSafe` follow from it.

**RuntimeLifecycleProofs** (any number of commands, process ids and ports, any patience of `start`, any of the faults):

- `InvCorrect`: while commands follow each other, the label of the command at work says which daemons there are, lost
  ones apart: none, only the recorded one, or only the one it has spawned (`Whereabouts`). A process that a running
  `start` has spawned cannot vanish from under it: who kills it leaves a zombie, which `kill` still finds (`Mine`).
  Each of the four events that lose a daemon adds it to `lost` in the step in which the label stops to account for it.
- `TypeCorrect`, `StoppableSafe`, `FailedStartSafe` and the action property `SuccessIsTrueSafe` follow from it.

**ManagedConfigProofs** (any variables, servers, files and libraries, any length of a history of commands; that the
models of something missing are not values is assumed in `SentinelsAssumption`):

- `InvCorrect`: a command is a list of steps, and `Progress(n)` says what it has achieved before its n-th: what a
  removal has undone (`Undone`), that Claude Desktop is in third-party mode (`Forced`), and, for a reset, where the
  user's library is while it is taken down and built again: in the mirror, then in the backup, always also in the
  hands of the command (`Rebuilding`). A reset that fails puts the backup back (`Undoing`); one that is cut short
  between the two leaves the library stranded, which the model records and the properties except.
- `KeptCode` is the invariant of `settings.json` of Claude Code: taking out the recorded values gives what the user
  had. Recording again, removing and the user's own edits all commute with it.
- `FilesTyped`, `UsersValuesKeptSafe`, `LibraryKeptSafe`, `RestoreCompleteSafe` and `InForceSafe` follow from it.

**ProxyRequestProofs** (any models, gateways, lists and overrides, any number of requests, any bound on the changes;
`ListsAssumption` only asks that a list is finite, `PrefsAssumption` and `NamesAssumption` that overrides and names are
of the kind the code parses them into):

- The order of a list is strict and total (`PrecedesOrder`), so positions differ (`PositionGrows`), and so do aliases,
  whatever their families (`AliasInjective`): each alias is the route to its own model and no visible model is without
  one (`RoutesToShown`, `RoutesCounted`). A fallback is a model and not the one that is gone (`FallbackIsAnother`).
  `SpecEveryModelHasAnAlias` says so of every step that writes a list.
- An effort becomes exactly one of a model's levels, to which none is closer (`ClampPicksOne`), so a request that
  names one effort sends at most one (`OneEffort`).
- `InvariantHolds`: `IInv` says, for each place a request can be at, what it has sent, heard and recorded (`At`); that
  outside a save the keyring holds the key of the settings' gateway (`World`), which is what makes `KeyKept`
  inductive; and that what was picked is a route of the settings the request works with until it is sent (`PickKept`),
  which with `MenuNameResolves` (of the seven rules, the first two decide a name of the menu) and `EffortIsListed`
  gives the model and the effort of the call.
- `SpecRetriesOnce`, `SpecAnswerTellsTheReplies`, `SpecLoggedOnce`, `SpecKeyOfItsGateway` and
  `SpecPickedModelIsAsked` follow from it, and so does `SpecTypeCorrect`.
- `SpecClaudeNamesAreMapped` says that no name with brackets, and none of the form `claude-...-<number>`, reaches the
  gateway unmapped while there is a list; other names go out as they are. It needs
  that the first of the seven rules that says anything exists, and that a list has a first model (`FirstExists`): both
  are least elements, which exist because the order of the numbers is well-founded (`LeastExists`).

**ConversationProofs** (any number of turns, any words of a turn, any replies with any number of calls, any results and
styles of the client, any results under other ids; `NoReplyAssumption` only says that the mark of a missing reply is not a reply):

- What the conversions do is a comprehension over the messages, flattened, and so on for the blocks of each. The lemmas
  say how each operator goes over concatenation (`FlattenAppend`, `OfKindConcat`, `TokensAppend`, `ConvertedAppend`,
  ...); they rest on an induction of their own (`Induction`, `SeqInduction`: a set that holds the empty sequence and
  every extension of its members holds all of them), from the well-foundedness of the numbers.
- `InvCorrect`: `Converted` looks one message back and never ahead, so a history that is extended extends what it
  becomes (`ConvertedGrows`), and what was sent stays a beginning of it (`Sent`). Tool messages stand behind an
  assistant's (`Behind`), whatever the client sends. If it answers the calls of each reply, what the messages become
  has all calls answered but those of the last reply, which the next turn answers (`HistoryAnswered`, `TurnAnswered`);
  and whether or not it is sent, what they become says
  what the turns told (`HistoryAsTold`), of which the last has no reply before the gateway's (`Unreplied`). For a turn,
  `TurnHeard` goes through the messages the client may add; for a reply, `ReplyHeard` through both conversions.
- `TypeCorrect`, `CallsAreAnsweredSafe`, `HeardAsToldSafe` and the action property `OnlyGrowsSafe` follow from it.

Every invariant and every step property that a passing run checks is proved in this way. Liveness under fairness
(`DisconnectReleasesUpstream`, `StreamEnds`, `EveryRequestReturns`, `Reconnects`, `EveryRequestAnswered`) stays with
TLC: it needs `ENABLED`, which the provers cannot expand. No module has a recursive operator: what the code does in a
loop is a comprehension, a least element or a sequence flattened, which lemmas over sets of numbers and of sequences
can reach where the induction theorems of the library, with an operator as their parameter, cannot be used.
A theorem of `Spec` holds for the specification the runs use: they only add fairness to it.

## 5. What is not modelled

- The line splitting of the byte stream (`streaming.rs:502-571`): `SseStream` begins with whole lines. A last line without
  its newline is never looked at, so for the model it was not sent.
- Of the conversion, the system text, the definitions of tools, `tool_choice` and the sampling parameters.
- Finding and starting Claude's executable; other programs that write its files while a command runs.
- Types are not the subject of a run, except for the converter, where `TypeOK` bounds the channel: they are
  theorems.
- The detectors of `optimization/` and the web tools: text matching. That a request may be answered locally is an
  input of `ProxyRequest`.
- The autostart backends, the steps of `install` after the start, the reuse of process ids by other programs, another
  program that answers `/healthz` on the port, and the handling of the daemon by systemd, whose
  unit (`autostart.rs:69`, `Type=simple` with `ExecStart=start`) ends when `start` does. Nothing is said of commands
  that overlap: the code does nothing to keep two starts apart.
- The exits that end the companion daemon for good (`companion_daemon.rs:114-121`: an address or a header value that is
  not valid). The program makes the token and the address itself, and they are valid; `Reconnects` depends on it.
- Of routing, an alias in brackets of rule 4 (`request_converter.rs:137`). An id sent as it is, without having been
  discovered, has no entry in the list: for it "another model" of `RetriesOnce` means one that is not that very id.
- A save in the middle of a request: `KeyOfItsGateway` has as its premise that no save came between the two reads of
  the settings, and `PickedModelIsAsked` that the menu was current. What a lost update of the settings does (two saves
  that each read the file before the other has written) is in the state space of `SettingsStore`, and no property
  forbids it.
- The error of `fs::metadata` that `append_record` takes for an empty file; a rename of the active file that fails
  for ever makes each attempt drop one archive, which `OldestLost` allows.
- Aliases are compared by number; their text sorts `10` before `2`, which changes the order in a family of ten or more
  reasoning models, not their routes.
- The dashboard's pages, the command line's parser, the update check and the packaging have no state.

## 6. Plan

1. Done: the converter with its abstract specification, the companion channel, file transactions, the settings stores,
   the managed configuration, the runtime lifecycle, request handling with routing, the API log, conversations, each
   with its proofs.
2. Pure parts against reference definitions: `LineBuffer` and its independence of how the bytes are cut.
3. Abstract specifications with proved refinements for further components: of a transaction (all files at once, or
   none) and of the retry (a request and the answer to it).
