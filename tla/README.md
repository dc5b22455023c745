# TLA+ models of parism

parism is a TypeScript library and MCP server that guards, runs and parses
command-line programs for a language-model client. This directory models what
happens between a request and its answer: whether a command may run and with
which arguments, the child it runs in, how its output becomes rows, what is
masked, retained, compared and read on, the helper processes and threads that
work for it, and the workshop in which parser packs are added and tested.

Paths below are relative to the repository (`src/engine/...` is the code's own
`src` directory). All checks run with TLC and TLAPS:

    tlc -config MCSemaphore.cfg MCSemaphore.tla
    tlapm Semaphore_proofs.tla

## 1. The system

| component | state it keeps | operations | what is hard | what makes it right |
|---|---|---|---|---|
| configuration (`config/loader.ts`, `schema.ts`) | the merged configuration | read the user's file, the project's, the environment | a project file that is not vouched for may only narrow, field by field | `UntrustedOnlyNarrows` |
| guard and policy (`engine/guard.ts`, `policy.ts`) | a cache of real paths | `checkGuard`, `buildExecArgs` | what is a flag, a value, a path, under which of three tables | `PathsStayInside`, `ExecutesWhatWasChecked` |
| execution slots (`engine/semaphore.ts`) | `active`, `waiters` | `run` = acquire, task, release | hand-over of a slot between two callers, order, lost wake-ups | `ImplementsFifoSlots`, `WaitingIsServed` |
| child processes (`engine/executor.ts`) | the closure of each `runProcess`, the module's `liveGroups` | spawn, timeout, data, exit, close, error, grace timer, shutdown hooks | the order of these events, descendants, process groups | `SuccessIsComplete`, `KilledRunLeavesNoGroup`, `OnlyTheUnsettledKill`, `EventuallySettles` |
| execution of requests (`facade/engine.ts`) | `execSlots` | `run`, `runPaged` | a slot must last as long as its child | `BoundedChildren`, `ShutdownSweeps`, `RequestsFinish` |
| parser registry (`parsers/registry.ts`, `format.ts`, `invariants.ts`) | parsers, packs and contracts by command | register, replace, check the format, parse | order of attempts, an empty value that is none | `HonestEmptiness`, `CauseIsKept` |
| command parsers (43 files) | none | text to rows | quoting, renames, two record formats | `RowsAreTrue` (git status) |
| projection (`engine/projection.ts`, `parsers/compact.ts`) | none | where, sort, limit, select, fold | mixed types, unknown fields, which array | part of `RowsAreTrue` and of the failures |
| masking, evidence, review (`engine/mask-map.ts`, `evidence.ts`, `review.ts`) | none | mask with several patterns, map spans, verify | positions in two texts, bytes and characters | `EvidenceIsExact` |
| comparison (`engine/compare`) | none | fingerprints, identities, diff | what an incomplete side may say | `HonestComparison`, `RemovedIsGone` |
| result store (`engine/result-store.ts`) | `entries` (an ordered map), `totalBytes`, `misses` | `put`, `get`, `markNotRetained` | age, bytes and last use at once; the reason why something is gone | `StoresKeepTheirLimits`, `HeldOrExplained`, `AnswersTruthfully`, `LeavesInOrder` |
| budget (`engine/budget/index.ts`, `facade/run-budget.ts`) | the search interval, the rows kept | `applyBudget`, `applyRunBudget` | two measures that differ, one retry | `KeepsTheMost`, `MetIsHonest`, `MissedCapKeepsRows` |
| continuation (`facade/engine.ts`) | `pages` (rows by result id) | `fetchResult` | two stores with different lifetimes; offsets held by the client | `ReadsInOrder`, `CursorHonoured` |
| paged runs (`engine/page-cache.ts`, `facade/engine.ts`) | the cache | `runPaged` | overlapping runs of one key, failures, age | `AnswersTruthfully` |
| isolated packs (`parsers/external/host.ts`, `worker.js`) | session, pause, failure count; a shared signal word | parse, evalValues, contract calls, close | two threads, deadlines, restarts | `NoLostWakeUp`, `OneRequestInFlight`, `BlamesTheCurrent`, `ExchangesEnd` |
| native regex engine (`engine/regex-native.ts`, `regex-engine.ts`, `crates/parism-regex`) | pending requests, timers, the process | send, drain, kill, settle | one process for all requests; partial frames; the event loop it holds | `HoldsTheLoop`, `FallbackExplained`, `EverySettles` |
| sandboxed packs (`parsers/external/sandbox*.ts`, `crates/parism-sandbox`) | one shared process | request and response files | polling while no event is delivered; abandoned calls | `AnswersItsOwnCall`, `LeavesOnlyTheLate`, `ParseReturns` |
| fixtures (`fixtures/*.ts`) | files | capture, sanitize, replay | two versions of a parser; what a replay does not look at | `GreenIsEarned`, `RedactsInPlace` |
| command line (`cli.ts`, `cli/*.ts`) | `~/.parism` | add, capture, test, eval | several processes on one directory, copies over one another, a kill between two writes | `RegisteredLoads`, `EvalAgrees`, `BrokenPackFails` |
| availability (`engine/availability.ts`, `install-hints.ts`) | a cache of what was seen of each command | probe, describe, attach to a failed run | the host changes between two looks | `AdviceIsRecent` |
| telemetry, server | counters | | text | |

How they interact: a request is checked under the configuration, waits for a
slot, and runs its child inside it. The output is parsed (by a command parser,
an isolated or a sandboxed pack), projected, put into the form that was asked
for, redacted (by the native regex engine or its TypeScript twin) and reviewed;
`attachReview` puts the result into the store or records that it is not
retained; `applyRunBudget` cuts the rows to the token budget and keeps the uncut
rows in `pages`. Later calls (`fetch_result`, `explain_result`,
`compare_results`) read these two stores without running anything. `run_paged`
bypasses all that: it has its own cache of whole outputs. The command line fills
the directory from which a server loads its packs. Everything but the children,
the workers and the two native processes runs on one event loop, so a handler is
atomic and every `await` is a point where other requests run.

The hazards of each part, at the lines where they bite, are the `hazards` of
PROJECT.json.

## 2. Modules

| module | models | its counterpart in the code |
|---|---|---|
| `FifoSlots` | what the slots promise | none: the `Limit` oldest calls hold the slots |
| `Semaphore` | `engine/semaphore.ts` | `active`, `waiters` as in the class; `state[t]` is where the call of `run` stands: between `acquire` and its continuation it is `granted` |
| `ChildProcess` | `engine/executor.ts` | `job[r]` is the closure of one `runProcess`, `liveGroups` the module's set; `os[r]` is the operating system's side: the child, descendants inside and outside its group, unread bytes, SIGKILL |
| `Executor` | `execSlots.run(() => execute(...))` | instantiates the two modules above; the handlers of the children are steps of it |
| `OrderedMap` | a JavaScript `Map` as both stores use it | a sequence in insertion order: `Kept` (what stays of chosen places), `Rest` (without the oldest), `BytesOf` |
| `ResultStore` | `engine/result-store.ts` | `entries` is the map in insertion order, as LRU uses it; `minted` and `lookup` record what clients were told |
| `Continuation` | `pages`, `fetchResult`, the end of `run` | instantiates `ResultStore`; `phase`, `cursor`, `received` are a client that follows its cursors |
| `Budget` | the loops of `applyBudget` | `lo`, `hi`, `kept`, `cap` as in the code; `body[k]` is what `measure` answers for `k` rows, `extra[k]` what the report on the omission adds |
| `RunBudget` | `applyRunBudget` | extends `Budget`, whose steps it runs once or twice; `original` and `final` as in the code, `mode` what there is to cut (`Fixed`: nothing, the function returns at once), `base[k]` the answer without the placeholder of the report (`Report`, and `Omission`, the empty list), `delivered[k]` is `measureDelivered` |
| `PagedRuns` | `runPaged`, `engine/page-cache.ts` | `cache` is the map; `call[c]` the run a client waits for |
| `Availability` | `engine/availability.ts`, `facade/engine.ts` (`attachAvailability`, `describe`) | `probed` is the cache, `host` the files along the PATH, `advice` the last answer; `seen` remembers what was so and when |
| `IsolatedPack` | `parsers/external/host.ts`, `worker.js` | `phase`, `signal`, `inbox`, `port`, `ready`, `startLeft` are the current session and its worker; `pc` is where the main thread stands in `exchange` and `awaitReply`; each access to what the threads share is an action |
| `NativeRegex` | `engine/regex-native.ts`, `regex-engine.ts`, `crates/parism-regex` | `call[c]` is one request with its timer, `buffer` what `drain` has not taken, `dead` and `ref` as in the class; the helper process is the environment and may serve, fall silent or die in a frame |
| `Sandbox` | `parsers/external/sandbox.ts`, `sandboxed.ts`, `crates/parism-sandbox*` | `dir`, `response` are the files of each call, `helper`, `doing`, `outcome` the other process; between two polls no event reaches the server, and the directory of a call is emptied and removed in two steps, between which the helper may write into it |
| `Policy` | `engine/policy.ts` | the tables by one command of each shape, `tokenizeArgs`, `tokenizePolicyless`, `buildExecArgs`; an argument is its form and a class of text |
| `Guard` | `engine/guard.ts` | `checkGuard` in its order, over a tree of four paths with one link |
| `Config` | `config/loader.ts`, `config/schema.ts` | one action for each layer that is read; a field of a file is a value or something invalid. `without` is what the same layers would give without the project's file |
| `Admission` | the first half of `run` | extends `Config`: one request under the configuration that was loaded |
| `Registry` | `parsers/registry.ts`, `format.ts`, `invariants.ts` | contracts, verdicts on formats, hints, `parseOnce` and its fallbacks, as operators |
| `StatusPorcelain`, `CQuotes` | `parsers/git/status-porcelain.ts`, `engine/c-quotes.ts` | the parser on sequences of units, with the place of each field; and, external, what rows git may print (`IsRow`) and how (`PrintRows`) |
| `Projection` | `engine/projection.ts`, `parsers/compact.ts` | `ApplyProjection` and its parts, as operators |
| `Masking` | `engine/mask-map.ts`, `redactor.ts`, `review.ts`, `evidence.ts` | `MaskWithRanges`, `MapRange`, byte positions, verification, as operators; a pattern is a set of letters |
| `Compare` | `engine/compare/*.ts` | `CompareFingerprints`, `Identity`, `CompareResults`, as operators |
| `Pipeline` | `run` after its child, `facade/review.ts`, `compare`, `explainResult` | `registry`, `stats` and `kept` (retained results); `call` is the run in progress, at `parse` or at `redact`, the two places it can wait |
| `Sanitize`, `Replay`, `Evaluation` | `fixtures/sanitize.ts`, `fixtures/replay.ts`, `cli/eval.ts` | pure operators on texts, trees and cases; `DiffJson` compares two values level by level, down to `MaxDepth` |
| `Workshop` | `cli/add.ts`, `auto-loader.ts`, `capture.ts`, `test-runner.ts`, `fixtures/run.ts`, `cli.ts` | the directory (`parsers`, `registry`, `fixtures`) as the processes that share it read and write it, and a kill between any two steps. An add copies file by file over what is there; `files[f].of` is whose bytes may be in a file, `torn` who has not written it to its end. A directory that is whole loads as its pack, any other as some pack of its name or none (`Loadings`) |

The `MC*` modules and `.cfg` files give the constants values; `*_proofs` hold
the theorems. Three of them put several components side by side: a behaviour of
`MCHelpers` (three parts), `MCDelivery` (five) or `MCRequests` (two) is one of a
part that the variable `part` names, while the variables of the others keep
their first values. The parts do not interact there: they share a run, not a
state. `Over(top, base)` and `With(files, name, content)` are the code's
`{...base, ...top}` and a write to one name. No module has a RECURSIVE operator,
so that every module can be proved about: what the code does by recursion is a
fold or a recursive function here. Operators that a comment calls a mutant are deliberately wrong
variants of the definition that follows them. No specification uses them: each
shows that a property fails when that definition is wrong in that way.

What is abstract: a command's output is a number of chunks, a result a number of
bytes, rows are numbers, a request to a pack is its id. A row's cost is any
monotone function, so the tokenizers and the wording of reports are covered
without being modelled. Times are counted in ticks.

## 3. Runs

| run | module, cfg | checks | what it shows |
|---|---|---|---|
| `semaphore` | `MCSemaphore`, `MCSemaphore.cfg` | `ImplementsFifoSlots`, `WaitingIsServed` | Four callers on two slots: the slots are served first come first served (the abstract FifoSlots), and every waiting call gets its slot. |
| `child_process` | `ChildProcess`, `MCChildProcess.cfg` | `SuccessIsComplete`, `KilledRunLeavesNoGroup`, `OnlyTheUnsettledKill`, `EventuallySettles` | One child on either platform with both pipes, descendants in and outside its group, refused signals and every order of timeout, data, exit and close, and a plain child that may be given the same process id before or after it: a success is complete, an ended run leaves nobody of its group, only an unsettled run kills, and with a time limit every call settles. |
| `executor` | `Executor`, `MCExecutor.cfg` | `BoundedChildren`, `ShutdownSweeps`, `RequestsFinish` | Three requests on two slots, a snapshot that may throw before the child, and the end of the server at any moment: no more children than slots, the shutdown hooks leave no unsettled run alive, and every waiting request is executed to its end. |
| `helpers` | `MCHelpers`, `MCHelpers.cfg` | `OneRequestInFlight`, `NoLostWakeUp`, `HoldsTheLoop`, `FallbackExplained`, `AnswersItsOwnCall`, `LeavesOnlyTheLate`, `BlamesTheCurrent`, `ExchangesEnd`, `EverySettles`, `ParseReturns` | The three helpers of the engine, each with its host: a worker thread that hangs, exits or dies, a regular expression process with two requests in flight when it fails, and a sandbox process with abandoned calls. Every answer goes to its own request, nothing is lost, nothing but a response that comes too late is left behind, and every wait ends. |
| `delivery` | `MCDelivery`, `MCDelivery.cfg` | `KeepsTheMost`, `MetIsHonest`, `MissedCapKeepsRows`, `StoresKeepTheirLimits`, `HeldOrExplained`, `ReadsInOrder`, `AnswersTruthfully`, `LeavesInOrder`, `AdviceIsRecent` | How a result reaches its client in pieces: both applications of the budget over every monotone size of three rows, the result store and the page store under eviction and expiry, a client that follows the cursors, and two clients whose paged runs overlap; and what a client is told when there is no such command, on a host that changes between two looks. |
| `requests` | `MCRequests`, `MCRequests.cfg` | `UntrustedOnlyNarrows`, `PathsStayInside`, `ExecutesWhatWasChecked`, `HonestEmptiness`, `RowsAreTrue`, `CauseIsKept`, `EvidenceIsExact`, `HonestComparison` | A request before its command runs, under configurations of three layers, and after it, over outputs, readers, contracts and request shapes: an untrusted file only narrows, no admitted argument leads outside, what runs is what was checked, and what is answered, explained and compared is true. |
| `workshop` | `MCWorkshop`, `MCWorkshop.cfg` | `RegisteredLoads`, `RedactsInPlace`, `GreenIsEarned`, `EvalAgrees` | Three adds of two packs and one of a bad name, run at once, copied file by file over each other and killed anywhere; captures, also of commands that do not start, reviewed or not, broken or not, read by two versions of the parsers; every suite eval may be given. |

The five runs that expect a violation are in section 4.

### Bounds

A clock (`now`) stops at `MaxTime`, at least one tick after the time to live has
passed, so that every age comparison is seen on both sides. `MaxFetches`,
`MaxRuns`, `PipeCapacity`, `MaxFailures`, `MaxGhosts`, `Ids` of `IsolatedPack` and
the finite sets of costs and sizes bound the rest. The instances are the smallest
on which the cases differ:

- two slots and four callers: two can wait, so their order matters;
- one child on each platform, with a descendant of each kind and one chunk more
  than the buffer holds, and a second one (`Plain`: it writes nothing and starts
  nothing) for the single process id there is, so that it can only start before
  the first or when nobody is left in its group; three requests on two slots, where a child may succeed,
  fail, not start or hang while the third waits (`Reuse = FALSE` there: ids are
  the other run's subject);
- three places for four results, and a byte limit that binds before the number
  of entries does and after;
- two page places for three results of two rows, so that every result can be
  evicted from either store while it is read;
- three rows for each application of the budget (a search of two steps), with
  sizes from nothing to almost twice the budget, so that the second application
  is asked for every cap it can be asked for;
- three keys on two entries and two clients, so that runs of one key overlap and
  evict another;
- a command and its package manager, one place each may be in, a time to live of
  two ticks and a clock of three, and two changes of the host: an answer may rest
  on a look that is fresh, one that has just expired, and one the host has since
  belied;
- calls of two ticks, a startup of three and pauses of one to three: a startup
  outlasts a call, and a call the first pause;
- two requests to the regular expression engine, which may both be pending when
  it fails, or one after it; two parses by a sandboxed pack, so that one is
  abandoned while the next is asked for;
- layers with one field each and those in which fields depend on one another,
  against requests that have every role an argument can have (word, flag, bundle
  of letters, value in the next argument or glued on, after `--`, passed on);
- outputs with quotes, arrows, a character of two bytes, one that is a surrogate
  pair (`high`, `low`), also at the beginning of a field, and a secret, in both record
  formats, more rows than `MaxItems` and fewer; readers of every kind and
  contracts that accept, refuse and warn; two runs a session, the second only
  after a first one that was read and retained (`GoOn` in `MCPipeline`; `MCGoOn` also stops the admitted requests). The
  runs with two patterns are a run of their own: with them `EvidenceIsExact`
  does not hold (section 4);
- values that nest at most three deep (`MaxDepth`), as those of the instance do
  (`ReadingsAssumption`): were they deeper, the comparison of the model would miss
  a difference the code reports;
- three adds of two packs and one of a bad name, two of one name and of different
  files, so that copies mix and a file of the first pack stays beside the second;
  two files of fixtures and one
  tick of the clock, so that two captures fall into one second; every expectation
  of `eval` alone, and pairs where a later case depends on what was stored.

### Fairness

`Semaphore`: the microtask queue drains (WF of `Start`) and a task settles (WF of
`Release`). `Executor` discharges the second assumption: there a slot is
returned when the child has settled, and `RequestsFinish` follows from the
fairness of the event loop (timers and events are delivered) and of the kernel
(SIGKILL takes effect). Commands, descendants, clients and the user are never
obliged to act, so a child may hang for ever and its descendants may keep the
pipes; the time limit (`TimeLimited = TRUE`) is what makes the call settle. With
`timeout_ms = 0` it need not, which the code says.
`IsolatedPack`: the main thread runs (WF of `Host`) and time passes (WF of
`Tick`); the worker is never obliged to do anything. `NativeRegex`: continuations
run and a timer that is set fires at last; the helper is never obliged to answer,
so every request must end by its timer if by nothing else. `Sandbox`: the thread
that polls runs, reaches its deadline and gets through the removal.

## 4. What the runs show to be wrong

Each of these is a run that expects a violation; TLC's trace is the scenario.

- **`cursor_honoured`** (`CursorHonoured`, src/facade/run-budget.ts:113). The rows are stored only when the first application of the budget left rows out; the second application with the tighter cap (lines 208-215) may be the one that cuts and issues the cursor, and then no rows are stored for it. fetch_result answers unknown_id, or "this result was returned in one page; there is nothing to continue". src/src/facade/run-budget.ts:110 says "이어 읽기는 재실행 없이 같은 결과에서 이어 가야 한다" (reading on must continue from the same result without a re-run).
- **`nul_path`** (`RowsAreTrue`, src/parsers/git/status-porcelain.ts:88). readPathIn takes a path that begins with a quote for a quoted one in either record format. With -z git prints paths as they are, so the file named `"a"` (quotes included) is answered as the path `a`, and one whose quote has no end, or a bad escape, is left out of the entries. src/src/parsers/git/status-porcelain.ts:35 says of path "-z 형식이면 가공이 없고 줄 구분 형식이면 따옴표·이스케이프를 풀었다" (in the -z format it is not processed, in the line format quotes and escapes are undone), and line 39 that `quoted` can only be true without -z. `IsRow` leaves such rows out of the outputs of the other runs.
- **`broken_pack`** (`BrokenPackFails`, src/cli.ts:129). parism test exits with 1 only for an invalid manifest, a changed contract or packs.failed. A fixture of a pack whose parse throws is counted as errored, not failed, and a pack that cannot be loaded is not_replayable with 0 failed: either way the exit code is 0. src/src/fixtures/run.ts:159 says of the packs that could not be replayed '되짚지 못한 팩이 있는지 — 있으면 실패로 세야 한다. 조용히 넘어가면 안 된다.' (if there are any they must be counted as a failure), and README.en.md:660 says 'Exit code 1 if any fixture is broken'.
- **`evidence_exact`** (`EvidenceIsExact`, src/engine/mask-map.ts:119). maskWithRanges places the end of an earlier range in the text of the current pattern with `p.range.end + shrinkOf(...)`: what the earlier replacements took away is added instead of subtracted. A match of a later pattern that closely follows an earlier one is then placed too far to the front, overlaps the earlier range, and is not recorded, so every evidence position after it is off. src/src/engine/mask-map.ts:6 says "이 모듈은 마스킹 전후의 위치를 정확히 대응시켜 근거가 가리키는 내용을 지킨다" (this module maps the positions before and after masking exactly and so keeps what evidence points at).
- **`removed_is_gone`** (`RemovedIsGone`, src/facade/engine.ts:523). A result is incomplete for compare only when the capture was cut, the parser read nothing, or the representation lost values. Rows cut by max_items, or left out by the projection of a request, are in none of these and not in the fingerprint, so compare reports them as removed though the command still prints them. src/src/engine/compare/index.ts:6 says "불완전 결과의 없는 행을 '삭제'라고 말하지 않는다" (missing rows of an incomplete result are not called removed); src/README.en.md:435 says the same.

Met while reading and not run, because a run would add nothing to the reading:

- `facade/run-budget.ts` keeps the rows of a result that was not retained
  (run-budget.ts:113), so it can be read on; SPECIFICATION.md:486 says it cannot.
- When the tighter application of the budget is taken, its report is delivered
  with the tightened cap as `requested.max_tokens` (run-budget.ts:213,
  budget/index.ts:183); SPECIFICATION.md:549 calls it the requested cap.
- `pages` has no time to live (engine.ts:441) although README.en.md:150 lists
  expired results among those that are rejected.
- A page of `fetch_result` with a budget carries a continuation whose offset
  counts inside the page (budget/index.ts:290); the one to follow is the outer
  one (SPECIFICATION.md:560).
- `budget_met` may be false for an answer that is within the cap of the client
  but missed the tightened one (run-budget.ts:247, SPECIFICATION.md:552).
- The rows of a cursor that were evicted from `pages` are answered for by the
  result store (engine.ts:451): "nothing to continue", or an unknown id, though
  README.en.md:150 promises distinct reasons. The id is unknown whenever the run
  had no review: its cursor carries an id of its own (engine.ts:410) that is in no
  other map. So `HeldOrExplained` speaks of the ids of reviewed runs, and the
  trace of `cursor_honoured` may end with an unknown id.
- A page 0 of `run_paged` that fails leaves the older success in the cache, and
  the next page is served from it (engine.ts:722, SPECIFICATION.md:166).
- A compact result has no array of rows (compare/index.ts:99), so it never
  differs from anything; engine.ts:484 says a comparison does not say "no change"
  without having compared.
- The id of a process group whose members are all gone may be handed to a new
  child while its run is still unsettled, because an outsider holds its pipes.
  The timer of that run then kills the new group (executor.ts:186-191), and when
  it settles it takes the id out of `liveGroups`, whoever has it (line 165), so
  that the end of the server misses the new child. The model gives ids out again
  and reaches both: `OnlyTheUnsettledKill` and `ShutdownSweeps` say what holds
  beside it (`Inherited`, `heir`), and TLC finds a counterexample to either as soon
  as its exception is dropped.
- Two `add` commands at once lose one of their entries, and one killed in its
  write leaves a registry.json that no later `add` can read (add.ts:42-50). `test`
  reads such a file as no packs at all, and is green (fixtures/run.ts:163-173, whose
  comment says that a broken registry is shown as such).
- `cpSync` (add.ts:37) writes over what is there and removes nothing. Two adds of
  one name may both report success over a mixture of their files, and a file of an
  earlier pack stays: with a `parser.wasm` left behind, the server takes the
  sandbox for a pack that no longer has one (sandboxed.ts:50-54, host.ts:361-375).
  `RegisteredLoads` says what holds beside that, and TLC finds a counterexample as
  soon as one of its conditions is dropped.
- A command that could not be started has the name of an error for its exit code
  (capture.ts:71), so its capture is no valid manifest and makes `test` fail
  (`CaptureFailed`).
- A field that begins with a surrogate pair (an emoji) loses its evidence: both
  halves have one byte offset and the table leads back to the second
  (engine/review.ts:195-199), so the value is not found there. The comments at
  lines 143-150 and 192-193 say that the round trip is exact. `EvidenceIsExact`
  leaves such fields out (`BeginsInPair`); without that TLC finds one.
- Where the matches of two rules overlap, the sanitizer drops the later one, so
  what of it lies outside the earlier one stays in the fixture
  (tests/fixtures/fixture-loop.test.ts:71-80 fixes that); `RedactsInPlace` says
  that each match is touched, not that all of it is hidden.
- Of two runs of one paged command that overlap, the older may end last and
  replace the newer result in the cache (engine.ts:722). No property excludes it.
- Two captures of a command in one second write the same file (capture.ts:19).
- A reviewed fixture without a value or a failure to compare agrees with a parse
  that fails (replay.ts:200).
- `sanitize` inserts the marker of an argument rule literally, with its `$1`, and
  escapes the pattern of the home path twice (sanitize.ts:95).
- The evidence of a command stays that of its built-in parser when a pack takes
  its place (registry.ts:275), and evidence runs an isolated parser twice within
  one deadline.
- The check for a silent empty is not made for a text that is a JSON document
  (registry.ts:423); `HonestEmptiness` leaves those out.

## 5. Proofs

Each theorem is about the specification the runs check, for every value of its
constants that the named assumptions allow. None of the safety properties is
inductive by itself; what follows says what had to be added to each. In every
module of proofs the order is the same: lemmas on the operators, one lemma for
each handler, the step, the theorems.

**`Semaphore_proofs`** (any finite set of callers, any positive limit). The
counter is the number of holders, no slot is idle while a call waits, and the
queue holds each waiting call exactly once. The queue property and the
accounting need each other: releasing hands the slot to `Head(waiters)`, which
keeps the count only if that call is waiting and is not queued a second time.
The refinement `SemaphoreImplementsFifoSlots` adds the history of `MCSemaphore`:
`FifoInv` says that the first `active` calls in flight are the holders and the
others are the queue, in order (`QueueIsTail`); then a step of the semaphore is
an arrival, a return or a stutter of `FifoSlots`. The work is in the places of a
sequence from which one element was removed (`RemovePlaces`).

**`ChildProcess_proofs`** (any number of runs, any buffer, either platform). The
invariant says what one closure may hold (`JobInv`: a run is killed exactly when
its time or its output ran out, only a killed run has a grace period, only a live
one a timer), how a closure and its processes agree (`PairInv`: a run that settled
unkilled has closed pipes, since only `close` settles it; `DoomInv`: a run that was
killed, or was live at the end, has no group member that was not signalled), that
a group has one owner though ids are given out again (`PidInv`: of two runs with one
id at most one has anybody in the group, and that one was given the id when the
other had nobody left) and that the tracked groups are those of live runs
(`TrackInv`). `PidInv` is where the model's assumption on ids enters (end of
section 4): the system gives out no id that is still that of a group. The proof first states in one lemma for each handler
what it does (`TimeoutFacts`, `ChunkFacts`, `OverflowFacts`, ...), and then, again
one for each, that it preserves the invariant. The action property
`OnlyTheUnsettledKill` follows from the same invariant.

**`Executor_proofs`** composes the two: the invariants of the slots and of the
children hold in `Executor`, and between them stands that a live child's call
holds a slot (`LiveHoldsSlot`), which holds because only a settled call returns
its slot and the slot it hands over goes to a call that waits. The live children
are then a subset of the holders, whose number is the counter: `BoundedChildren`.
`ShutdownSweeps` follows from the part on the children. `Executor` and the proofs
instantiate the parts under different names; the lemmas `SpawnSame`, `DataSame`,
... prove that both names mean the same action.

**`ResultStore_proofs`** (any limits, sizes and ids). First the laws of
`OrderedMap`: what `Kept` and `Rest` leave of a sequence, where, and that the
bytes of the parts add up. They are recursive functions on numbers, and the
induction theorems of the library cannot be instantiated here; the lemmas `Least`
and `Induct` take their place, which say of sets of numbers what those say of
predicates and follow from `<` being well founded on `Nat`. `StoreInv` is then
`Accounts` (ids are apart, the running total is the sum over the map, both limits
hold) and `Explains` (an id is held, or its reason says why not). That eviction
takes what was not used for the longest time needs `RecentInv`: the order of the
map is the order of last use.

**`MCDelivery_proofs`** (any rows, costs, limits, clients and runs).

- The budget: the invariant says that every prefix longer than `hi` exceeds the
  cap while searching (`SearchInv`), and every prefix longer than `kept` does
  while trimming (`TrimInv`). Monotonicity is needed only for the search. The
  steps of `Budget` keep this also inside `RunBudget`, whose own steps restart it
  under another cap; `ChoiceInv` says that the chosen answer is the first one or
  one that fits. So each application keeps the most rows, no answer above the cap
  claims to meet it, and an answer that misses it gave up no rows for it.
- The stores: `StoreInv` and `RecentInv` of the result store; `PagesInv` (a page
  is of a result that was run and has not lost its page, once); `PagedInv` (the
  cache of `run_paged` holds successful runs only, one for each key, within its
  limits). They give `StoresKeepTheirLimits`, `HeldOrExplained` and the action
  properties `AnswersTruthfully` and `LeavesInOrder`.
- A client that reads on: `CursorInv`, what was read is the rows up to the cursor.
- The host: `HostInv`, what is remembered of a command was so when it was looked
  at, so what is said of it was so less than the time to live ago.

**`MCHelpers_proofs`** (any limits, pauses, calls).

- Isolated packs: `CallInv` says what a call that stands at a given point has: a
  worker, a request of its own unless that worker still loads, and nothing in
  either direction while it loads. `FlightInv` adds that a request has left the
  inbox when its reply is in the port. `WordInv` is what the lost wake-up depends
  on: the word is final once the worker has announced its end, it is idle while
  the main thread sleeps, and it is not idle when an announced reply lies in the
  port.
- The regular expression engine: `HoldsTheLoop` is inductive with the types, and
  `CallExplained` says at each stage of a call what has been reported of it.
- The sandbox: only the call the server is in has a directory that is not done
  with, and what lies in it, what the helper works at and what was made of it
  belong to the call they are filed under (`Belongs`), whatever other requests the
  helper still has in its input. The helper takes the calls in order (`InOrder`),
  so that a whole response, or an answer, was the last it had to do with a call:
  a response that comes while the directory is being removed is that of a call
  that was given up (`Remains`).

**`MCRequests_proofs`** (any layers, contracts, packs and requests the
assumptions allow).

- `UntrustedNeverWidens`: `LoadInv` compares, at each layer, the configuration
  with the one that the same layers give without the project's file, field by
  field (`Narrower`). The environment is the difficult layer, as it is applied to
  both and may undo neither: it overwrites a field of both with one value or
  leaves both.
- `CauseSurvives`: between the reading and the review the failure of a command is
  never replaced by one that blames the parser.
- `EmptinessIsHonest`: an output is judged under the contract it was read under.
  That is so because packs are loaded before the first run, which `EmptinessInv`
  says as: where there are statistics, or a run in progress, no pack may be loaded
  any more. A pack in a worker is judged with its fallbacks, so its contract is
  `Marked` as isolated in every subcommand.
- `AdmittedPathsStayInside` and `ExecutedAsChecked`: `AdmissionInv` says that
  policies are policies (`ArePolicies`: a file adds none that its schema refuses,
  the tables that are shipped are some) and that an admitted request had passed
  the guard under the configuration there still is. The rest is about operators.
  The code reads an argument list from the left and jumps over the values it
  takes; `Roles` reads the same list position by position. Both are recursive
  functions, so first it is proved that they have the values their bodies say
  (`RolesByPlace`, `TakenByPlace`, `TokensByPlace`), then, by induction over the
  arguments, that the two readings agree (`TokensFollowRoles`) and that no argument is
  left out (`EveryArgumentIsRead`): it is a token, the value of one, glued to one,
  or passed on. What a policy lets pass keeps all these tokens but for a verb
  (`PolicyReadsAll`), and each is looked at as a path (`KnownIsLookedAt`,
  `UnknownIsLookedAt`), so one that leads outside refuses the request. What is
  executed of `ps` is read like what was checked, since the letters that are
  replaced take no value (`RewrittenIsAlike`), and its positional arguments are
  words (`PsHasWordsOnly`), so the two rules for what is a value agree
  (`TakenIsValue`).
- `AnswersAreTrue` and `ComparedAsPrinted`: what the reader of `git status` makes
  of an output is the rows that were printed (`OutputIsRead`). A path is spelled
  unit by unit, so that reading back what `CQuoted` wrote gives the path
  (`SpelledIsRead`, `QuotedIsSpelled`), wherever it stands in a text (`Stands`).
  For the arrow, the scan of `Quoting` is outside quotes again after every path
  that is shown (`ShownIsScanned`), since one that holds an arrow or a quote is
  quoted, so the last arrow outside quotes is the one between the paths
  (`ArrowIsLast`). No unit of a row ends a record but the one at its end
  (`RecordOfRow`), so each row is read where it stands and the reader goes on
  behind it (`EveryRowIsRead`), and by induction over the rows all are found, in
  order (`PrintedIsFound`); a text without rows gives none (`LooseIsEmpty`).
  `RowsInv` carries this from the reading to the answer and to what is retained:
  without a projection an object is answered as it was read, up to the cap, and a
  result that is whole and complete holds every row. Rows of git status are known
  by their path (`IdentityOfRow`), so an id that no row has is a path that was not
  printed (`MissingIsNotPrinted`).

**`Workshop_proofs`** (any adds, packs and suites).

- `RegisteredPacksLoad`: `AddsInv` (what an add has yet to copy and the file it
  writes are files of its own, and it has either only while it copies),
  `CopiesInv` (a directory has the add that began last; another that still copies
  into it ran beside that one, and where none did, each of its files has nobody's
  bytes but those of the last add, once that got to it) and `EntriesInv` (nothing
  is registered, or was read in order to be registered again, before its directory
  is there). The last is what the race of two adds needs: the one that writes last
  writes names it read before.
- `EvalIsJust`: the exit code of `parism eval` looks at tallies, the property at
  cases; a tally is a cardinality, so a case that missed is in the set that a
  tally counts, and conversely.
- `GreenIsJust`: `diffJson` finds nothing exactly when the two values are equal
  (`DiffAgrees`). `PairsBelow` pairs the parts of the values level by level;
  equality is carried down by induction on the level, and up by induction on the
  distance from the deepest one (`PairAgrees`), with `Least` and `Induct` as in
  `ResultStore_proofs`. Evidence nests two deep, and the fields an expectation
  does not name are left out before it is compared (`SpansAgree`). The exit code
  looks at numbers of changes, so those must be finite (`DiffFinite`,
  `UnionFinite`). The invariant adds where files come from: what is replayed was
  printed, sanitized and read by an installed version (`FilesInv`). Whatever the
  directories load as, the packs that are tested are packs somebody added.
- `CaptureRedacts`: the places of the accepted ranges. Runs of one rule lie apart
  (`MatchesApart`) and a rule adds only what overlaps nothing accepted, so all
  ranges lie apart (`RuleAdds`, `AcceptAll`); a rule never gives up a match without
  one that overlaps it. That is all the theorem says of such a match: the part of it
  outside the earlier range stays. Replacing them from the last to the first then needs
  `SpliceShows`: after each replacement the text is the original one up to the
  range replaced last, followed by what should be shown of the rest
  (`Replaceable`), since a marker put in further back moves nothing in front of it
  (`PutKeepsFront`, `KeepsFront`). The counts of the redactions add up to the
  number of ranges (`CountOneMore`). The invariant `RedactInv` says of every fixture
  under the manifest that it is what `sanitizeText` makes of what was printed.

### Assumptions

They are named in the modules and TLC evaluates them on every run.

- `LimitAssumption`, `TasksAssumption`, `ExecutorAssumption`,
  `ChildProcessAssumption`, `IsolatedPackAssumption`, `MCHelpersAssumption`:
  types, and limits that are not zero where the schema refuses zero.
- `BudgetAssumption`, `RunBudgetAssumption`: costs are numbers. Further rows never
  make an answer smaller.
- `DeliveryAssumption`: the assumptions of the five parts, among them
  `LimitsAgree` (the largest result that is retained fits the store: 2 MB against
  32 MB, engine.ts:103) and a positive time to live of the cached statuses (60 s).
- `LimitsAssumption` of `MCRequests`: the limits in a layer are whole numbers,
  which schema.ts:14 and :17 and `parseEnvInt` (loader.ts:432) enforce.
- `PoliciesAssumption` and `ArgumentsAssumption` of `MCRequests`: a policy in a
  file that passes its schema has the fields of one (schema.ts:24), and a request
  is a list of arguments, of which only a flag has text after its name.
- `ItemsAssumption` of `Pipeline`: `max_items` is a whole number (schema.ts:63).
- `EscapesAssumption` of `CQuotes`: the quote, the backslash and the line end have
  an escape, and no escape is written with a line end (c-quotes.ts:21).
- `OutputsAssumption` of `MCRequests`: an output is the rows git may print, in one
  of its two formats, or a text of which no line looks like a row. A row has two
  status letters, a path that is not empty and holds no NUL, and an original path
  exactly when it is renamed or copied; with -z no path begins with a quote (the
  run `nul_path` shows why).
- `ContractsAssumption` of `Pipeline`: no contract declares itself isolated; that
  mark is the registry's.
- `SuitesAssumption` of `Workshop`: the cases are of the kind of `SCENARIOS`
  (eval.ts:258): a suite is finite, an expectation names an outcome of its level,
  and a case that reads a stored result expects to succeed on every host.
- `ReadingsAssumption` of `Workshop`: expectations and what a parser returns are
  JSON values nested at most `MaxDepth` deep, of any width; evidence is a list of
  flat objects for each pointer (manifest.ts:66) without undefined fields, as
  JSON has none; a pack has finitely many fixtures.
- `FilesAssumption` of `Workshop`: a pack has a file; without one it does not load
  (loader.ts:10) and the add is refused.
- `TextsAssumption` of `Workshop`: a text is a sequence, a rule is one of finitely
  many, and an argument has a name, a value and whether it is a secret.

### Only model-checked

- Every liveness property (`WaitingIsServed`, `EventuallySettles`,
  `RequestsFinish`, `ExchangesEnd`, `EverySettles`, `ParseReturns`): they rest on
  ENABLED through fairness, which is out of the prover's reach.
- `EvidenceIsExact`: with two patterns it is false (section 4), so it is no
  theorem of the model; the run checks it where at most one pattern matches.

Some theorems state properties that no run lists any more, because the theorem
says more: the types of every module with proofs, `SlotAccounting`, `NoIdleSlot`,
`WaitersAreQueued`, `RunningGroupsTracked`, `PausedHasNoWorker` and
`StartupIsGranted`.

## 6. Not modelled

- Text: what 42 of the 43 command parsers extract (each is a pure function that
  its fixtures check; `git status --porcelain`, the one with field evidence and
  comparison rules, is modelled), the tokenizers, line splitting, messages.
- The comparison of the two regular expression engines byte by byte
  (`engine/regex-byte-identity.ts`): a table of character classes. The matching
  itself belongs to libraries.
- The tables of `engine/install-hints.ts` and the text of `facade/capabilities.ts`;
  how a command is looked for and what is made of it is in `Availability`.
- `server.ts`, `types`: the schemas of seven tools and the text of their answers.
- `cli/init-parser.ts`, `inspect.ts`, `routing.ts`: templates and text.
- `experiments`, benchmarks, packaging and the tests.
- The environment of a child, and the truncation of lines in its output.
- Of the policies, long options with one dash (`singleDashLong`: find, terraform)
  and options with a `+` (`plusFlags`: lsof), which are two more forms of an
  argument (policy.ts:97, 112).
- Of `isDefaultValue` (invariants.ts:32-53), everything but arrays: scalar fields
  such as the branch of git status, the `META_KEYS`, and records of numbers.
- The stderr of a captured command, which is sanitized and kept as its stdout is
  (capture.ts:75), and the narrowing of fields in the budget.

The components of PROJECT.json say for each part what of it is left out.

## 7. Plan

What can still be added, in this order:

1. The field narrowing of the budget, and the identities of Kubernetes rows.
2. `EvidenceIsExact` for one pattern, once the places of `mask-map.ts` are right
   for several.
