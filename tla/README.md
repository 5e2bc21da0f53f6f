# Verification of Mizuki Markdown Retrieval

TLA+ models of Mizuki Markdown Retrieval (MDR, `src/`), checked with TLC on
small instances, and theorems about them checked with TLAPS for every instance.
File names below are relative to `src/src/mizuki_markdown_retrieval/` unless
they start with `docs/` or `README`, which are relative to `src/`.

## The system

MDR serves Markdown directories ("scopes") to MCP clients: browsing, safe reads,
literal and semantic search, and the management of scopes. Markdown is
canonical; a PostgreSQL/pgvector index is derived from it by *refreshes*.

| Component | State it keeps | Operations | Interacts with |
|---|---|---|---|
| Refresh jobs (`refresh_jobs.py`, `refresh_job_store.py`) | registry file, per-process queue and worker thread, two file locks | start or reuse, status, wait, scope mutation, worker loop, interruption at start-up | request threads of every MCP process share the registry; the worker calls the pipeline; scope management runs inside `scope_mutation` |
| Refresh pipeline (`cli_refresh.py`, `refresh.py`, `indexing.py`, `index_apply_bridge.py`, `postgres_runtime.py`, `state_store.py`, `discovery.py`, `refresh_lock.py`) | state file and refresh lock of a host; durable index with a generation token | plan, preflight, apply, commit | worker threads and `mdr refresh` processes; the durable provider of another repository |
| Scope management (`mcp_scope_management.py`, `config_management.py`, `project_config.py`, `mcp_service.py`, `cli.py`) | project file; each process's copy of it and its search providers | create, update, delete, reload, search | refresh jobs (`scope_mutation`, runtime loader), the command line's own edits |
| Readiness (`mcp_readiness.py`, `mcp_http_gate.py`) | cached verdict, probe in flight | probe, gate, repair plane | plans and preflights like a refresh, without applying |
| Tokens (`remote_auth.py`) | cache of signing keys, bounded map of refused kids, cooldowns, lookup lock | verify, look up, remember | the identity provider's key endpoint |
| Request bounds (`mcp_http_limits.py`) | permits | admit, time out | every HTTP request |
| Chunking (`chunking.py`) | none | a file into sections, tables and pieces | planning |
| Folder policies (`config.py`, `discovery.py`) | none | which files of a folder tree belong to a scope | discovery, reads |
| Safe reads (`reading.py`, `source_resolver.py`) | none | path checks, lines of a file with their numbers, the chunk of a line | search results, clients |
| Search and browsing (`text_search.py`, `mcp_text_search.py`, `filesystem_view.py`, `runtime.py`, `toolkit_bridge.py`) | none | reads | project copy, index |
| Servers, command line, output (`mcp_server.py`, `mcp_http.py`, `mcp_output.py`, `cli*.py`, `remote_cli.py`) | none of their own | wiring, parsing, formatting | all |

### What is hard in it, and what makes it correct

* **Jobs.** Several processes and threads share one file. A job is recorded in
  one step, its thread started in a second, put on the queue in a third; threads
  and processes die in between; the owner of a record is known by its pid only.
  Correct: one unfinished job per scope, one refresh at a time, the record of a
  running refresh stays this process's own, no configuration edit under a
  refresh, only superseded finished jobs forgotten, only dead owners'
  jobs interrupted, no job lost, every job settled.
* **Pipeline.** Two durable stores are changed one after the other, while files
  and configuration change under the plan, other hosts apply plans of their own,
  and a refresh may stop at any step. Correct: the rows are those of one plan,
  the state never runs ahead of the index, one provider revision per state, the
  version of a row is the version of its text, and the index catches up.
* **Readiness.** Single flight, callers that give up, a probe that walks through
  scopes which change meanwhile, verdicts that were true when the probe began.
  Correct: at most one probe, no verdict older than its time to live plus its
  probe, no data request on anything else, verdicts that follow the truth.
* **Tokens.** Positive and negative caches with different clocks, a lookup that
  awaits while others proceed, and that may be cancelled while its thread goes
  on. Correct: a key that has been seen is never blocked by unknown ones, a
  withdrawn key is forgotten, the map stays bounded, nothing is looked up on
  what was true before the wait.
* **Request bounds.** A permit is returned on every path, every request ends,
  and a response is started once.
* **Scope management.** Programs edit one file through one temporary name, of
  which only the servers have a lock in common; an edit fails or dies between its
  steps; every process has a copy of the file, and a provider is opened before a
  reload and cached after it. Correct: no edit is lost or half done, the file can
  always be loaded, no scope changes under its refresh, a server's copy has its
  own edits, and cached providers have the settings of the copy.
* **Chunking and reading.** Two passes follow fences on their own; text is
  collected, flushed, carried over and cut in loops that depend on each other.
  Correct: no text is lost, pieces advance and are bounded, headings enclose what
  is filed under them, an answer claims no line that it does not show.
* **Planning.** Deltas carry vectors over from version to version and between chunk
  profiles, count repeated chunks, and fall back to a full index at a threshold.
  Correct: the rows after a plan are those of its snapshots, each with a vector of
  its own text by the provider of the plan.
* **Folders.** What is indexed and what may be read are decided by two pieces of code,
  over links, nested overrides and exclusions. Correct: both say the same, a file is
  found once, and the nearest override decides.

## Plan

In order of importance; a module is written when its row says so.

| # | Module | What it adds | State |
|---|---|---|---|
| 1 | `RefreshJobs`, with `JobLedger` as its abstract specification and `RefreshJobsProofs` | job manager, registry, worker | done |
| 2 | `RefreshPipeline`, with `RefreshPipelineProofs` | plan, preflight, apply, commit over hosts | done |
| 3 | `SigningKeys`, with `SigningKeysProofs` | caches, cooldowns, lookup lock | done |
| 4 | `ReadinessProbe`, with `ReadinessProbeProofs` | controller and probe | done |
| 5 | `RequestPath`, with `RequestPathProofs`; composes `ReadinessProbe` with budget, permits and gate | the way of a request | done |
| 6 | `Chunking`, with `ChunkingProofs` | `chunk_markdown` | done |
| 7 | `Reading`, on the files of `Chunking` and `ScopeFiles`, with `ReadingProofs` | `read_markdown_view`, `resolve_source_chunk` | done |
| 8 | `ScopeManagement`, with `ScopeManagementProofs` | edits of the project file by servers and command line, project copies, provider caches, refreshes as edits see them | done |
| 9 | `IndexPlanning`, which `RefreshPipeline` extends; proofs in `RefreshPipelineProofs` | `plan_index_updates`, `_chunk_delta` and the apply plan, chunk by chunk | done |
| 10 | `ScopeFiles`, which `Reading` extends; proofs in `ReadingProofs` | folder policies, discovery, path checks | done |

The plan is carried out; what is proved and what is model-checked only is said
under "Proofs".

## RefreshJobs

Two layers of locking give the grain. A registry edit (`store.edit()`: lock,
load, change, prune, write to a temporary file, replace, unlock) is one step:
nobody reads the file outside the lock. `scope_mutation` keeps the lock while the
project file is written, so it is two steps with every other edit shut out
(`mutation`). The worker lock is held from before `_mark_running` until after
the last mark (`slot`).

| Variable | Code |
|---|---|
| `registry`, `issued` | the records of the file; a job is named by its creation order |
| `pid` | the running processes, `Alive` what `os.kill(pid, 0)` finds |
| `queue`, `worker` | `_queue`, `_worker` and where `_worker_loop` stands |
| `client` | where each request thread stands in `start_or_reuse` or `scope_mutation` |
| `slot`, `mutation` | holder of the worker lock, and of the registry lock for a mutation |
| `crashes`, `faults` | bounds |

The actions follow the code: `Reuse` and `Accept` (the two outcomes of the edit
in `start_or_reuse`), `EnsureWorker`, `Enqueue`, `Reply` (its three later steps),
`PollStatus` (`status`, `wait`, `active_for_scope`, `require_scope_mutable` are
the same read), `BeginMutation`, `EndMutation`, `AbortMutation`, then the worker:
`TakeJob`, `AcquireSlot`, `MarkRunning`, `RefreshReturns`, `MarkFinished`,
`ReleaseSlot`, `ThreadEnds`. `SlotFails`, `MarkRunningFails`,
`MarkFinishedFails` and `RequestFails` are the exceptions that end a thread
or a request; a failing write leaves the old file or, when the failure comes after
the replacement, the new one. `Crash` takes threads, queue and locks of a process away;
`Start` builds a manager under a free pid.

Assumptions: the processes see each other's pids (one machine, one pid
namespace); a pid belongs to one process at a time, but may be given out again
when `AllowPidReuse`; the clock behind `created_at` does not run backwards, so
creation order is acceptance order. Corrupt registry files, payloads and timestamps
are left out.

### Runs

| Run | Bounds | Shows |
|---|---|---|
| `jobs_safety` | 2 processes, 2 threads each, 2 scopes, 3 pids (reused), 3 jobs, history 1, 1 crash, 1 error | the safety, action and refinement properties below |
| `jobs_settle` | 2 processes, 1 thread, 2 scopes, 3 fresh pids, 2 jobs, 1 crash, no error; fairness | nothing is stranded, everything settles, start-up settles orphans |
| `jobs_lost_worker` (violation) | 1 process, 1 job, 1 error; fairness | a running job outlives its worker |
| `jobs_pid_reuse` (violation) | 1 process, 2 pids, reused | a restart under the old pid keeps the old job |

Three jobs with a history of one is the least at which one finished job
is dropped while another of the same age is kept and a third unfinished one must
not be; two threads in each of two processes is the least at which requests race
both inside a process (thread start, queue) and across processes (registry, slot).
One crash and one error each hit every step. Processes, clients and scopes
are symmetric in the safety run; the liveness run uses no symmetry.

`AtMostOneActivePerScope`, `SingleRefresh`, `RefreshIsRecorded`,
`MutationExcludesRefresh` are state invariants; `ForgottenOnlyWhenSuperseded`
restricts steps; `ImplementsLedger` shows the registry,
seen job by job, to implement `JobLedger` (every job moves forward
only, is accepted when its scope has no other, and is forgotten only when
finished or in the write that finishes it). `NoStrandedJob` says where an unfinished job of a running process is:
with a request before its put, in the queue, or in the worker's hand, and a queue
with jobs has a thread. It is stated for runs without errors and pid reuse
because the code loses jobs in both cases, as the two violation runs show.

Fairness: threads are scheduled, a refresh returns (`RefreshReturns`), and a
waiter of a file lock gets it when the lock keeps becoming free: strong fairness
on each worker and each request. `PollStatus` is strongly fair too, since the tool
tells its clients to poll `refresh_status`; without a poll, nothing in the code
looks at a dead owner's jobs until the next start. Crashes, starts, errors and
new requests are not fair.

## RefreshPipeline

One namespace, any number of hosts with a state file and a refresh lock each,
and workers on them. `files` and `revision` are the sources and the configuration
(chunk profile and provider revision); `state` and `lock` are those of each host,
`worker` the refresh that each worker is in; `index` is the durable side. A document's content
stands for its bytes and their hash. A snapshot keeps the hash that discovery
computed (`hash`) apart from the chunks that chunking read (`chunks`), because
the code reads the file twice. A generation token is a hash of all snapshots, so
it is the snapshots.

What is planned is in `IndexPlanning`, down to chunks: `ChunksOf` says which texts a
content has under a profile, `Unmatched` is the counting down of
`_chunk_delta`, `Reindexed` and `Reused` decide what is embedded, and a row of
the index has a vector, which is the text and the provider that it was computed from.
`Mutated` is the apply plan as the provider executes it: `VectorFor` takes a reused
vector from the rows of the previous version that are there. So a vector of a wrong
text or provider would show in `IndexMatchesGeneration`, which compares the rows
with `RowsOf`, the definition of what an index of these snapshots holds.

`Ask` hands a worker the runtime of now (jobs load it when they are accepted),
`Begin` takes the lock, `Discover` loads the state and hashes the files,
`ReadDocument` chunks one changed document, `PreflightMatch`,
`PreflightMissing`, `PreflightMismatch` compare the index with the baseline,
`Apply`, `AlreadyApplied`, `ApplyRefused` are the provider's answers,
`NothingToApply` and `Commit` write the state, `Stop` is an exception or a death
anywhere in between. `EditFile`, `Reconfigure`, `DropIndex` are the world.

The provider is not in this repository. It is modelled from the plan it is
given (`build_index_apply_plan`) and from `docs/shared_oauth_application_packet.md`:
one transaction under a namespace lock, "reject stale expected generations before
mutation" (line 186), and receipts of apply ids of which only the current one
answers `already_applied` while "stale historical receipts fail closed" (line
45). Receipts go with the schema. That an emptied namespace keeps its generation is
an assumption.

`Discover` hashes all files in one step, where `discovery.py:41` goes from file to file:
an edit of one file in between is as good as one before or after, since edits of two files
come in any order. A state file of an older release, which has no
provider revision and is not compared in the preflight (`cli_refresh.py:135-139`), is left
out.

`spoiled` records what refreshes do not repair by themselves: a document torn
between hash and read, a corpus that became empty, a refresh that stopped
between apply and commit, a plan refused as repeated. README says of the third
that drift "fails closed": an operator has to act.

### Runs

| Run | Bounds | Shows |
|---|---|---|
| `pipeline_one_host` | 2 workers, 1 host, 1 document, 3 contents (one blank), 2 texts, 2 provider revisions, 2 edits, 1 stop, 1 drop; fairness | lock, commit order, the index catches up (615 000 states, 90 s) |
| `pipeline_two_hosts` | 2 workers on 2 hosts, 2 documents, 2 contents, 2 texts, 2 providers and 2 profiles, 2 edits | the generation fence, the vectors, one revision per state (3 million states, 130 s) |
| `pipeline_torn` (violation) | 1 worker, 1 document, 1 edit | rows of new bytes under the old hash |
| `pipeline_repeat` (violation) | 1 worker, 1 document, 3 reconfigurations or edits; fairness | a repeated change is refused for ever |

The number of refreshes is not bounded. Two edits are the least by which a file
changes under a plan and changes back; a blank content is one that chunks
to nothing, on which the preflight's "missing" and "match" differ; two documents
are the least for a partial delta and for a mixed state. The contents share texts and
one repeats a text, and the threshold of 50 percent lies between the deltas between them: some
reuse a vector, some do not. `SingleHost` in two properties is a condition because
a second host moves the index on, which the first one's state file cannot know.

Fairness: refreshes are asked for again and again (an assumption about the
owner: nothing in the code refreshes on its own) and each goes on until it ends.
Edits, stops and drops are not fair and are finitely many.

## SigningKeys

One `SharedOAuthJWTVerifier`, shared by the requests of one event loop. A request
runs alone between two awaits: `Arrive` is `_get_signing_key` up to the lock,
`Granted` the second look at caches and cooldowns under the lock, `KeyFound` and
`KeyMissing` what follows the return of the thread that asks `PyJWKClient`.
`CancelWaiting` and `CancelFetching` are the timeout of `BoundedRequestApp`
reaching the two awaits; a cancelled lookup's thread goes on (`strays`,
`StrayEnds`) and changes PyJWKClient's cache later.

| Variable | Code |
|---|---|
| `cached`, `known` | unexpired entries of `_known_signing_keys`; `_known_kids` |
| `cooling`, `globalCooling` | unexpired entries of `_unknown_kids`, oldest first; `_unknown_kid_global_until` |
| `holder`, `request` | `_jwks_lookup_lock`, and where each request stands |
| `jwkSet`, `published` | the cached set of `PyJWKClient` and the provider's own (external) |
| `rotations`, `failures`, `cancels` | bounds |

A deadline is an event that follows its setting at some time (`KeyExpires`,
`JwkSetExpires`, `CooldownEnds`, `GlobalCooldownEnds`): the configured durations
bear no relation to each other. Only the cooldowns of single kids are ordered,
because all last equally long. The wall clock, which the cooldowns use, is taken not
to run backwards. The checks of claims are functions of the token and are left out.
A lookup reads the provider's keys in one step, when its thread ends.

The comment at `remote_auth.py:195-197` says that requests "cannot create
concurrent JWKS fetches"; the model shows it for requests that have not timed out
(`TypeOK`), and lets a stray thread fetch beside the next lookup.

| Run | Bounds | Shows |
|---|---|---|
| `signing_keys` | 2 requests, 2 kids, 1 unknown kid remembered, 1 rotation, 1 failure, 1 cancellation; fairness | `LookupsAreNeeded`, `FreshKeysAreNotRefused`, `RetiredKeysAreForgotten`, `KnownKeysAreServed` |

Two requests are the least at which one waits while another changes what it has
read; two kids with room for one in the map are the least at which one evicts the
other. Fairness: deadlines pass, the lock and the thread of a lookup serve every
request that keeps waiting (strongly, since others come between), and tokens with
every kid keep coming. Rotations, failures, cancellations and stray threads are not fair.

## ReadinessProbe and RequestPath

`ReadinessProbe` is `ReadinessProbeController` with the probe it runs. A scope is
two conditions, that its plan is current and that its index matches;
`ProbeChecks` looks at the next one and leaves a scope whose plan is not current.
`Get` answers from a fresh verdict or waits for the probe in flight, that it
starts when there is none; `WaitTimesOut` leaves the shielded probe alone;
`ProbeReports` and `ProbeFails` are `_complete`. `sick` counts for how long a
condition has been false, which is what "recent" is measured by. `RequestPath`
takes these actions into the way of a request: `Arrive` and `Admit` (budget and
semaphore of `BoundedRequestApp`), `Unauthorized` and `Authorized` (the verifier,
abstract here), `GateOpens`, `GateReadsBody`, `GateDecides` (the gate, with
`_allows_not_ready_request`), `TransportAnswers`, `ResponseEnds` (the SDK,
external), and `TimesOut`.

| Variable | Code |
|---|---|
| `verdict` | `_cached`: report, time left, and how long its probe took |
| `probe` | `_inflight`, and where `check_readiness` stands |
| `caller` | where a caller of `get()` stands and what it was told |
| `conn` | a request: place, kind, budget left, responses started |
| `sick`, `changes`, `errors` | the world, and bounds |

Time passes in ticks, and what is due happens before the next one. Ages are told
apart up to `ProbeCap`; a longer probe counts as infinitely old.

| Run | Bounds | Shows |
|---|---|---|
| `request_path` | 2 requests, 1 permit, 1 scope, time to live 1, probe timeout 1, budget 2, ages to 2, 1 change, 1 failing probe; fairness | `ReadyIsRecent`, `OneResponse`, `DataNeedsRecentReadiness`, `EveryRequestEnds`, `VerdictsFollowTruth` |

The budget exceeds the probe's timeout, so both deadlines are met; one permit
makes the second request wait; one change reaches every point between the check
of a condition and the use of the verdict. Fairness: time passes, a deadline is
acted on, and a told caller goes on. Nobody else owes anything: neither provider,
transport and clients nor the thread of the probe, which has no deadline
(`mcp_http_gate.py:40`) and may never end. So `EveryRequestEnds` and
`VerdictsFollowTruth` are checked with probes that hang: their callers are told "not
ready" when their wait runs out, and an old verdict ends with its time to live. That is why
the second property speaks of verdicts and of callers told "ready": a wait that
ran out says "not ready" even when the scopes are ready for good.

The plan of a scope, for which its files are hashed one by one, is one condition
looked at in one step.

## Chunking and Reading

`Chunking` is `chunk_markdown`, loop iteration by loop iteration. The file is
chosen line by line while `_parse_sections` reads it (`ParseLine`); a line is what
the regular expressions make of it (text, blank, heading of a level, table
separator, fence of a kind, with a `|` or not) and its length. What the code
collects in lists is always a range of lines and is kept as line numbers:
`parse` (`heading_stack`, `current_lines`, `fence_marker`), `sections`, `split`
(`index`, start of `plain`, `fence_marker` of `_split_section`), `cut`
(`current`, `current_chars` of `_split_plain_lines`, and `start` of
`_hard_cut_line`), `pieces`. Empty strings stay in a heading path as zeros, since
dropping them is without effect on what the path says; that a segment of nothing
but blanks is dropped is left out too.

`Reading` states, of every file that has been chunked, what `read_markdown_view`
answers: the lines selected (`Selected`), the cut (`Bounded`) and the line number
of its end, found by counting `"\n"` (`ReturnedLineEnd`), while lines are those of
`splitlines`. A form feed ends a line for one and not for the other, and
`line_end` is then too small: `LineEndIsShown` says that it is exact otherwise and
never too large. `ResolvedChunk` is `resolve_source_chunk` for a line, and
`LinesResolve` says that every line with text leads to a chunk that shows it.

`ScopeFiles` is a folder tree with links and the two pieces of code that decide which
files of it belong to a scope: `Discovered` (the walk of `discover_markdown` with
`_included`) and `Readable` (the checks of `_resolve_scoped_markdown`); both ask
`PolicyFor` (`policy_for`: overrides from outer to inner folders) and `Matches`
(`matches_any`). A path is a sequence of names, a pattern a sequence of sets of names,
compared from the right as pathlib does. `IsScope` is what a scope and its directory may be:
every entry is in a folder, links lead anywhere, overrides are listed in any order.

| Run | Bounds | Shows |
|---|---|---|
| `chunks` | target 2, soft 3, hard 4, overlap 2; 13 lines, of 1 to 7 characters; all files of up to 4 lines and all files of up to 7 lines that make tables (`CONSTRAINT Explored`); reads of every range, cut at 1, 2 and 5 characters; 2745 scopes over a tree of depth 3 with three links, with up to two overrides, and every path of up to 3 names | the ten properties (838 000 states, 110 s) |

Lines shorter than the target, at the hard limit and beyond it meet the
overlap of two in every order within four lines; a table that swallows a fence and
another table below it takes seven. The constraint bounds which files are looked at;
each is chunked to its end. A file's chunking is sequential, so the states are mostly the
files.

The two constraints are alike: a file is looked at with one scope, and a scope
with the empty file, as neither depends on the other. Two overrides are the least
that can be listed in the wrong order or nested.

Some things the properties allow, because the code does them: a chunk may exceed
`hard_chars` by a line and the overlap (`PiecesAreBounded`; the bound is reached),
and a table row that opens a fence is a row to `_split_section` and a fence to
`_parse_sections`, after which a table may be found in what the other pass takes
for code (the exception in `TablesAreOutsideFences`). A row of a table is one chunk of any
length (`PiecesAreBounded` is about text and cut lines; see "Where code and documents
differ"). `IndexedFilesAreReadable` says exactly what is indexed and what may be read:
a scope that is not recursive indexes no file of a subfolder, but lets it be
read, against the documents; and a file whose name has a backslash is indexed, and no
path leads to it.
The header of a table with rows is in no chunk by its line (`LinesResolve`), although
its text is in each row's. And `**` in a pattern has the reach of one name
(`PurePath.match`): of the exclusion `archive/**` in `README.md:93` the files in
subfolders of `archive` stay in the scope, to be indexed and to be read.

## ScopeManagement

One project file, servers that edit it in `manage_markdown_scope` and searches that
read their copies of it, and command lines that edit it with no lock. An edit by a
server holds the registry lock (`scope_mutation`) from its checks until its
server has loaded the result.

| Variable | Code |
|---|---|
| `config`, `temp` | `config.toml` and `config.toml.tmp`; tables by scope name, each the number of the edit that wrote it and what a load tells apart |
| `edit` | where each process stands in `create_scope`, `update_scope`, `delete_scope` or `set_workspace_root`, and what it holds |
| `lock`, `job` | holder of the registry lock; owner of each scope's active job |
| `up`, `project`, `providers`, `search` | running servers, `service.project`, `_search_providers`, and where a search stands in `_search_provider` |
| `edits`, `crashes` | bounds |
| `committed`, `overlapped`, `outdated`, `overtaken` | history: the renamed edits applied in order, and the exceptions below |

`BeginEdit` is the lock and the checks on the loaded file, `ReadDoc` the second
reading (`_read_doc`, a lookup by name in it, the change), `OpenTemp`, `WriteTemp`
and `Replace` are `_write_doc`, `DescribeScope` the load at the end of a create or
an update, `ReloadProject` and `ClearProviders` the two assignments of
`reload_project`. `StartRefresh`, `EndRefresh` are what edits see of `RefreshJobs`;
`BeginSearch`, `LookUpProvider`, `CacheProvider` are a search up to its provider.
A handle follows its file through a rename, so a writer whose temporary file was
renamed by another program writes into `config.toml` (`Followed`), where two texts
may mix (`Torn`). A process dies anywhere (`Die`), and a server starts on a file that
it can load (`Restart`). A request that is refused changes nothing and is no step.

The properties have four exceptions, each because the code does it:

* `overlapped`: an edit of the command line takes no lock, so an edit that overlaps
  it may be lost, torn, or leave a name in the file twice. `docs/long_running_refresh_job_design.md:122-131`
  restricts the lock to MCP and calls the command line owner-authoritative.
  `NoEditIsLost` and `ConfigStaysLoadable` hold until such an overlap, over any number
  of edits that do not.
* A namespace of spaces: `create_scope` writes it (`config_management.py:95`), and
  every load refuses the file from then on (`project_config.py:209`).
  `update_scope` refuses one.
* `outdated`: a server does not see the edits of other processes before its own next
  edit or start. A refresh or search there uses the older settings.
* `overtaken`: a search that has read its scope before a reload caches its provider
  after it, and that provider answers until the next edit of that server.

| Run | Bounds | Shows |
|---|---|---|
| `scope_edits` | 2 servers, 1 command line, 2 scopes, 2 edits, 1 crash; one scope searched on one server, refreshes accepted by the other; files whose scopes lie below the narrower root | the five properties |

Two edits of three processes are the least at which edits of servers, of server and
command line, and of one process in a row meet; two scopes are the least at which one
can be deleted. The crash hits every step of either edit. The system stops when
the bounds are used up or when all servers are down and the file is refused, so
deadlock is not checked. Literal and embedding providers of a scope are cached under
keys of their own and alike; one stands for both, and a server runs one search
at a time. The settings that a new scope takes from a template are left out, and so is a
write of the temporary file that fails, which leaves what a death leaves.

## Proofs

`RefreshJobsProofs` proves, for any processes, threads, scopes, pids, and any
bounds, that `TypeOK`, `AtMostOneActivePerScope`, `SingleRefresh`,
`RefreshIsRecorded` and `MutationExcludesRefresh` are invariants of `Spec`. They
are not inductive by themselves; the inductive invariant `IInv` adds

* `DownIsIdle`, `PidsDiffer`: a process that does not run has no thread in
  hand, and running processes have different pids;
* `UnissuedHaveNoRecord`, `JobsInHand`: jobs that are carried, queued or refreshed
  are issued ones, so a new job never meets a record in use;
* `SlotHeldByWorker`: a worker inside the slot is its holder, so two refreshing
  workers are one;
* `RefreshIsRecorded` itself: the record of a refresh names its process's
  pid, so `InterruptDead` never touches it, pruning never drops it and no other
  process's mark fits it;
* `MutationHeld`, `MutationSnapshot`: who holds the registry lock is in a
  mutation; whoever is refreshing was alive when the mutation began, and no
  process alive then has an active job of its scope.

Pid reuse is allowed throughout: these properties do not depend on it.

`LedgerIsImplemented` proves the refinement: given `IInv`, every action changes
status and scope of at most the jobs that one step of `JobLedger` changes, or nothing
(`StepFollowsLedger`). The hard steps are those that finish and prune in one write.
`NoJobIsStranded` needs two more invariants. `OnTheWay`: a job that a process carries is
recorded as its own, it is in one of the three places only, and a mutation knows every live
pid, so no interruption meets it. `NothingLost`: every unfinished job of a running
process is carried, and a queue with jobs has a thread that will look at it. The
step lemmas go action by action and use that no pid is given out twice and nothing
fails. `OnlySupersededAreForgotten` needs an argument about pruning
(`PruningKeepsHistory`): what `_pruned` drops has `max_history` finished jobs
behind it in creation order; if some of these are dropped as well, take the latest
that is: those behind it are all kept. `OrphansAreSettledAtStart` assumes that no pid is
given out again (`~ AllowPidReuse`); run `jobs_pid_reuse` shows that it has to.

`RefreshPipelineProofs` proves, for any hosts, workers, documents, contents and
revisions, that `TypeOK`, `IndexMatchesGeneration` and `OneRevisionCommitted` are
invariants of `Spec`. The strengthening is `SoundPlan`: from its discovery on, a
plan carries over the snapshots of the documents it found unchanged, does not
read these again, and gives every document the revision of its runtime. With
it, `DeltaFromBaseline` shows that the mutations of a plan turn the rows of its
baseline into those of its result, and `DeltaFromNothing` that a plan which
expects no generation writes all its rows; the fence (`index.generation =
Expected(w)`) says that the index is in one of these two states, and so
`IndexMatchesGeneration` holds after the apply although the baseline may be long
out of date with the state file and the sources. Both lemmas are uses of
`DeltasAreExact`, which is about plans as such: whatever the chunkings, the threshold and the order of repeated texts, a reused chunk has a
row of its text in the previous version (`Unmatched` leaves a chunk a partner), every
row of that version with this text has the vector of this text, and the mutations turn
`RowsOf` the baseline into `RowsOf` the snapshots.
`StateAndIndexAgree` and `ApplyBeforeState` add, for the one host (`HostInv`), that the
holder's baseline is still the state file (`BaselinesAreCurrent`), that what was applied
is in the index until the lock is released (`AppliedIsThere`), and that state and index
agree up to that moment (`Agreement`).

`SigningKeysProofs` proves `TypeOK`, `LookupsAreNeeded` and
`FreshKeysAreNotRefused` for any requests, kids, limit and bounds. Together they are
inductive: nobody but the holder of the lock changes caches and cooldowns in a
direction that could hurt (`TypeOK`), what the holder looks up is neither cached nor
cooling (`LookupsAreNeeded`), and so a kid that starts to cool is not cached.

`ReadinessProbeProofs` proves `ReadyIsRecent` of the controller by itself for any
callers, scopes and durations. The strengthening `Unblemished` says the same of the
report that is being made. `RequestPathProofs` takes it over: every step of a
request is a step of the controller or leaves it alone; it adds `WaitsAtGate`,
`SilentBefore` (nothing is sent before a request replies) and the count of permits
for `OneResponse`, `TypeOK` and the action property `DataNeedsRecentReadiness`.

`ChunkingProofs` proves `ChunkTypeOK`, `PiecesAdvance`, `PiecesAreBounded` and
`NothingIsLost` for every file and chunk profile, overlaps as large as the
hard limit included. The inductive invariant adds `TextSound` (sections are in
order and leave out blank lines only), `SplitSound` (how the positions of the
nested loops lie to each other, and that the collected lines are each within
the limit) and `Frontier` (where the last piece ends). `Coverage`, inductive given
these, says up to where the lines with text are in pieces: in a table the
header counts only with the first row, in a line that is cut up to the next start.
That the overlap is the least number of whole lines that reaches
`overlap_chars` (`OverlapFrom`) gives the bound. `PathsAreRight` proves
`PathsEnclose`: while the file is parsed, the stack names at each level the heading
that encloses the last line, or none when there is none (`Opens`), a section's path is
the stack of its first line, and no heading lies between that line and the others.
`TablesStayOutside` proves `TablesAreOutsideFences` by following both markers
(`FencesSound`): `_split_section`'s is that of the file above the line it looks at
(`Aligned`), because a section begins with the file or with a heading, which stands
outside fences, and both toggle alike over every line that is passed by one (two
at a table without rows, neither of them a fence). A row that is a fence line
breaks this (`Stray`), and is the exception that the property names.

`ScopeManagementProofs` proves all five properties and the types (`ScopeTypeOK`) for any
servers, command lines, scopes, edits and crashes. `LockInv` says that a server
edits exactly while it holds the lock, and that its scope has no active job;
`DownInv` that a server which is down has no search and no providers. `Quiet`, which
holds until the command line overlaps, is the core: there is one edit
(`OneEdit`), and what it relies on is still so (`EditIsSound`): before the second reading
its checks hold of the file, from then on its document is the file with its change and
loads (`ChangedIsFine`), and `config.toml.tmp` has what it wrote. So a rename gives what
`committed` says. `CopyInv` and `CacheInv` give `CopyHasOwnEdits` and
`ProvidersMatchTheCopy` for overlapped edits, too. `OnlyToolsEditARefreshedScope`
follows from `FileChanges` (only a rename changes the file, to what its edit makes of it),
`ChangedAtName` and `LockInv`.

`ReadingProofs` proves all five properties of `Reading`, for any files, chunk profiles,
windows, limits, trees and scopes.

* `ChunksResolve` takes `IInv` and `NothingIsLost` from `ChunkingProofs` and adds
  `PiecesPlaced`: the pieces are lines of the file, and a segment that does not begin its
  line follows one of the same line. So a line with text is in a chunk or in the header of
  a table; the smallest chunk exists, because widths are numbers and numbers have a least
  one; and of the segments of a line, all equally wide, the first is the one that begins it.
* `LineEndsAreShown` needs `EndsGrow`, that every line has characters. It makes the last
  line of an answer unique (`LastLineExists`) and places every newline of the answer at or
  above it (`NewlinesCount`), where they are counted as a subset of an interval.
* `FoundOnce` and `IndexedAreReadable` are about the walk and the path check. Every
  folder that the walk comes to is where its own path leads (`WalkedAreStraight`: a link
  is never entered), so two paths to one file are the same path. In the other
  direction, a path that passes the check does not end in a link, so the file it leads
  to is its `Entry`; the folders on the way to that file are folders, and the walk
  comes to all of them (`FoldersAreWalked`), to the file's own folder last. Both come to
  the documents (`IsDocument`), the walk of a scope that is not recursive to those in the
  root only (`DocumentsAreIndexed`, `ReadIsDocument`); what the policies leave in does not
  depend on whether a scope is recursive (`SamePolicy`).
* `NearestDecides`: the loop invariant of `policy_for` is `Decided`, that a setting is
  the one of the last override reached that has it. Overrides are reached by depth,
  then in the order in which they are listed, and of a folder none is left out: an
  override that applies is not deeper than the folder (`AppliesFromAbove`).

They rest on `NamesAssumption`, `ScopesAssumption` (every scope is a `ScopeConfig` with a
directory, `IsScope`) and the assumptions of `Chunking`. `Resolve`, `Walked`,
`PolicyFor` and the library's `FlattenSeq` are loops, written as recursive functions over
`0..L`. A theorem about one has to show first that such a function exists
(`LoopExists`), and then what holds of its values by induction up to `L` (`UpTo`), which is
stated for a set of numbers and follows from the least element of the others
(`LeastExists`, from the library's `WFMin`).

In all of them, each action or group of actions has a lemma, and the theorems
follow by temporal reasoning from `Init => IInv` and the step lemma. The proofs
use the assumptions on the constants named in the modules, and nothing else.

Every safety and action property of a passing run is a theorem. Model-checked only:
liveness (`EveryJobSettles`, `EventuallyInSync`, `RetiredKeysAreForgotten`,
`KnownKeysAreServed`, `EveryRequestEnds`, `VerdictsFollowTruth`), which is out of the
prover's reach, as is ENABLED. The proofs say nothing of the disagreements below: those
are counterexamples of TLC.

## Where code and documents differ

The first four are counterexamples of violation runs, with the quoted line in
`PROJECT.json`. The last two need no counterexample: a property that holds states exactly
what the code does, and the line quoted says otherwise.

1. A registry error in the worker ends the thread; the job stays `running`, is
   never interrupted while the process lives, and later refreshes reuse it
   (`jobs_lost_worker`).
2. A process that starts under its predecessor's pid keeps its jobs active
   (`jobs_pid_reuse`).
3. A file edited between hash and chunking is stored under the old version; if
   the edit is undone, it stays so (`pipeline_torn`).
4. A change made, undone and made again repeats its apply id and is refused as
   a stale receipt (`pipeline_repeat`); this rests on the documented behaviour of
   the provider.
5. Files in the subfolders of a scope that is not recursive are never indexed, and yet
   can be read: `_resolve_scoped_markdown` (`reading.py:97-131`) does not ask whether the
   scope is recursive, as `discover_markdown` does. "Paths visible through CLI/MCP must
   be limited to configured/indexed sources rather than exposing the Mac filesystem
   generally" (`docs/retrieval_contract_and_mm307_vertical_slice.md:292`) and "MCP/CLI
   retrieval may only access configured indexed sources" (line 466).
   `IndexedFilesAreReadable` and the theorem `IndexedAreReadable` say that these files, and
   no others, are read without being indexed (run `chunks`).
6. A table row is one chunk, however long: the loop over rows (`chunking.py:191-203`) never cuts one.
   "A row should not automatically become an arbitrarily large single embedding unit"
   (`docs/mdr_v1_2_search_audit_design.md:265`). `PiecesAreBounded` has a bound for pieces
   of text and for segments of a long line, and none for rows.

## Not modelled

The checks of a token's claims and of the single settings of a scope are functions of
their input, as is what pathlib makes of a glob in one name. Search and browsing are
stateless reads of files and index; servers, command line and output are wiring and
formatting and keep no state of their own. Corrupt files, disk-full during a lock
file's creation and network partitions to PostgreSQL appear only as an error of
the step they hit. The durable provider is in another repository and modelled from
the plan it is handed and from what the documents here say of it.
