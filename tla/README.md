# A verification project for gojira

gojira is a Jira client, a recursive Jira crawler, and the command line, gRPC
and MCP surfaces around them. This directory holds TLA+ models of its parts,
the TLC configurations that check them on small instances, and proofs, checked
by TLAPS, of what holds for every value of their constants.

## 1. The system

| Part | State it keeps | Operations | Talks to |
|---|---|---|---|
| Crawl orchestrator, `internal/crawl` | `visited`, `Summary`, `queue`, `queueClosed`, `pending`, `abortErr`, the mutex `mu` over most of them, the crawl's context | `crawlImpl` (seed, workers, closer, return), `enqueue`, `processIssue`, `handleFetchError`, `writeStub`, `decrementPending`, `closeQueueLocked` | client, hierarchy, dev status, renderer, store, graph, sinks |
| Issue store, `internal/output` | the files `<KEY>/index.md` and `<KEY>/references/outbound.md` | `Write`, `atomicWrite` | file system; other runs through it |
| Jira client, `pkg/client` | configuration only; the two retry counters of a call | `doWithRetry`, `doOnce`, the read and write methods on top | tracker over HTTP, `httplog` |
| HTTP logging transport, `internal/httplog` | none | `RoundTrip` | the base transport |
| Hierarchy discovery, `internal/hierarchy` | the epic-link field, looked up once | `Children`, `resolveEpicLinkField` | client |
| Dev status, `internal/devstatus` | none | `Enrich` and its merge | client |
| Issue graph, `internal/graph` | nodes, edges | `Add`, `MarkFetched`, `Model` | called by the crawl under `mu` |
| Events and sinks, `internal/events`, `internal/grpc/sink.go`, the progress sink of `internal/mcp` | counters, streams | `Emit`, called by every worker | gRPC stream, MCP host, log |
| gRPC server, `internal/grpc` | the configuration | one handler per RPC, `Serve` | facade |
| MCP server and bridge, `internal/mcp` | none | the tools, on the facade or on the gRPC client | facade, gRPC server |
| Configuration, `internal/config` | the configuration files | the cascade of defaults, files, environment, flags, with old and new names, once for the commands and once for the library | command line, facade |
| Command line, `internal/cli`, `cmd` | the exit code, the signal flag | the guard, the load, `gojira init`, the commands | all |
| Facade, `gojira.go` | none | `Crawl`, `GetIssue`, `FetchAndRender`, the writes, `TransitionIssueByStatus` | all |
| Content: `parse`, `extract`, `adf`, `render`, `classify` | none | functions from a response to an issue, its references and its pages | called by crawl and facade |
| Tracing, logging, build information, generated code | none | | |

### What is hard in it, and what makes each part correct

* **Crawl.** N workers receive from one bounded channel and send to it, under
  the mutex, what they find. An atomic counter outside the mutex says when
  there is nothing left and the channel is to be closed; a closer goroutine
  does the same when the context ends. Correct means: no send on a closed
  channel, no double or premature close, no issue lost or processed twice, the
  Summary adds up and is final when returned, a 401 is reported, the crawl
  always returns, the caps are exact.
* **Store.** Several files per issue, each put in place by a rename; a crash or
  another run may come between any two steps. Correct means: a reader never
  sees half a file, an issue that exists is not replaced unless asked to, and
  what a call reports is what is on disk.
* **Client.** Retries with two budgets over a network that delays and loses
  answers. Correct means: no more attempts than budgeted, no error surfaced
  with budget left, no retry without a reason, an end to every call.
* **Graph.** Fed in whatever order the workers finish. Correct means: complete,
  closed (an edge has its nodes), and independent of that order.
* **Hierarchy, dev status.** Partial failures of several calls. Correct means:
  what was found survives, what failed is reported, limits hold.
* **Sinks, server, bridge.** Concurrent callers on shared streams; two
  implementations of one interface; a stop while calls run. Correct means: one
  caller at a time on a stream, progress that neither repeats nor omits, no
  broken stream taken for a finished crawl, a stop that cuts nothing and happens.
* **Writes.** Three front ends make one request body; some writes read first and
  act on what may have changed; an answer may be lost. Correct means: what is
  asked is set and nothing else is touched, a transition leads where it was asked
  to, the outcome tells what was done.
* **Configuration, command line.** Five sources, two sets of names, two
  implementations, a guard in front, a file written in steps, signals. Correct
  means: the strongest source wins, both ways agree, what `init` wrote is what is
  read, the exit code tells the outcome.
* **Content.** Nested documents, values of any shape. Correct means: no text, no
  structure, no reference and no field is lost between the response and the page.

All the places where this code is hard to test are listed in `PROJECT.json`
under `hazards`, each with its line and the properties that cover it.

## 2. The modules

| Module | Models | Rests on |
|---|---|---|
| `CrawlLedger` | abstract: each accepted issue is owed an outcome and gets one, and the crawl returns when nothing is owed | |
| `Crawl` | `internal/crawl`: the worker pool, the queue, the closer, the Summary | `CrawlLedger` (refinement) |
| `CrawlInvariant` | its inductive invariant `CrawlInv` | `Crawl` |
| `CrawlProofs` | theorems about `Crawl`: the pool; the caps and what is lost | `CrawlInvariant` |
| `MCCrawl` | graphs of issues for TLC | `CrawlInvariant` |
| `IssueDisk` | abstract: one page per issue, replaced in one step | |
| `IssueStore` | `internal/output`: `Write` and `atomicWrite`, one action per system call | `IssueDisk` (refinement) |
| `IssueStoreProofs`, `MCIssueStore` | theorems; instances for TLC | `IssueStore` |
| `RemoteCall` | abstract: what a caller of the Jira client may rely on | |
| `JiraClient` | `pkg/client`: the retry loop; `internal/httplog`: what it does to a body; the network; Jira | `RemoteCall` (refinement) |
| `MCJiraClient` | instances for TLC | `JiraClient` |
| `Texts` | the empty text | |
| `InOrder` | `ForEach`, a loop over a sequence that carries a value along; `Only`, a loop that keeps some elements | |
| `LoopProofs` | the rules for such a loop, and for a function that goes down a tree: what the body keeps holds after it; a node's value is made of those of its children | |
| `References` | `pkg/classify`, `internal/extract`: which references an issue makes | |
| `Hierarchy` | `internal/hierarchy`: the two child searches and the shared field lookup | `InOrder` |
| `DevStatus` | `internal/devstatus`: the fan-out and its merge | |
| `IssueGraph` | `internal/graph`: the collector | `References` |
| `Pipeline`, `MCPipeline` | what workers do with a fetched issue, and what they share; an instance | `Hierarchy`, `DevStatus`, `IssueGraph` |
| `PipelineProofs` | its inductive invariant `Inv` and theorems | `Pipeline`, `LoopProofs` |
| `WriteRequests` | from what a user supplies to the body of a request, by front end | `InOrder`, `Texts` |
| `Writes` | `pkg/client/write.go`, `versions.go`, `fields.go` and their callers, beside other users | `WriteRequests` |
| `WritesProofs`, `MCWrites` | theorems; requests of every kind | `Writes`, `LoopProofs` |
| `Serving` | `internal/grpc` and `internal/mcp`: sessions, calls, streams, progress, stop | |
| `ServingProofs`, `MCServing` | theorems; pairs of calls | `Serving` |
| `Config` | `internal/config`: the cascade, in both implementations, and the validation | |
| `CommandLine`, `MCCommandLine` | `internal/cli`: the commands as processes, `gojira init`; scenarios | `Config` |
| `CommandLineProofs` | theorems | `CommandLine` |
| `JSONText`, `CustomFields` | the JSON a custom field holds; how `internal/render` lays it out | `InOrder` |
| `ADF` | `internal/adf`: documents, as a set of nodes of finite height, and their Markdown | `InOrder` |
| `Content`, `MCContent` | an issue from the response to the pages and to the reader across the bridge; responses | `References`, `ADF`, `CustomFields` |
| `ReadingProofs` | theorems about what is read from Jira: the client that asks, and what becomes of the answer | `JiraClient`, `Content`, `LoopProofs` |

The parts are composed in two ways. `Pipeline` extends the modules of what the
workers call; `Content`, `CommandLine` and `Writes` extend the modules of the
functions they apply. The large state machines are layered: `Crawl` (who works
on what) stands over `JiraClient` (what a fetch may answer: `AllReplies` of Crawl
is the set of outcomes of `JiraClient`, seen by `handleFetchError`), over
`IssueStore` (what a write may leave: `disk` in Crawl is `index` in IssueStore,
with the calls of one run never overlapping on an issue, which is what
`OneOutcome` of Crawl says) and over `Pipeline` (what happens between the fetch
and the end of `processIssue`). `Serving` stands over `Crawl` as "workers that
each fetch an issue", `Writes` over `JiraClient` as "an answer may be lost and
the request made again".

Some definitions are preceded by a "slip": the same definition with a mistake
that is easy to make in the code (a missing check, a counter that is not
incremented, an early return). No specification uses them. They record, for each
property, an error that the property catches: put the slip in place of the
definition, and TLC finds the property violated.

### Crawl

`pc[p]` is where a goroutine is: the workers, `Main` (`crawlImpl`) and `Closer`
(the goroutine that waits for the context). `mu` is `c.mu`; `queue` and
`queueClosed` are the channel and its flag, `pending` the atomic counter,
`visited` the set of accepted keys. The Summary is kept per key: `tally[k]` is
the sequence of outcomes that were counted for an accepted key `k`, `refused[k]`
how often `enqueue` counted `k` as `CapLimited` instead of accepting it. `disk`
and `links` are what the run wrote and which relative links it rendered.

* A critical section that cannot block is one action. `enqueue` under the mutex
  can block on a full channel, so each reference is a step (`EnqueueKnown`,
  `EnqueueRefuse`, `EnqueueAdmit`) and the channel send another (`EnqueueSend`),
  with the mutex held throughout, as in the code.
* `Decrement` (atomic, without the mutex) and `CloseQueue` (a later critical
  section) are two steps, and so are the counting of a 401 and `Abort`.
* `Fetch` stands for `fetchIssue`, `handleFetchError`, parsing, extraction and
  enrichment: its reply says what came of them. `DiscoverChildren` may keep any
  of the children, in their order, when a query fails or is cut.
* The drain of the closer is one step per item: workers receive in between.

### IssueStore

`index[k]`, `outbound[k]` and `temps` are the files; a content is a page, which
is the number of a call of `Write` and whether it has outbound references, and
whether all of it was written. A writer is a run of the program; within a run
the calls come one at a time for any issue, and two runs may share the
directory. Each system call is an action that may fail, and a run may be killed
before or after any of them (`Crash`).

Two history variables say when a property is to be expected. `orderly` is true
as long as no call began while another was under way and no failed `os.Stat` hid
a file; `lost` holds the calls that were killed, or whose temporary file could
not be removed. `OkIsOnDisk` and `KeepsExisting` are stated for orderly
histories only: two runs that overlap on one issue both find no `index.md` and
both put theirs in place, whatever one of them reported.

### JiraClient

`network`, `rate` are `networkAttempts` and `rateLimitAttempt`; `sent` counts
requests. `fate[c][n]` is what became of the n-th request of a call: it may stay
`"flying"` after the client gave up on it and be carried out later, which is
what makes a retried write dangerous. A request that is lost is one that flies
for ever. `Answer` is `doOnce` returning and the switch over the status;
`NoAnswer` is a timeout, a cancellation or a connection that fails; and
`BrokenAnswer` is an answer whose body breaks off, which the logging transport
turns into a short body. A gateway may answer with a status of its own
(`"other"`) whatever became of the request. All calls update one field of one
issue, so that one call can undo another.

`RemoteCall` says what is known from an outcome and from whether the loop met
network errors: carried out exactly once, at least once, not at all (and none of
these ever changes), or unknown. The code does not tell its caller whether
there were network errors, so a caller knows less: a success is "at least once".

### Pipeline

`search[w]` is the call of `Children` that worker `w` is in and, after it, where
the worker is with its issue; `field` is the lookup of the Epic Link field that
the first worker makes for all. `work[w]` is what the enrichment brought; `graph`
is the collector, `prs` the pull requests announced, `log[k]` the events of an
issue in their order; `result[k]` is a history of what became of issue `k`.

* `Children` is a step per request. Each of the three requests of an issue (the
  search by parent, the list of fields, the search by epic link) may fail, and
  the failed lookup stays for the life of the Discoverer, as in the code. A
  worker that comes while another has the lookup under way waits for it.
* `Enrich` asks for every known data type of every application; any subset of
  these requests may fail. The requests touch nothing shared: `EnrichIssue` is one
  step that takes the set of failures as its input.
* `Write` announces "fetched" before the mutex is taken and `Report` is the
  critical section after it: pull requests, the graph, children, references. Two
  workers come in between in either order.
* `IssueGraph` adds one whole issue at a time with all its sources of nodes and
  edges; `References` says what an issue refers to. Loops are `ForEach`.
* `todo` is the queue without its caps: those are Crawl's.

### Writes and WriteRequests

`WriteRequests` follows what a user gives to a command or a tool down to the
body Jira gets: the command line applies an option for each flag that was set;
the MCP tools apply those that are not empty (`"self"`), or put them in a message
of the gRPC server, whose handler applies what is not empty there (`"bridge"`).
Raw fields travel as JSON over the facade and as texts over the bridge, where
they are parsed again.

In `Writes` a call goes through stages: it begins (refuses, dry-runs, or plans
its request), lists the transitions or resolves the key of a project if it must,
and writes; a list goes page after page. `call[c].carried` and `.lost` count how
often Jira carried the write out and how often the answer was lost. `Others` are
other users, who move the issue and add or delete versions between any two
requests. The retry loop itself is `JiraClient`; `WriteUnanswered` is its effect.

### Serving

`server`, `exit`, `signalled` are the life of `Serve`; `session`, `mode`,
`writes` an MCP session; `call[c]` is the caller's side of a call and
`handler[c]` the handler's, with the configuration it works with; `worker`,
`number`, `stream`, `progress` are a crawl that reports while it runs.

* A crawl behind the server sends each event on its stream from the worker that
  fetched; `BeginSend` and `EndSend` are two steps, and Sends that overlap may
  lose an event, which is what grpc-go leaves undefined. In a session each worker
  adds one to the counter (`Count`) and notifies (`Notify`) in two steps.
* A handler that fails, a connection that breaks, a listener that fails to open
  or to accept, a session that closes: each is a step of its own at any moment.
* `Overridden` is what the graph handler makes of the server's configuration and
  a request. The bridge leaves the overrides of its message unset.

### Config and CommandLine

Eight settings stand for the 23 fields of `Config`, one or more of each kind:
required ones (`site`, `token`), a number, a list, a directory, enumerations, an
address. A source gives a setting, gives it as empty, or does not give it.
`Config` has both ways to a configuration: the key-value map of the commands
(`LoadCommand`) and `LoadAppConfig` of the library (`LoadApp`). `Blank` is white space
alone, which `Build` takes for a value and `ValidateApp` (`Trim`) does not; around a
text it is left out of the model.

A process of `CommandLine` passes the guard, loads, works under signals, and
exits; `gojira init` checks for the file, asks, opens (which truncates) and
writes, each in a step, and is killed between any two. The files are shared by
the processes; each sees them as they are when it gets there.

### Content

`response` is what Jira answers, field by field absent, null, of a wrong type, or
there. `GetIssue` parses it and extracts its references; `FetchAndRender` makes
`index.md` and `outbound.md`; `GetByBridge` is what a host gets over the gRPC
server instead. `ADF` renders node by node to a sequence of tokens: a text, a
piece of markup, a line break. Its functions go down a document node by node:
the nodes are a constant, `Nodes`, with the height of each, as Atlassian's schema
has them (`NodesAssumption`). `CustomFields` decides whether a value goes inline
or in a fence, and has the prettifier of Atlassian's `{a=b, json={...}}`
summaries character by character, because what it does wrong it does by position.

## 3. What is checked

| Run | Instance | Properties | Question |
|---|---|---|---|
| `core` | 2 workers, closer, caller; 4 issues that refer to each other, depth limit 1; every reply, failing child searches and writes, cancellation at any moment; fairness | `NoSendOnClosedQueue`, `OneOutcome`, `AbortReported`, `DepthLimitHolds`, `SummaryFinal`, `ImplementsLedger`, `Termination` | the queue protocol, the accounting, a 401, the limit, the refinement, and that the crawl returns |
| `caps` | 3 workers; issue cap 3 for 4 issues; another run on the same directory | `NothingLost`, `IssueCapExact` | the cap is exact, and nothing is lost silently |
| `full_queue` | 2 workers, a channel of 2 for a start key that refers to 4, cancellation; fairness | `GracefulShutdown` | *violated*: a cancelled crawl does not return |
| `store` | 2 runs, one with refetch, 2 issues, 3 calls; every fault | `NoTempLeft`, `KeepsExisting`, `ImplementsDisk` | temporary files, replacement, one page per issue in one step |
| `pipeline` | 2 workers, an epic, its child, a sub-task, another issue; two applications; every request and write failing or not; fairness | `ChildrenAccountedFor`, `FoundSurvives`, `GraphIsUnion`, `PRsAnnouncedOnce`, `EveryIssueFinished` | what is found survives, and nothing depends on who comes first |
| `client` | 2 calls, one with a logger, one retry of each kind; fairness | `GivesUpWhenSpent`, `UpdateStands`, `KeepsPromise`, `CallsReturn` | budgets, overwriting, refinement, termination |
| `writes` | each kind of write by each front end, beside a second call and another user, a lost answer | `WritesWhatWasAsked`, `TransitionHitsTarget`, `OutcomeTellsEffect`, `ListingComplete` | a write does what was asked and no more, and tells what it did |
| `serving` | a crawl beside a graph or a write call, or two graph calls; 2 workers each; every mode, signal and fault; fairness | `StopWaits`, `OwnConfig`, `ProgressFaithful`, `SuccessIsComplete`, `Stops` | stop, configuration, progress, broken streams |
| `stream_send` | the same | `OneSendAtATime` | *violated*: two Sends at once on a stream |
| `commands` | one command on every kind of files, variables and flags, a crawl under signals; `init` beside another command | `CascadeOrder`, `LibraryAgrees`, `GuardSound`, `InitRoundTrip`, `ExitTellsOutcome` | who wins, who agrees, what is read back, what the exit code says |
| `config_canonical` | the same | `CanonicalHonoured` | *violated*: a documented variable is read by no command |
| `content` | some nine thousand responses | `TextKept`, `BlocksApart`, `NothingUnseen`, `FieldsKept`, `BridgeRefers` | nothing is lost between the response and the reader |

The violated runs check statements of the documentation or of comments that the
code does not keep; `PROJECT.json` quotes them under `findings`.

### Bounds, and why they are enough

* Crawl: two workers meet every pair of steps of two workers, with the closer
  and the caller; three (`caps`) allow one that decrements, one that exits and
  one that still enqueues. Four issues hold a cycle, a shared target, a self
  reference and a child that is also a reference. The channel has room for every
  key in `core` and `caps`, since the code makes it larger than the number of
  start keys by 1024 and the smaller channel is the subject of `full_queue`.
  There is no counter that needs a bound: `visited` bounds the rest. `caps` uses
  the symmetry of the workers, and has no temporal property.
* Store: two writers and two issues meet every pair of steps on one issue and on
  two; `MaxCalls` = 3 bounds the calls of `Write`, which gives a killed call, a
  call on its remains, and a third run's view of both.
* Client: the two limits, 5 and 3 in the code, are one each in `client`, which
  gives every order of one 429, one network error and the answer after them; the
  theorems hold for any limits. `MaxTries` bounds the requests of a call and is
  never what stops one (`CallsReturn`).
* Pipeline: the child limit is 2, one less than the number of children of the
  epic; one issue is known by its parent, by the epic link and by its sub-task
  list; one pull request by a description, a remote link and two applications.
* Writes: one lost answer in a call (`MaxLost`), one change by another user
  (`MaxOthers`), pages of two for the two versions there are and those that are added (`PageSize`). A workflow of
  three statuses has a status reached by one transition, one by two, and two
  names that differ in their case.
* Serving: two calls of two workers each; nothing else counts.
* Command line: two processes, of which the second is a command or another
  `init`. The scenarios cross every kind of file with every kind of environment
  and flags for one command at a time.
* Content: documents of up to four levels and every pair of blocks, every text of
  up to four of eight characters in a custom field, and longer ones for nested and
  embedded JSON. Beyond a node within a node within a list nothing in the renderer
  looks further up, so that deeper documents repeat these seams.

`CHECK_DEADLOCK` is off where the system may stop: `full_queue` (being stuck is
its subject), and the two servers, the writes and the commands, which are over
when all calls and processes are. The others say what it is to be finished.

### Fairness

* Crawl: weak fairness of each goroutine. The Go scheduler runs what can run,
  `sync.Mutex` does not starve a waiter for ever, and every step that waits for
  the outside (a fetch, a child search) is bounded by the HTTP client's timeout
  of 30 s and the retry budgets. Nothing is assumed of a cancellation or of
  another run.
* Client: weak fairness of the steps of each call: a wait ends by the timeout at
  the latest, a sleep by its timer. Nothing is assumed of Jira: it need never
  answer. A client that was given an `http.Client` without a timeout is outside
  this.
* Pipeline: weak fairness of each worker, on the same grounds; a worker that waits
  for the field lookup waits for another worker's request.
* Serving: weak fairness of the server's goroutine, of the work of each handler
  and of a caller that reads its stream. A crawl returns (`Termination`), so its
  handler ends; a broken connection makes its Sends fail, not block. Nothing is
  assumed of signals, failures or of new calls.
* Store, Writes, CommandLine, Content: no liveness is claimed.

## 4. What is proved

TLAPS checks all of these for every value of the constants, under the named
assumptions `CrawlAssumption`, `StoreAssumption`, `NoneAssumption`,
`ClientAssumption`, `WritesAssumption`, `ServingAssumption`, `PipelineAssumption`,
`FormAssumption`, `NodesAssumption`, `ContentAssumption` and
`ScenarioAssumption`. They fix the types of the constants and
tell some values apart, and TLC evaluates each of them in a run. These have
content:

* `QueueBuf > Len(StartKeys)` (`crawl.go` makes the channel so), without which the
  caller could block on the channel before it started a worker.
* Jira gives a transition of a workflow one id and one target, and a new version
  an id that no version has (`VersionIds` is the set they come from).
* A request gives only fields that its front end has flags or arguments for
  (`Offered`), and raw fields only to an issue through the MCP tools, each a text or
  other JSON.
* An issue's key is its own, is not empty, and is not a URL: the target of a
  remote link is no bare issue key (Jira accepts only URLs there), and what the
  classifier makes of a pull request, `owner/repo#n`, is none either. In the graph
  all these are identifiers of one map, so that an issue and a remote link of the
  same name would share a node.
* A parsed issue has no children and no pull requests before the crawl has
  searched for them, and each application of Dev Status answers every data type
  with identifiers the instance knows.
* A document is a finite tree that follows Atlassian's schema: text and its marks
  are in nodes without children, a code block holds only text and a list only
  items (`NodesAssumption`). The tokens of a page are told apart by where they come
  from: a text that looks like markup is a text. A related issue has a key, only
  a parent's may be empty; a value in JSON that is no object, array or string is on
  one line (`ContentAssumption`, by `IsResponse`). Everything else of a response may
  be absent, null or of a wrong type, and a text of a custom field may be any.
* A scenario of the command line has its three files, each absent, broken or a
  document that gives each setting a text, an empty text or nothing, and a text may
  be white space alone; a flag cannot be given and be nothing.

| Theorem | Statement |
|---|---|
| `TypeCorrect`, `Inductive` | types and `CrawlInv` |
| `SendsAreSafe` | no send on a closed channel |
| `PendingIsExact` | the atomic counter is the number of unfinished items |
| `ClosedInTime` | the queue closes when all is done, or because of a cancellation |
| `CountedOnce` | no key is counted twice, none that was not accepted |
| `AbortIsReported` | a 401 is reported exactly when there was one |
| `SummaryIsFinal` | a returned Summary does not change |
| `LedgerImplemented` | `Crawl` implements `CrawlLedger` |
| `IssueCapIsExact` | no more issues are accepted than the cap allows, and none is turned away by it before |
| `NothingIsLost` | what a fetched issue refers to is accepted, counted as `CapLimited`, or still in its worker's hands |
| `DepthLimitIsKept` | every accepted issue is within the depth limit of a start key |
| `StoreTypeCorrect`, `StoreInductive` | types and `StoreInv` |
| `FilesAreWhole`, `IndexComesFirst`, `TempsAreRemoved` | no torn file; no `outbound.md` without `index.md`; no temporary file without a live or a lost call |
| `SuccessIsOnDisk`, `ExistingIsKept` | in orderly histories, success is on the disk, and only a refetch replaces an issue |
| `DiskImplemented` | `IssueStore` implements `IssueDisk` |
| `ClientTypeCorrect`, `ClientInductive` | types and `ClientInv` |
| `OnlyNetworkErrorsDuplicate` | a call is carried out at most once more than there were network errors |
| `GivesUpLate` | an error for want of retries comes when they are spent |
| `LaterUpdateStands` | a call in which there is no doubt does not undo a later one |
| `PromiseImplemented` | `JiraClient` implements `RemoteCall` |
| `OutcomeIsEffect` | the outcome of a write tells what Jira carried out, but for lost answers |
| `TransitionIsOnTarget` | a transition by status is the only one that led there, and leads there |
| `WritesAsAsked` | through any front end, a write sets each field that is asked for to what is asked, and leaves every other as it was |
| `StopCutsNothing` | `Serve` returns nil after a signal and with no call running |
| `ConfigIsOwn` | a call runs with the server's configuration and its own overrides; what an unset boolean stands for is left open |
| `SuccessIsWhole` | a caller told of success was answered by one, its summary included |
| `ProgressIsFaithful` | no progress number repeats; a crawl that succeeded was notified of in full |
| `ListingIsComplete` | a list of versions that succeeds, while none is deleted, has nothing twice and all that was there when it began |
| `PipelineIsSound` | the inductive invariant of the workers' pipeline |
| `ChildrenAreAccountedFor` | a reported issue has what its searches found, each once and up to the limit, and tells of a failed search |
| `FoundIsKept` | a failed Dev Status request takes nothing from what the others found |
| `GraphIsOfAllIssues` | in any order of the workers, the graph has the edges and nodes of what the reported issues refer to, and the fetched ones keep their data, but for labels |
| `PRsAreAnnouncedOnce` | each pull request is announced once in a crawl, and counted once |
| `TextIsKept` | every text of a document is in the page, in its order |
| `BlocksAreApart` | headings, items and fences begin a line; a fence is closed around nothing but text |
| `NothingIsUnseen` | the related issues, and the keys and URLs with a host among the targets of remote links and link marks, are in `outbound.md`; the keys among these are those to crawl; the types of the outermost nodes that were not rendered are named |
| `FieldsAreKept` | every custom field has its entry, with all that Jira said, every line set in |
| `BridgeRefersToAll` | the references over the bridge are those of the facade |
| `ProcessesAreSound`, `ExitTells` | what a process reports fits what it did; the exit code tells the outcome |
| `SettingsFromStrongest` | each setting comes from the strongest source that gives it |
| `LibraryAgreesWithCommands` | both ways to a configuration come to the same one, but for white space and for a list that a file empties |
| `GuardIsSound` | the guard refuses only what could not have loaded |
| `InitIsReadBack` | what `gojira init` was told is what the next load reads |

Some of these (`TypeOK`, `PendingExact`, `ClosedOnlyWhenDone`, `NeverTorn`,
`OutboundHasIndex`, `OkIsOnDisk`, `CopiesAreRetries` and the inductive
invariants) are in no run: they are the parts of the arguments below, and proved.

### The arguments

* **Crawl, the pool.** `PendingExact` is not inductive alone. The counter counts
  the queue, the items in workers' hands, and the one send under way; that there
  is one at most is mutual exclusion (`MutexInv`). That zero means the end, and
  not a gap between two items, needs `LifeInv` (references in hand only between
  lock and unlock, where the worker is still counted) and `CloseInv` (who is about
  to close saw zero, and zero stays). That a key is counted once needs to know
  where it is from its acceptance to its report: in the queue once, with one
  worker, or being sent, and in no two of these (`PlaceInv`, in four parts). A 401
  is carried by its worker from its count to the recorded error (`AbortInv`), and
  the crawl returns only after every worker has left. The refinement maps a key
  to "unseen", "owed" or its outcome; the return maps to `Return` because
  `NoKeyForgotten` leaves no place for a key that is owed when the queue is empty
  and the workers are gone.
* **Crawl, the limits.** `visited` grows by one under a test of its size
  (`CapInv`). What a page was rendered with is known or is about to be enqueued by
  the worker that rendered it (`LinksInv`); that this worker still has it needs
  `FoundInv` (what a search found are children of the issue in hand) and
  `ReportInv`. The depth of an item is not the distance of its key, only the
  length of one route to it: `RanksInv` says there is a rank for each accepted key,
  the depth of the item that brought it, such that every key of a positive rank
  has a fetched issue of a smaller rank that leads to it. From that the route
  follows by as many steps as the limit allows.
* **Store.** `PageInv`: no two live calls render the same page, so that the
  temporary files of two calls differ. `StageInv`: the call turns to `outbound.md` when
  `index.md` is in place. `TempInv`: the temporary file that is about to be renamed is there with all its
  bytes; `Rename` puts in place what that file holds (`Held`), so that nothing torn is
  ever placed is a matter of the order of the steps and of whose file it is.
  `SoleInv`: what the one call under way knows of the disk in an orderly history.
  In the refinement the rename of `index.md` is the one step that changes a page.
* **Client.** `CountInv`: every request but the last was followed by one retry of
  one kind, so `sent` is the sum of the counters, or one more. `RetryInv`: the
  retries after a 429 are matched by refused requests, which is what bounds the
  duplicates by the network errors alone. `OutcomeInv` ties an outcome to the
  fate of the last request. `OrderInv` relates two calls: once a call was carried
  out, no earlier call without doubt is the last writer, because nothing of such
  a call is under way (`SettledCall`).
* **Writes.** Every call is right by itself (`WritesInv` is a conjunction over
  calls): its stage fits its operation; what was carried out equals the answers
  lost, plus one after a success; and once a transition was chosen, its id leads
  to the target wherever the issue is by now, because an id has one target. That
  no front end passes both an id and a status is `OneOfTwo`.
* **Writes, the bodies.** `WritesAsAsked` is first about a front end: `Carries` says
  of the fields of a message and its raw fields that they hold what is asked and
  nothing else, once for the command line and the facade together
  (`PlainCarries`) and once for each message of the bridge, but for what the bridge
  is known to lose. `OptionsGive` and `RawOptionsGive` take it to the options,
  in whatever order a map gives its keys (`Answers`); `BodyHas`, an induction over
  the options with the rule of `LoopProofs`, to the body; and `BodyOverlays` to what
  Jira has afterwards. The invariants add that a call keeps its request
  (`RequestsInv`) and that one version has the id to be updated (`ListingInv`).
* **Serving.** `ServingInv` says where a handler is relative to its call and to the
  server (`PlaceInv`, `StopInv`), that the server's configuration never changes
  (`ConfigInv`), and that the summary of a crawl that succeeded was received or is
  the last thing on its stream (`SummaryInv`). For progress, the numbers of the
  workers that counted are distinct and no larger than the counter; what was
  notified are the numbers of the workers that are done. When all are done there
  are as many distinct numbers up to the number of workers as workers, so these
  are all the numbers (`ProgressInv`). Over the bridge the caller counts what it
  receives.

* **Listing.** A list of versions is cut by position, and others add at its end
  while it goes on. `ListingInv` says that ids are given once, that the pages read
  so far are, position by position, the versions Jira has, and that what was there
  at the first page still is, unless one was deleted between two pages.
* **Loops.** The merges, the deduplication, the graph's mentions and the
  announcements are loops over sequences of any length. `ForEach` is a recursive
  function on `0 .. Len(q)`, and `LoopProofs` proves by induction on the natural
  numbers that a predicate `Kept(d, i, value)` which the body keeps from `i - 1` to
  `i` holds at the end. The body and the predicate are constants of that module,
  and each loop is an `INSTANCE` of it with its own: this is how an induction rule
  is applied where the prover takes no operator as an argument. So `AddKeysHas`
  says that a search adds what it finds, once each and up to the limit; `MergedHas`
  and `DedupHas`, that the entities of a data type are those of its answered calls;
  `ConnectedHas` and `RefsHave`, which edges and nodes the mentions of an issue
  make in a graph; `AnnounceHas`, that an announcement follows exactly when the
  pull request was not seen.
* **Pipeline.** `Inv` has nine parts. An issue is with one worker at a time and
  reported once (`OwnedInv`), so that a result is not made twice. What a worker has
  found so far is what its searches gave, cut at the limit (`SearchInv`); for an
  issue that is past its second search this depends on whether the Epic Link field
  is known, and it stays true only because what the first lookup came to never
  changes (`FieldInv`, with `Settled` for a worker that skipped the lookup).
  `WorkInv` has what an enrichment brought before it is reported, `PRInv` ties the
  announcements in all logs to the set of pull requests seen and to its size,
  `LogInv` ties an issue's failure events to its failures at every stage, and
  `ResultInv` is what remains of these after the worker let the issue go.
  `GraphInv` is stronger than `GraphIsUnion`: it also says that a node that was only
  mentioned has no data. Without this the fetched data could lose to what was
  there. That the union does not depend on an order rests on one fact about
  references: whether a mention makes an edge depends on the edges of the same
  issue only (`AnyEdgeBetween` has its key as the source), and an issue is added
  once.
* **Content, documents.** What the renderer does with a node depends on what is
  already in the page, so the induction over the height of a node (`AllAreGood`)
  is about any page before it: `Grows(r, s, words, missed)` says that `s` is `r` with
  exactly these words after its own, these types of nodes added to the unknown
  ones, and that a page in which all is well is still one. `BlocksApart` is told by
  a reader of the whole page, and is not inductive for a piece of one: what it needs
  of a piece is what the reader makes of it after anything that is well (`SoundOn`), and
  that `EnsureBlankLine` leaves the reader at the beginning of a line
  (`EnsureGrows`). A quotation is rendered into a page of its own and then put,
  line by line, into the other: `QuoteTokenKeeps` is the step of the loop in which
  the reader of the quoted and the reader of the quotation stay in agreement
  (`Agree`). `LoopProofs` has the rule for a recursive function on `Nodes`
  (`RenderNodeIs`, `CollectTextIs`, `ExtractLinksIs` are its instances): it is well
  defined, because the height falls.
* **Content, fields.** `Ink` of a text is what is left of it without blanks and
  quotes. `IndentKeeps`, `PrettifyKeeps` and `QuotedKeeps` are inductions over the
  characters of a value. In the prettifier the walk may be ahead of the loop, as it
  jumps over a JSON value: what is written has the ink of what is before the
  position of the walk (`Walking`), and `JSONValueEnds` says that such a jump goes
  forward and stays within the text. `SetIn` says that every line but the first of
  an entry begins with two blanks.
* **Content, references.** `ExtractLinksFinds` says that the links of a document are
  the targets of all marks of all nodes within it, `AllRefs` has what the five sources
  add, and `NothingLost` follows from what `Classify` makes of each link
  (`ClassifyIs`). The machine adds little to these: `OnItsWay` says that what is in
  hand was made of the response.
* **Command line, processes.** `ProcessInv` is a conjunction over processes: its
  stage fits its signals, its code and what it holds of a result. `ExitTells` is a
  case analysis of `mapCrawlOutcome` from there.
* **Command line, configuration.** The cascade is pure: `ValuesAre` says what the
  merged map holds for a setting, `CommandGets` and `LibraryGets` what the two ways
  make of it, `BuildFine` that they accept the same. `MachineInv` connects them to a
  process: what it loaded is `LoadCommand` of the files it saw. `InitIsReadBack` is
  about two processes and a file between them: `MachineInv` says that what `init`
  is about to write is complete and is what it was told, and `EditInv` that
  the file of the last process that wrote (`edited` has them in their order) is what
  it wrote, once it is done.

### Only model-checked

* Liveness (`Termination`, `CallsReturn`, `EveryIssueFinished`, `Stops`) is out
  of the proof system's reach.
* A violated statement needs no proof: its counterexample is a run of the model.

## 5. Disagreements met on the way

Three are violated runs: `full_queue`, `stream_send` and `config_canonical`. The
others are in the models as the code has them, and the properties are stated
around them, each with the exception in its comment. First those where the code
contradicts a statement of the repository that can be quoted, then those where it
surprises without contradicting one.

### Against a statement of the repository

| Where | The statement | What the code does | How the properties take it |
|---|---|---|---|
| graph | "a Fetched=true node always wins" (`graph.go:296-299`) | the label of a fetched node is replaced by that of a placeholder that comes later (`graph.go:317`) | `GraphIsUnion` compares edges, nodes, who is fetched, and status, type, assignee and URL; labels, which depend on the order of adding, are not in it |
| graph requests | of the knobs, `include_children` and `include_dev_status` among them: "Zero values fall through to the server's configured defaults" (`server.go:319-323`) | the booleans of a request overwrite the configuration even if nobody set them (`server.go:355-356`) | `OwnConfig` fixes the cap and a boolean that is set; an unset boolean may be either |
| configuration | white space alone as the user or the output directory is refused (`validation_test.go:42-47`) | the library refuses it (`validation.go:199-219`), and the token too; the commands, whose rule is "not the empty string" (`config.go:84-87`), load it | `LibraryAgrees` is up to a token (or user) and a directory of white space |
| `gojira serve` | "A clean signal-driven shutdown returns nil (exit code 0)" (`serve.go:99-104`) | it exits with 2 | `ExitTellsOutcome` asks of `serve` 0 or 2, as its test does (`serve_test.go:101-115`) |
| outbound references | "URL is the raw URL string", for an external link too (`extract.go:81-82`) | a `mailto:` or relative target gets an empty URL | `NothingUnseen` is about keys and URLs with a host |
| unknown nodes | "every node type the renderer does not handle" is listed (`adf.go:214-215`, `render.go:32-33`) | a type that occurs only within another unknown node is not | `NothingUnseen` is about the outermost unknown nodes |
| relative links | "The relative path target (<KEY>/index.md) will exist on disk after the child is processed" (`crawl.go:641-646`) | a child that the issue cap turns away never gets a page | `NothingLost` has it accepted or reported, not written |
| depth limit | "the maximum crawl depth from the starting issue" (`config.go:106`) | the depth of an issue is that of the route that reached it first; one that runs ahead on a long route uses up the limit, and issues within it by another route are refused | `DepthLimitHolds`: what is accepted is within the limit, not that all within it is accepted |
| Dev Status | "all calls failed" (`devstatus.go:217`) | said as well when some failed and the others found nothing | `FoundSurvives` is about what was found, and that an error comes along |
| bridge, issues | the answer has "only the fields the proto carries" (`bridge_backend.go:82-87`) | parent, sub-tasks, links, remote links and custom fields are carried and dropped | `BridgeRefers` is about the references alone |

### Without one

Crawl and store:

* A key can be counted as `CapLimited` several times, and be fetched as well; a
  key that a closed queue refuses, or a cancellation cuts, is counted without an
  event (`crawl.go:346`).
* A run killed between the renames of `index.md` and `outbound.md` leaves an issue
  that later runs take as complete and do not expand (`crawl.go:424`); a refetch
  of an issue that lost its references leaves the old `outbound.md`.
* Two runs that overlap on one issue both replace its files, whatever one of them
  reported: `KeepsExisting` is for orderly histories.
* After one failed field lookup, or one that a cancellation cut, every later epic
  loses the children found by epic link, without an error (`hierarchy.go:225`).
* The errors in a successful Dev Status response are not looked at; the child
  search reads its first page only.
* Pull requests are told apart by URL: one with and without `/files` is two.

Client and writes:

* With a logger, a body that breaks off is a short success, not an error that is
  retried (`httplog/roundtripper.go:138`, `client.go:249`).
* Over the bridge (`LostByBridge`): an assignee is dropped when an issue is created
  (`bridge_backend.go:233`), `released` and `archived` are sent as false when a
  version is created, a raw string that parses as JSON (`"42"`) becomes a number,
  an empty comment or update goes through that the others refuse, and typed labels
  win over raw ones where raw ones win over the facade.
* A list of versions is cut by position: when a version is deleted between two
  pages, another one is left out.

Serving:

* Progress over the facade may arrive out of order (`facade_backend.go:220`).
* Errors that come over the bridge match no sentinel, so that the tools report
  them unclassified; the bridge's crawl drops the keys turned away by a cap.
* `Serve` gives up the error of the listener once the context is done.

Command line:

* A list that a file empties is the default again for the commands, and empty for
  `LoadAppConfig`; a file of comments alone is refused; a broken global file fails
  a command whose local file would do.
* `gojira init` checks for the file before it asks, and writes it in place: two
  of them, or a kill, leave what the last step left. With one signal it writes the
  file and exits with 2. A token on a piped standard input is lost when a prompt
  comes before it.

Content:

* Two paragraphs in a list item are fused (`adf.go:410-425`); of several link marks
  the first is rendered and all are followed; an `inlineCard` is neither; children
  of a code block that are no text are dropped.
* `created: null` fails the issue, where other fields may be null.
* The prettifier takes `{` and `[` for each other; a value that holds a fence ends
  its own (`FieldsKept` compares what is there up to blanks, quotes and fences).
* Over the bridge a reference to a pull request has lost its owner, repository and
  number. `BridgeRefers` compares references without them.

## 6. What is not modelled

* Tracing, logging, build information, generated protocol code: no state that
  another part reads.
* In Crawl: spans and timings, `validateKey`, the texts of events. In the store:
  the durability of a rename after a power failure (the temporary file is synced,
  its directory is not; the model's crash is that of the process).
* In the client: the length of a sleep, `Retry-After`, the construction of a
  request, the decoding of bodies; the read methods, which are one trip through
  the loop each; what the logging transport logs.
* In the pipeline: the fields of a Dev Status entity other than its key, an answer
  of Dev Status with entities of another type than it was asked for (`mergeInto`
  would take them), the sorting of the graph's model, the slog sink.
* In the servers: the JSON schemas of the tools, the wording of errors.
* On the command line: help, completion, output formats, versions; of the example
  client, everything but its stream loop.
* In the content: comments and worklogs, plain fields other than by their
  presence, stub pages, the Development section, the JSON form of an issue, the
  numbers of list items and levels of headings, `adf/build.go` (one paragraph
  around a text).

`PROJECT.json` says the same component by component. One hazard has no property:
a rerun takes an `index.md` as a whole issue. The models have it as it is, and a
property would only repeat what section 5 says of it.

## 7. What is left

1. The stub pages, the Development section and comments, as further topics of
   `Content`.
2. The read methods of the client with their pages, on the pattern of the list of
   versions in `Writes`.
