# Verification of `bi`

`bi` converts office documents to PDF, PNG or markdown over HTTP. `bi serve`
accepts requests, admits a bounded number of them and runs each conversion in a
child process of its own, `bi convert`, which loads LibreOffice in-process.
This directory holds TLA+ models of the parts of that program where order,
failure and concurrency matter, TLC configurations that check them on small
instances, and proofs, checked by TLAPS, for every value of the constants.

Paths below are relative to the repository root; `server/` stands for
`internal/server/`, `worker/` for `internal/worker/`.

## 1. Inventory

| part | state | operations | interacts with |
|---|---|---|---|
| Limiter (`server/subprocess.go` acquire, release, observeQueueDepth) | two buffered channels, two gauges | acquire, release, cancel while waiting, observe | called by Run; gauges read by Prometheus |
| SubprocessConverter (`server/subprocess.go` Run) | output path, scratch directory, child process, its last stdout line | reserve path, spawn, kill, wait, parse, clean up | limiter, `os/exec`, the child, the handler |
| worker.Pool (`worker/pool.go`) | queue, closed flag and lock, worker goroutines, result channels | Run, runWorker, Close | `bi convert` calls it; it calls LOK |
| Handoff (`server/handler_*.go`, buildSubprocessArgs, `cmd/bi/convert.go` buildJob, `internal/pngopts`) | none | one job written as a query, as flags and as a `worker.Job` | handlers, child |
| Pipelines (`worker/run_*.go`) | LOK document, temp files, picture or markdown under construction | runPDF, runPNG, runMarkdown, assembleMarkdownWithOCR | LOK, PDF reader, OCR engine |
| OCR adapter (`internal/ocr`) | language packs, one client per engine | Probe, New, Recognize | Tesseract |
| Error classes (`cmd/bi/convert.go`, `server/subprocess.go`, `server/problem.go`) | none | classifyConvertErr, classifySubprocessErr, mapError | one string per failed child |
| Request path (`server/middleware.go`, `server/handler_*.go`) | staged body, output, header map, status recorders | middlewares, four handlers, handleConversion | converter |
| Readiness (`server/handler_health.go`) | cached verdict, singleflight | look, join, probe, store, answer | converter, under the context of one client |
| Start and stop (`cmd/bi/serve.go`), configuration (`internal/config`), LibreOffice's path (`internal/config/lokpath.go`) | configuration, HTTP server | Load, ResolveLOKPath, serve, Shutdown on a signal | the environment, every child, every request in flight |
| mdconv, CLI dispatch, health check, signal mask, tracing | none that outlives a call | text rewriting, one HTTP GET, start-up | |

What makes each part correct, and what is hard about it:

- *Limiter.* Capacity is neither leaked nor forged, whichever of the ready cases
  Go's `select` picks; a refusal is justified; gauges updated between channel
  operations never show an impossible value.
- *SubprocessConverter.* The child may crash, hang, print anything, or leave
  descendants behind, at any point relative to the deadline and the client's
  hang-up. Nothing may be left on disk after a failure, and nobody may wait for
  ever.
- *Pool.* Run and Close race for the queue; outcome and deadline race twice,
  once in the worker and once in Run.
- *Handoff.* Two binaries write and read one job in three notations, each with
  defaults of its own; limits are checked in 64-bit arithmetic.
- *Pipelines.* A dozen calls may fail; each way out must close the document and
  leave the output or nothing. A grid is checked, sized and drawn in three places.
- *OCR adapter.* The names of languages pass through five functions to Tesseract.
- *Error classes.* Two binaries agree on strings.
- *Request path.* Many early returns and panics through deferred calls; middlewares
  share headers and observe the status.
- *Readiness.* Requests share one probe and one verdict, clients come and go.
- *Start and stop.* Each child derives its set-up again from the environment of its
  server, after the disk may have changed; a signal comes at any moment.

PROJECT.json lists the hazards one by one, each at its line with the properties
that watch it, or with the reason why none does.

## 2. Modules

| module | models | variables correspond to |
|---|---|---|
| `Limiter` | acquire, release, observeQueueDepth | `admission`, `workers`: tokens in the channels; `busyGauge`, `queueGauge`: the gauges; `pc`, `scan`: where a call's goroutine is; `ctx`: its runCtx |
| `Subprocess` | Run between acquire and release, child, `os/exec`, handler | `stage`: the statement of Run; `outFile`, `procTmp`: files; `child`, `stray`, `line`: processes and the last line of stdout; `killed`, `runErr`: what the watcher and Wait report |
| `ConverterContract` | what the caller of a `worker.Converter` may rely on (abstract) | `status` of each call, the files `kept` for callers |
| `Pool` | Run, runWorker, Close | `queue`, `qClosed`, `closed`, `closeMu`, `closeErr`; `out`: result channels; `file`: the job's output |
| `Handoff` | the three notations of a job (pure operators) | |
| `Formats` | one conversion, from the query or the flags to the output | `ask`: query, document and OCR set-up; `job`, `work`: the `worker.Job` of handler and child; `doc`, `deferred`, `temps`; `picture`, `body`: what is produced; `packs`: what Tesseract loads |
| `MCFormats` | pages, portrait and landscape in turn, for the runs of `Formats` | |
| `ErrorContract` | the three switches over errors | an error is the set of sentinels `errors.Is` finds in it |
| `Request` | middlewares, handlers, handleConversion, one request | `header`: X-Bi-Password in the shared map; `rec`: the two status recorders; `reply`: what is on the wire |
| `Readyz` | /readyz, concurrent requests | `cache`, `flight`; `probes`, `source`, `seen` number the probes |
| `Server` | runServe, Load, ResolveLOKPath, the child's set-up | `env`; `lokDir`, `packs`, `moved`: the disk; `phase`, `cfg`, `ocr`: the server; `stage`, `ask`, `child`, `failed`, `files`: what requests own |
| `LimiterProofs`, `SubprocessProofs`, `PoolProofs`, `FormatsProofs`, `PictureProofs`, `RequestProofs`, `ReadyzProofs`, `ServerProofs` | theorems | |

How they compose:

- `Subprocess` instantiates `Limiter` on its own variables (`L`): a step of Run
  is a step of the limiter or happens while the call holds its worker. That
  every behaviour of `Subprocess` is one of `Limiter` is a theorem
  (`ImplementsLimiter`), and the limiter's invariant is used through it.
- Both converters implement `ConverterContract`, under the refinement mapping
  `Phase`/`handedOver` that each defines: `Subprocess` with its liveness checked by
  TLC, both with their safety proved. For `Pool` the contract's `Workers` is 0, which
  asks for no bound: its conversions are as many as its goroutines by construction,
  while a call whose outcome lies in its channel still counts as converting.
- `Formats` extends `Handoff` and `ErrorContract`: a query is checked by the
  handler, becomes a job, then flags, then the child's job, and runs through the
  pipeline of its format. It opens up the step `Convert` of `Pool`, which assumes
  of it that it ends with exactly an output or an error and no file
  (`OnlyTheOutputIsLeft`). `bi convert` called by hand enters at the flags.
- `Formats` checks that the errors of the pipelines are among the `WorkerErrors`
  of `ErrorContract`; `Request` follows each of them to the client.
- `Server` shows of every environment what the others assume: the limiter is on,
  calls have a deadline (`TimeoutSet`), children find LibreOffice
  (`StartedAsAssumed`). Its requests are those of `Request` and `Subprocess`
  reduced to the files and the process they own.
- `Readyz` relies on `AnswersEveryCall` of `Subprocess` for Conv.Run to return.

Some conventions. A file is a Boolean or a name, never its content. A context
is live or done; only where the cause matters it is canceled or expired. A Go
`select` is a disjunction of its ready cases. Steps are split where another
goroutine or process can interfere and joined where none can; in `Subprocess`,
where runCtx may end at any point, Spawn may fail whatever its state. A query
parameter is the sequence of the numbers it spells. Integers of 64 bits are
integers from `-IntLimit` to `IntLimit - 1`, with products and sums wrapped.
Operators marked "Fault" are slips one could make in that place; they are not
part of any specification and serve to see that the properties notice them.

## 3. Runs

All runs with `tlc -config <cfg> <module>`; those of `Formats` on `MCFormats`.

| run | instance | question |
|---|---|---|
| `Limiter.cfg` | 3 calls, 1 worker, 1 queue place, with metrics | tokens, gauges, refusals, termination |
| `Subprocess.cfg` | 2 calls, 1 worker, 1 queue place, timeout | files, processes, answers; the contract, with liveness: every call answered, every output removed |
| `Pool.cfg` | 2 calls, 2 workers, 2 closers, queue of 1 | Run against Close, outcome against deadline, whose file is left, the contract |
| `PoolOrphan.cfg` | 1 call, 1 worker, 1 closer | the worker's output is always removed: it is not |
| `Formats.cfg` | documents of up to 2 pages, selections of up to 3, limits of 4 cells and 60 pixels, integers of 9 bits | hand-over, clean-up, pages, errors, pictures, grids |
| `FormatsLanguage.cfg` | documents of 1 page, 1 selected | only installed packs are asked for: they are not |
| `FormatsOverflow.cfg` | as `Formats.cfg`, 1 selected, sides 1 and 255 | a picture shows what was asked: it does not |
| `Request.cfg` | all kinds of requests; token set, no OCR | clean-up, status records, ids, error classes |
| `RequestPassword.cfg` | the same with OCR | the password reaches the converter: it does not |
| `Readyz.cfg` | 3 requests, failures allowed | sharing, clean-up, order of verdicts |
| `ReadyzPoisoned.cfg` | 2 requests, only hang-ups make a probe fail | a healthy server says ready: not to everyone |
| `Server.cfg` | all environments, 2 requests, the disk changes once | set-up of server and children, leftovers, the signal |

Why the bounds are enough. With one worker and one queue place, three calls are
the least at which one converts, one waits and one is refused, and a waiter can
be overtaken; the proofs remove the bound for the safety properties. To the limiter a deadline
is the same as a hang-up, so `Limiter.cfg` has only hang-ups. Two calls suffice
for `Subprocess`, because one call's progress depends on others only
through the tokens, and the second holds them; the refusals that a third call
adds are in `Limiter.cfg`. In `Pool` two workers finish in
either order, a queue of one is full, empty and drained, and two closers race;
more closers repeat the second. `Formats` and `Request` are single-threaded: the
bounds are on data, and include each value next to a limit (a selection one
longer than allowed, the page before the first and after the last, a document
without pages). Nine bits are few enough to overflow with small sides: 27 * 19 = 513
wraps to 1, so the layout 27x19 passes for one cell in `Formats.cfg`; its canvas
cannot be allocated and the child crashes. 255 * 255 wraps to 1 as well, and there
the canvas is small enough but lies at negative coordinates (`FormatsOverflow.cfg`).
Pages are 2 by 4 and 4 by 2 pixels, the least at which a cell is larger than its page. Three
readiness requests are a leader, a follower and one that
comes when the cache is fresh, stale again or between store and release. The
numbers of probes are bounded by the requests, without a cut. In `Server`
requests do not interact, so two are one more than needed; each variable of the
environment is absent, empty where that differs, good or bad; the disk changes
once, since a second change can only restore what the child saw.

No run uses symmetry, because it is unsound for
liveness. Deadlock is checked in every run but `Server.cfg`, where the process
exits; the other specifications have an action that only a finished system takes.

### Fairness

- Goroutines that can run do (`WF` of a call's own steps). Grant is part of a
  call's steps: with `WF` alone a waiter could be overtaken for ever by infinitely
  many others, but there are finitely many calls, and Go's channels serve waiters
  in order.
- `Subprocess`: runCtx's deadline passes, the watcher goroutine runs `cmd.Cancel`
  and the WaitDelay timer fires. Nothing is assumed of the child or its
  descendants: they may hang. `TimeoutSet` is TRUE, as `StartedAsAssumed` of `Server`
  shows for every environment.
- `Limiter` on its own assumes that a conversion ends (`WF` of Finish);
  `Subprocess` shows why it does.
- `Pool`: ConvertTimeout > 0 is enforced by the constructor, so each context ends;
  nothing is assumed of LOK, except in `CloseCompletes`, which says so
  (`LOKReturns =>`).
- `Readyz`: handlers run and Conv.Run returns.
- `Server`: the main goroutine runs (`WF` of Boot, Shutdown, Exit). Nothing is
  assumed of requests and children: a signal ends the server whatever they do.

### Findings

1. *Orphaned output* (`NoOrphanFile`). When a call's deadline passes while the
   worker delivers, both cases of the worker's select are ready; if it sends,
   and Run takes `ctx.Done()`, nobody removes the file. In `bi convert` the child
   exits next, and its TMPDIR is removed by the parent; in a longer-lived user of
   the pool the file stays. There is no other way to leave one (`OrphanIsInChannel`).
2. *Password* (`PasswordReachesConverter`). The log's redaction replaces the header
   the handlers read.
3. *Poisoned readiness* (`HealthyMeansReady`). The verdict of a probe that failed
   because its client hung up is cached and served to others. The 5 s timeout of
   `bi healthcheck` on /readyz is such a hang-up.
4. *OCR language* (`OnlyInstalledPacks`). `ResolveLangs` has no caller outside
   tests, so the default "auto", and "all", reach Tesseract as names of packs.
5. *Layout overflow* (`PictureShowsWhatWasAsked`). Columns times rows wraps, so a
   layout can pass for one cell: the answer is a picture without its pages, or the
   child crashes on the allocation and the client gets a 500.

Each of these five has a run that finds it. Three more sentences of the repository are
disproved by theorems instead of a trace: they are false not of some request, which a
run would show, but of every request that they are about. No passing property takes the
code's side in them.

6. *Page base* (`PageCountsFromOne`, refuted by `FormatsPageBase`). `README.md:108`
   calls `page` the "1-based single page to render"; the code, the flags of
   `bi convert` and the design of the API count from 0. A client that goes by the
   README gets, each time, the page after the one it asked for, and the last page is out
   of range. `PictureShowsWhatWasAsked` accepts either count of a client over HTTP, as
   its documents disagree, the same for all pages of a picture, and is about everything
   else.
7. *Page ranges* (`RangesAreAccepted`, refuted by `FormatsRanges`). `README.md:109` has
   `1,3-5` as an example; the code takes lists of numbers only and refuses every range.
8. *Unrecorded panics* (`EveryRequestRecorded`, refuted by `RequestsUnrecorded`).
   Comments at `server/middleware.go:90` and `server/metrics.go:92-93` promise a record
   of every request; a panic unwinds past the code that records, so exactly the
   requests that panic are missing. `RecordsMatchWire` leaves open whether such a
   request is recorded: it asks that a record, where there is one, has the status sent,
   and that requests without a panic have both.

Seen while modelling, without a run of their own:

- `worker/pool.go:173-174` says that ctx.Err() takes precedence over an outcome; the
  select at line 204 chooses at random. No other part relies on the order.
- `server/router.go:22-26` and `worker/types.go:112-118` say that ocr=auto and
  ocr=always are refused when OCR is not available; the code refuses only always.
- An empty `BI_OCR_TESSDATA` hides `TESSDATA_PREFIX` from the server but not from
  its children, which look twice: they have OCR while the server says it has none.
  The other direction, which would break an admitted request, is
  `ChildSharesSetup`.
- InitTracing makes a tracer provider and never installs it with
  `otel.SetTracerProvider`.
- `bi serve` exits as soon as Shutdown has closed the listeners: requests are cut
  off and leave files and children, which `Server` shows; no document promises
  that they are drained.

## 4. Proofs

TLAPS checks them with `tlapm <module>.tla`. The assumptions are those that the
modules name (`LimiterAssumption`, `SubprocessAssumption`, `PoolAssumption`,
`HandoffAssumption`, `FormatsAssumption`, `RequestAssumption`, `ReadyzAssumption`,
`ServerAssumption`): the sets of calls are finite where something is counted,
constants have their types (`Workers <= 0`, an unlimited server, included: the runs
have one worker, the theorems any number), the pool has a worker and room in its
queue, as its constructor enforces, and the limits of the code are in the order
that they have there (as many pages may be selected as a grid has cells, and these
fit an int). The size of a rendered page is a constant operator, `PageSize`: any
positive width and height, as long as the pixels of a full grid can be counted in an
int64, which 2^28 pixels a side allow; for the limit of the canvas, `MaxPixels`, a
quarter of the integers is enough.

- **`LimiterProofs`.** `TokensMatch` (a token for each call between its send and its
  receive) is inductive with type correctness. The busy gauge needs that it
  equals the number of calls between WorkerBusy(1) and WorkerBusy(-1), a subset of
  the owners of a worker token; the queue gauge needs bounds on the values
  observers carry from one read to the next, not only on the gauge. One lemma
  (`CountMove`) says how a step of one call changes the number of calls in a set of
  places, and every action uses it.
- **`SubprocessProofs`.** First Spec implements the limiter's specification, so the
  limiter's invariant holds of it. The rest of the invariant is about one call at a
  time (where its files and processes may exist, what the answer says about them),
  and a lemma says that a step of one call leaves the others frozen. Bounded
  children follow from the limiter: a running child belongs to a call that owns a
  token. The refinement `ImplementsContract` takes each step to one of the
  contract's or to a stutter: Grant to Begin, since a token is free only while
  fewer than Workers calls convert, the step that gives the token back to Succeed
  or Fail, Serve to Deliver.
- **`PoolProofs`.** Mutual exclusion: closeMu is held by exactly the call inside its
  critical section, `closed` and the closing of the queue go together, and whoever
  set them still holds the lock until the office is closed. `SendIsSafe`,
  `OfficeOutlivesWorkers` and `CloseIsIdempotent` are consequences. Ownership: a
  job is at one place of the queue, or with one worker, or its outcome is in its
  channel, so nobody removes a file after Run has taken the result
  (`ResultHasFile`). What finding 1 leaves true needs, per call and per worker, what
  a file says about the places of its job (`CallLeft`, `WorkerLeft`): a file nobody
  owes or owns is one whose outcome was sent to a call that had taken `ctx.Done()`
  (`OnlyOrphans`). The refinement `PoolKeepsContract` maps Execute to Begin, Run's
  receive to Succeed or Fail, its `ctx.Done()` to GiveUp or Fail, the worker that
  drops an outcome to Fail, and all of Close to stutters; each case says which
  calls are frozen (`WorkersFrozen`, `QueueFrozen`) and moves the phase of one.
- **`FormatsProofs`.** The hand-over first, as facts about operators: for integers of
  any width and any limits, what a handler accepts comes out of the child's flags as
  it went in (`RoundTrip`); the one case that arithmetic decides is the row that
  replaces a missing layout, which fits because the limits do. The invariant of a
  conversion then says that every scratch file on the disk, and the document, has
  the deferred call that ends it (`CleanInv`), that sections and pages advance
  together (`SectionInv`), and that handler and child agree (`HandoffInv`).
- **`PictureProofs`.** That a picture shows what was asked is, by finding 5, not true
  of every request; it is of those whose columns and rows can be multiplied
  (`LayoutInRange`), and for these nothing crashes either (`FormatsPicture`). First
  arithmetic over the natural numbers: column and row of the i-th page, cells that do
  not overlap (`CellInside`, `CellsInOrder`), and the largest side of a page, which
  exists because the naturals are well ordered (`MaxIsLargest`). Then that no product
  wraps (`GridArithmetic`), then the invariants: what the child accepted
  (`AcceptedInv`), which stage has it (`StageInv`), what is drawn (`PictureInv`).
  Without the hypothesis a grid still has a cell for every page (`FormatsGrid`): the
  wrapped product that handler and composePNGGrid compute is the same. From what a
  picture shows follows the page base (`FormatsPageBase`, finding 6): a file has a job
  (`WorkOfFile`), and a job for a page number has no layout that could wrap. Ranges
  (`FormatsRanges`, finding 7) never get past the handler. The languages
  that a client names reach Tesseract only where there is a pack
  (`FormatsLanguages`), the part of the promise that finding 4 does not break.
- **`RequestProofs`.** The switches of the error contract take the first case that
  applies (`SwitchFirst`), and the tables of the two binaries correspond entry by
  entry (`TablesMatch`), so a class survives the string between them. The rest is
  an invariant of one request: what is on the wire agrees with the recorders, a file
  exists only while the deferred removal of it is still to come, and the error of a
  conversion decides the reply. Types need that every entry of the table, and every
  error that `mapError` meets, has a status of HTTP (`ProblemStatus`,
  `RefusalStatus`). `RequestPasswords` says how far finding 2 goes: a password
  reaches the converter exactly when it is empty. `RequestsUnrecorded` (finding 8)
  follows from what the invariant says of a panic: it skips Count and Log.
- **`ReadyzProofs`.** Whoever is inside the shared function is the flight's leader, so
  its probe carries the newest number; the order of verdicts and the clean-up
  follow. Finding 3 has no other cause than a hang-up: as long as there was none, and
  conversions succeed, neither cache nor flight holds an error (`CleanInv`), and every
  answer is 200 (`NotReadyOnlyAfterHangUp`).
- **`ServerProofs`.** The configuration of a running server is the resolved one of a
  valid environment (`SetupInv`); a child's environment differs in LOK_PATH only, so
  it loads the same (`ChildConfig`); a running child belongs to a request that waits
  for it or was cut off (`OwnedInv`), which is why files of finished requests are
  gone.

Every safety invariant and every action property of the passing runs is a theorem,
both refinements of the contract are, and so are the types of every module's
variables, which no run repeats. `AnswerHasFile` of `Pool`, a consequence of
`KeepsContract`, has a proof of its own (`ResultHasFile`) and no run. Only
model-checked: liveness (`EveryCallReturns`, `AnswersEveryCall`,
`AcceptedCallReturns`, `CloseCompletes`, `EveryRequestAnswered`, `SignalEndsServer`),
since liveness under fairness is out of this prover's reach. `PictureShowsWhatWasAsked`
is proved under `LayoutInRange`; of the layouts outside it, those of `Formats.cfg` are
model-checked and that of `FormatsOverflow.cfg` refutes it.

Where a run refutes what a document says, a theorem says what does hold: 1
`OnlyOrphans`, 2 `RequestPasswords`, 3 `NotReadyOnlyAfterHangUp`, 4 `FormatsLanguages`,
5 `FormatsPicture` and `FormatsGrid`.

## 5. What is not modelled

- Text: mdconv, markdown escaping, the digits of a parameter, problem documents'
  wording.
- What LibreOffice renders and Tesseract reads. Floating point: a DPI is in range,
  out of range or NaN, which passes both comparisons.
- `ResolveLangs`, which no code calls (finding 4).
- Histograms, log attributes, spans and `ErrorKind`, which labels a metric only:
  written, never read by the program.
- Command-line dispatch, the health check's HTTP GET and the signal mask: no state.
- The tracer's set-up, which only logs when it fails.
- Builds with `-tags=noocr` or `nolok`, in which a stub stands for Tesseract or
  LibreOffice. With `noocr`, Probe may find tessdata that New never opens, so that the
  set-up at boot and that of the children differ without any change of the disk.
- A panic in LOK is a crash of the child (`ChildExits` in `Subprocess`), not
  unwound inside `Formats`.

## 6. Plan

Done: the core (limiter, subprocess, contract, pool), request path, error
contract, hand-over, pipelines with the arithmetic of a grid, readiness, start and
stop; proofs for all of them, both converters against one contract.

Next, in this order:

1. `Pool` joined with `Formats`: two jobs with one deadline each, so that the outcome
   delivered is the pipeline's, and with runConvert's result line.
2. `Server` composed with `Subprocess`: the exit of the parent between two steps of
   Run, and what a second server that starts on the same disk finds.
