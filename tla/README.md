# SkyAPM-php-sdk in TLA+

A verification project for the SkyWalking PHP agent of this repository: the PHP
extension in C (`skywalking.c`, `src/*.c`) and its reporter in Rust
(`src/reporter/*.rs`, `src/sky_core_report.rs`), and the agent in C++ that came
before it, whose files (`src/*.cc`) are still there although `config.m4` builds none
of them. Paths below are relative to the repository's root.

## The system

    php-fpm master --MINIT--> ipc::init, fork --> reporter process
       | forks                                      receive task  <-- kernel channel
       v                                            counted channel
    workers: RINIT, script with hooks, RSHUTDOWN    sender task --> collector (gRPC)
       '--- ipc::send (shared counter, kernel channel) ---^

| part | state it keeps | operations | hard behaviour | what makes it correct |
|---|---|---|---|---|
| message queue, `src/reporter/ipc.rs` | a counter in shared memory, a kernel channel | `send`, `receive` | no lock covers the steps; workers are killed; the kernel's buffer is smaller than the limit | the limit is kept; the counter never wraps; senders return |
| counted channel, `src/reporter/grpc.rs:64-101` | mpsc channel, its counter | `try_send`, `recv_all` | the two are updated one after the other on two threads | batches in order, each segment once; `recv_all` does not wait |
| reporter, `src/reporter/grpc.rs` | two write-once cells, five tasks | `do_connect`, `login`, `keep_alive`, `receive`, `sender` | tasks wait for each other through the cells; calls fail half-way; SIGTERM | nothing lost or doubled between tasks; registration first; no stop during an outage |
| request and segment, `skywalking.c`, `src/sky_core_module.c`, `src/sky_core_segment.c` | the table of segments, one segment, `enable` | MINIT, RINIT, hooks, RSHUTDOWN | memory of a request named in a table that outlives it; nested hooks; `ini_set` | one segment per request, with the calls that returned |
| processes, `skywalking.c`, `src/sky_core_module.c:38-96`, `src/sky_core_report.rs` | the names of service and instance, a reporter per MINIT | MINIT, fork, prctl, MSHUTDOWN | php-fpm changes its process after MINIT, or runs MINIT again; names are read at different times | segments name what the reporter registers; no reporter is left over |
| curl plugin, `src/sky_plugin_curl.c` | `curl_cache` | four hooks | numbers of handles are used again | headers belong to the transfer |
| redis plugin, `src/sky_plugin_redis.c`, `.h` | none | 22 hooks, a formatter | formats against argument lists | the command reported is the one executed |
| cross-process header, `src/sky_core_cross_process.c`, `src/sky_util_base64.c` | none | parse, decode | short and long headers, empty fields, an array for one token, texts without an end | the trace id is the caller's, or a new one |
| spans, tags, JSON, `src/sky_core_span.c`, `src/sky_core_tag.c`, `src/sky_util_php.c` | text | `to_json` | written by hand, from texts without an end or a check, freed before it is sent, read by serde | the reporter can read what the workers write |
| rate limiter, `src/sky_rate_limit.cc` (not built) | the window's start, a count, a lock | `validate` | three readings of the clock with pauses between them; a compare-exchange that may fail for no reason | the limit of every window; no call refused before it |
| C++ agent, `src/sky_execute.cc`, `src/sky_module.cc`, the plugins (not built) | segments by connection, frames of each coroutine | hooks of user and internal functions, MINIT, requests of php-fpm and swoole | plugins that execute the call themselves; coroutines; connections used again | the script does not see the agent; spans are complete and name the server |
| `src/sky_log.cc`, build, packaging, e2e | - | - | - | not modelled |

They interact thus. In the master MINIT creates the counter and the kernel channel
and forks the reporter, then php-fpm forks the workers, which inherit both. At the
end of each request a worker gives one segment to `ipc::send`. The reporter's
receive task blocks in `ipc::receive`, parses, and puts the segment in the counted
channel; the sender task empties that channel into one `collect` call at a time.
The reporter never answers the workers: its only influence on them is the counter
and the room in the kernel's buffer.

## The modules

| module | of the code | its state and steps |
|---|---|---|
| `IpcQueue` | `ipc.rs` | `count` is `MESSAGE_QUEUE_COUNT`; `channel` the kernel's buffer; `sendPc[w]` says which atomic operation worker `w` does next. `SendFetchAdd` is lines 45-50, `SendFetchMin` 50-53, `SendToChannel` 55-62, `ReceiveFromChannel` 64-72, `ReceiveFetchSub` 74-77 |
| `BatchQueue` | what `CountedChannel` promises | `Put`, `Take` |
| `CountedChannel` | `grpc.rs:64-101, 357-367` | channel and counter separately; `TrySendPush`, `TrySendCount`; `RecvAllLoad`, `RecvAllRecv`, `RecvAllSub` |
| `Reporter` | `grpc.rs:154-346` | a variable per task, the two cells, an instance of `CountedChannel`; the collector is up or down, and may forget the instance while it is down; a call that fails may have arrived, in whole or up to any point of its stream; the login may panic |
| `LossyFifo` | what `Agent` promises | `Enter`, `Deliver`, `Lose`; whatever is no segment enters too, and is never delivered |
| `Agent` | `sky_core_module.c:76-87, 187-196`, `sky_core_report.rs:59-72` | `IpcQueue` and `Reporter` as instances over the same variables. The receive task is the queue's receiver: `ReceiveReturns` is the last step of the one and the first of the other; `ReporterExit` is SIGTERM for both |
| `Request` | `skywalking.c:175-212`, `sky_core_module.c:49-197`, `sky_core_segment.c:51-78`, hooks | one worker: `ModuleInit`, `RequestInit`, `IniSet`, `CurlExecBegins`, `RedisBegins`, `CallReturns`, `ScriptEnds`, `RequestFree`, `Respawn` |
| `Lifecycle` | `skywalking.c:50-107, 175-194`, `sky_core_module.c:38-96`, `sky_core_report.rs:89-116` | `master`, `reporters[g]` and `workers[w]` are processes; `orphaned` the starts whose process is gone; `ModuleInit`, `WatchParent`, `Serve`, `InitFails`, `Terminated`, `RequestFree`, and php-fpm's own steps |
| `CurlPlugin` | `sky_plugin_curl.c:55-299` | `cached` is `curl_cache`, next to libcurl's list of headers, by the number of a handle; the hooks, and what PHP does without one. Its names are its own (`CurlInit`, `CurlNext`), so that `RequestProofs` can extend `Request` and it |
| `CrossProcess` | `sky_core_cross_process.c`, `sky_util_base64.c` | operators: `Tokens`, `Decoded`, `TraceId` |
| `RedisCommand` | `sky_plugin_redis.c:75-183`, the macros of `sky_plugin_redis.h` | operators: `Format`, `Shown`, `Command`; `Sent` and `IsCall` are phpredis |
| `SegmentText` | `sky_util_php.c`, the three `to_json` functions; serde_json with the types of Tracing.proto | operators: `SegmentJson`, `Parses` |
| `Recording` | one traced request over the last three | `RequestInit`, `RedisCall`, `CurlExec`, `RequestFree` |
| `RateLimiter` | `sky_rate_limit.cc`, `.h` | `validate` from its first reading of the clock (`Validate`) to its answer (`Count`, `Unlimited`); `elapsed` is its `span`; `Tick` in between. Its names are its own, for `ExecuteProofs` |
| `Plugins` | the C++ plugins | an operator per plugin: what it does with an intercepted call before the call is executed |
| `Execute` | `sky_execute.cc`, `sky_module.cc`, `sky_plugin_error.cc` | `segments` by connection, `stack[c]` the frames of a coroutine; `CallBegins` and `CallReturns` are the hook before and after the call, `FpmRequestBegins`, `SwooleRequestBegins` and `RequestReturns` the request around them |
| `MCIpcQueue`, `MCRecording`, `MCExecute` | | symmetry sets, headers, redis calls; calls of the C++ plugins |
| `IpcQueueProofs`, `CountedChannelProofs`, `ReporterProofs`, `AgentProofs`, `RequestProofs` (with `CurlPlugin`), `LifecycleProofs`, `RecordingProofs`, `ExecuteProofs` (with `RateLimiter`) | | theorems |

Each behaviour outside of the repository is one action, marked external: the wrap of
the atomic operations, the process manager's kill and respawn, the collector's
coming and going. Operators introduced by "Mutant of" are plausible errors in
the definition they are named with; no specification uses them.

`Request`, `CurlPlugin` and `Recording` look at the same request from three sides: when its
segment and spans come to be, the headers of its transfers, and the contents of
its spans. They share no variable whose value another of them would need.
`Lifecycle` likewise has the processes of `Agent` without what they send. A copy of the
generated instance id goes on with what the heap holds behind it, which `Lifecycle` has as a
choice: a text of 44 to 52 bytes fills none of malloc's chunks, so something is there. Its
`MasterEnds` is also what happens at MINIT on a host without an address, where
`local_ip().unwrap()` panics across the `extern "C"` of `sky_core_service_instance_id`.

`Execute` has what the C++ files say, and the rest of what they call, which the repository
no longer has, as external: the table of segments (an insert does not replace, as that
of `std::unordered_map`), the segment with its spans, the end of `sky_request_init`, and
`sky_request_flush`, which is taken to do nothing without a segment. RINIT is php-fpm's; under swoole a
request begins at the hook of its handler. Tags and operation names are left out, and so is
`sky_plugin_redis.cc`, all of which is commented out. The four curl hooks have gone to C since,
and are in `CurlPlugin`.

Texts in `Recording` are sequences of parts that are clean or not, not of characters: nothing
in the code looks into them, except for base64 and the cut of operation names at '?'. A
clean part is free of quotes, backslashes and control characters. Texts that PHP hands over
have no zero byte; what base64 decodes to may have, and ends there (`CString`). `strtok` also
cuts the script's own copy of the header, and no peer is ever copied (`sky_core_span.c:78`),
which `TypeOK` of `Recording` shows. What a redis command sends leaves out phpredis's options
for key prefixes and serializers, which the hook does not look at either: the tag is compared
with the keys and values that the script gave. `Tracing.proto` is in a
submodule that is not part of the repository: `SegmentText!Schema` has the fields of
SkyWalking's protocol, version 3, and `build.rs:18-19` derives serde for them.

A failed read of the queue is `IpcQueue!ReceiveError`, a step of the receive task in `Agent`
(`ReceiveFails`): the message, or its beginning, is gone without a `fetch_sub`.

**Undefined behaviour** is a choice over what can come of it.

- The JSON text is freed before its length is taken and it is sent (`sky_core_module.c:191-192`). In
  `Request` and `Recording` it is then whole, spoiled, or its pages are gone, which kills the worker;
  `Agent!RequestEnds` sends the segment or `Garbage`; a worker that dies of its text does so before it
  calls the queue, which sees no send of it.
- `isSkip` of a segment is never assigned (`sky_core_segment.c:28-49`): `Request!RequestInit` chooses
  it. Nothing is claimed of the transfers it skips: `SentOncePerRequest` counts the calls that the hook
  chose to record.
- A request without REQUEST_URI has a null pointer read in RINIT (`sky_core_module.c:128-129`), and the
  worker dies (`uri` in `Request`). A transfer whose callback threw leaves the hook with an answer of
  `curl_getinfo` that was never set (`sky_plugin_curl.c:230-235`), and the model stops with the failure
  `response`.
- Every header of more than one token is written behind an array of eight bytes
  (`sky_core_cross_process.c:32-37`), an operation name that fills its block has its zero byte behind
  it (`sky_core_span.c:64,70`), and a long host and port leave the buffer of `sizeof(char*) + 6`
  (`sky_plugin_curl.c:202-203`). `Recording` goes on as if the memory were unused, or its phase is
  `broken`, and then nothing follows and nothing is claimed.
- What base64 decodes to, a name cut at '?' and the generated name of the instance
  (`sky_core_module.c:57-60`) have no zero byte. `Recording` lets the trace id, the operation name and
  the instance go on with any of some bytes or parts. In `Lifecycle` what follows the instance is the same
  for reporter and workers, who inherit one copy, so `SegmentsNameTheirReporter` does not see it;
  `CleanSegmentsAreRead` does. `skywalking.service` is what the script left in it at the end of the request.
- In the C++ files a function of mysqli takes any first argument that is not null for an object
  (`sky_plugin_mysqli.cc:74-77`), predis and guzzle do so with theirs (`typed` of a call), an object of
  mysqli without a connection has no `error_list` to go through, and `sky_module_init` writes to what
  `shmat` answers, also -1 (`sky_module.cc:60-61`). Each of these may kill the process.

## The runs

| run | instance | what it shows |
|---|---|---|
| `ipc_queue` | 4 workers, 1 message, limit 2, buffer 1, 3 faults | the limit; the counter's bounds on both sides; a wedged queue stays wedged; every sender returns while the reporter lives |
| `ipc_fulled` | 3 workers, limit 2, no fault | **violated**: an empty queue that refuses everything |
| `counted_channel` | capacity 3, 2 segments | the counter's value, the loop of `recv_all`, refinement of `BatchQueue` |
| `reporter` | 3 segments, capacity 2, 1 unparsable content; the collector may forget | conservation, order, registration first, the channel's promise in place; a forgetting collector is never told again; hand-over once the collector stays; the receive task never stops |
| `agent` | 2 workers, 3 segments, 1 garbage, limit 2, buffer 1, capacity 2, 1 fault | refinement of `LossyFifo`; an outage blocks no worker; what entered is handed over |
| `lifecycle` | 2 workers, 2 services, 2 starts | segments name what their reporter registers; reporters end with their parents |
| `request_fpm` | 3 requests with and without REQUEST_URI, 3 nested calls each, callbacks that throw, span array of 2, `enable` changes | one segment per request, numbered, with the calls that returned; when the worker misses its segment or uses that of another request |
| `curl_headers` | 2 numbers, 2 lists of headers, PHP 7 and 8 | a transfer has its script's headers, but for five uses the hooks do not follow |
| `recording` | ids of 1 to 4 bytes in 13 headers of 7 to 9 fields, 18 commands, 2 spans, 2 services, the freed text in its 3 states | the trace continued, the commands told, the texts that can be read |
| `recording_redis` | the same, with clean URLs and responses | **violated**: a stored value makes the segment unreadable |
| `rate_limiter` | rates 0 to 2, windows of 4 ticks, 13 ticks, 8 calls, 1 spurious failure | a window's limit; no call refused before it is used up |
| `hooks` | 2 coroutines, 2 connections, 2 requests, 2 of 40 calls of all plugins | every call is executed once, but for named kinds; complete spans; silence when not sampled; the peer of a span is the server |

**Bounds.** More workers than the limit plus one give a worker in each place of
`send` while the queue is full, and one more to race; the buffer is smaller than the
limit in `ipc_queue`, so that senders that were let in block. The
proofs lift these bounds, as they lift those of every other passing run for the safety
properties.
`USIZE_MAX` is only required to exceed limit, workers and faults together, as it
does by far. A channel of 2 and 3 segments fill the counted channel, refuse the third,
and let a batch of 2 fail between its segments. Three requests suffice for
`Request`: the second finds what the first left, and the third comes after a
second that failed or was not traced. A span array of 2 doubles twice with 4 spans.
Two workers in `agent` race for the one place of the kernel's buffer, and the third segment
is sent while the first is in the reporter; `AgentProofs` lifts these bounds for safety.
Two starts are one reload, and more only add reporters that are as independent as the first two. Ids of 1 to 3 bytes have each length of base64's padding, and 4 have two groups;
two spans have a comma between them; an int of 4 bits overflows with an offset of 9.
Thirteen ticks are three windows of the limiter and an instant, with two ticks to a second and two seconds to a window, so that
whole seconds and whole windows differ; eight calls overrun each. Two calls nest, follow
each other, or run in two coroutines.

`CHECK_DEADLOCK FALSE` appears where the system may stop: after SIGTERM with a full
buffer every worker blocks in `send` (`ipc_*`), after the last request (`request_fpm`), after the
segment is sent (`recording*`), when php-fpm is gone (`lifecycle`), when the bounds on
calls and time are reached (`rate_limiter`) and when the process has died or is unloaded (`hooks`).

**Fairness.** `IpcQueue`: the receive loop runs on (a thread in a blocking read), a
worker that is inside `send` goes on, and the kernel wakes a writer that waits
for room; this last is strong fairness, since other workers may take the room
first and the kernel's queue of waiting writers is fair. `Reporter`: tokio runs
every task that is ready, so each task's next step is weakly fair. No fairness is
assumed of the collector: the two properties that need it say `<>[]oapUp`.
`Agent` has the fairness of these two. `Lifecycle`: a forked reporter reaches its `prctl`,
and the kernel delivers a signal.
No liveness is claimed for a reporter that has exited, for nothing restarts it.

**Findings.** `ipc_fulled`: with the counter at the limit, a sender adds one, the
receiver takes one off, and only then the sender's `fetch_min` runs, which finds
nothing to cut: a place is lost. Repeated as often as the limit, the queue is empty
and answers "message queue is fulled" to everyone (`ipc.rs:51-52`).
`WedgedForever` shows, and proves, that it stays so. `recording_redis`: the redis extension
is on README.md's list of supported ones, but a value with a double quote in it is
written into the JSON text as it is (`sky_util_php.c:62`), serde rejects the text, and the
trace of the whole request is lost.

Not refuted, since nothing in the repository says otherwise, or not stated as a property,
but worth knowing:

- The eight fields of a complete `sw8` header are written as eight pointers into `malloc(8)`
  (`sky_core_cross_process.c:32-37`). With glibc three of them fit what `malloc` really gives; the
  rest goes into the next chunk. The worker may go on for ever without harm or break at once, so
  the model has both, and no run counts it as a finding.
- The text of every segment is freed before it is sent (`sky_core_module.c:191-192`).
- A configured `skywalking.service_instance` is never used, and the instance is then the
  empty string (`SegmentsNameTheirReporter`).
- In the background (`daemonize = yes`) the reporter is terminated as soon as php-fpm begins
  to serve, because its parent is the process that ran MINIT (`ReportersEnd`).
- `skywalking_trace_id()`, which `docs/API.md` documents, always returns the empty string:
  its body is commented out (`skywalking.c`).
- A collector that has lost its data is not told of the instance again until php-fpm is
  reloaded, whatever pings or batches fail (`ForgottenForever`). A host without an address
  ends the login task at once, and then nothing is ever reported, while the workers and the
  receive task do not notice (`KeepsReceiving`, `RegisteredBeforeReport`).
- `skywalking.sample_n_per_3_secs` would be a limit per process, as each worker has the
  fork's copy of the limiter, and the first instant of a window has no limit (`LimitKept`).
- In the C++ files, guzzle's request is not executed when the segment is skipped, has no uri or
  another scheme than HTTP; memcached leaves an exception when it stores an object, and
  may die of a key that is no string; its port is an address. An object of PDO whose
  constructor did not run, an errorInfo without a message, and a swoole_curl without a url
  are read as strings that are not there. `beginTransaction` and `rollBack` are not traced, as
  their names are compared in lower case. Two handlers on one connection share a segment,
  which the first to return frees. Memcached, Yar and swoole_curl do not ask whether the request
  is sampled. mysqli, predis and
  guzzle read arguments before PHP has looked at their types. The four properties of `hooks` name each of
  these as an exception, but for the two names of PDO, which leave nothing behind. What they claim
  rests on what is external in `Plugins` and `Execute`, and on the arguments that `MCExecute` and
  `CallsAssumption` give to calls: a data source, socket or uri that leaves the server to the driver is an exception
  of `SpansLeadToTheServer` (`LeavesServerOpen`), sockets of predis among them.

## The proofs

`IpcQueueProofs`, from `IpcQueueAssumption` alone. None of the properties is
inductive: that the counter covers the outstanding messages needs to know that a
worker about to write is counted, and that a `fetch_min` never cuts below what is
outstanding needs `CapacityRespected`, which in turn needs that a sender was let in only
with a counter below the limit. `IInv` is the type invariant with these bounds, in terms
of the number of workers at each place (`At`); `MoveOne` says how that number changes
when one worker moves, and `StepIInv` has one step per action. From
`CounterInvariant` follow `TypeCorrect`, `LimitHolds`, `NoUnderflow` and `DriftIsBounded`.
`WedgedIsForever` rewrites "wedged" as "nobody in, nothing in, counter at the limit" and
goes through the actions again.

`CountedChannelProofs`, from `CountedChannelAssumption`. `IInv` is `TypeOK`, the exact value
of the counter (`CountMatches`), that each iteration left to `recv_all` finds a counted
segment (`LoopIsCovered`), and that the one being counted is still in the channel
(`CountInRange`); these two are in no run, since the theorems cover them. `CountIsExact`, `NeverWaits` and
`CounterInRange` follow. `Implements` maps each step to a step of `BatchQueue`: `TrySendPush` to `Put`; the last `RecvAllSub` to `Take` of all
of the vector, which is a prefix of vector and channel together (`TakeFront`); the
steps that move a segment from channel to vector stutter (`MoveBoundary`); and a
`RecvAllLoad` of zero to `Take(0)`.

`ReporterProofs`, from `ReporterAssumption`. The five tasks keep to the counted channel
(`ChannelStep`), so that its invariant is one of theirs: `StepChannel` cites the lemma of
`CountedChannelProofs`, instantiated. `IInv` adds what the two cells imply (`CellsInv`), the chain
of the accepted segments, that a segment in the receive task's hands is new
(`FreshInv`), and that collected segments have places in what was handed over, in order
(`PlacesInv`, whose witness grows with each call). `CollectedOnceInOrder` follows because the
accepted segments are distinct and handed over in order.

`AgentProofs`, from `AgentAssumption`, which is that of the two parts. `KeepsToItsParts` is that
a step of the agent is one of the queue and one of the reporter, or leaves it alone, so
that every theorem of `IpcQueueProofs` and `ReporterProofs` holds in the composition. It needs that the
reporter never gets a segment twice, and this that a segment is in one place at most between the
worker and the receive task (`DataInv`, `ChannelInv`). `Delivers` maps the steps to those of
`LossyFifo`: `SendToChannel` to `Enter`; `CollectEnds` to `Deliver`, or a stutter for an empty batch;
a failed read, an unparsable content and a full channel to `Lose` of what is between two
sequences (`LoseMiddle`); every other step moves a boundary within `Transit` and stutters.
That a refused or killed worker's message never entered needs no argument: it is not in `Transit`.

`RequestProofs`, from the assumption of `Request`. `IInv` adds the numbering of the spans of the running
segment and the place that is left in its array (`SpansInv`), what the running calls hold of it
(`HooksInv`) and that the last traced request is the one that runs (`TracedInv`). The two facts
about the table hold only as long as `skywalking.enable` was not changed, and are proved as such.
`EntrySafeUnlessSwitched` is about the failures of the table, its entry and the curl cache; a missing
REQUEST_URI, the freed text and a callback that threw need no change of `enable`, are in the model, and
are what the theorem leaves out by name.

Of `CurlPlugin`, in the same module: `CacheMirrorsHandle`, that cache, libcurl and script agree on each handle that was
not used in one of the five ways, is the invariant; a transfer then sends what all three have.

`LifecycleProofs`: `IInv` adds that workers belong to the current start (`WorkersInv`) and that php.ini is
the one under which their reporter was named (`NamesInv`), since a reload waits for them to end.

`RecordingProofs`, from `RecordingAssumption`: ids are bytes without a zero; a header is any number
of fields of any characters, base64 or not (`TraceContinues` itself says which headers have an id
in their second field); a redis call has the arguments that PHP's parsing asks for
(`IsCall`). Ids, headers, lists of keys and scripts have any length, so that the proofs need induction,
and those of the library cannot be instantiated. `Induction` is one over a *set* of numbers, from
the well-foundedness of the subsets of a finite set (`LeastOf`). With it, the recursive function
that `FlattenSeq` chooses exists (`FlatteningExists`), and cutting a sequence in pieces and
flattening them gives it back (`FlattenCuts`). On these rest three facts: base64 gives back each id, whatever its
length and padding (`RoundTrip`, with the arithmetic of a group in `QuadBack`); strtok leaves
a complete header, of eight fields or more, as it is, and any other of at most eight with less than eight tokens
(`CompleteTokens`, `OthersDoNotContinue`), while nothing is said of more than eight fields of which some are empty,
where it shifts those behind;
and the tag of each of the 18 commands tells its keys and no more than what is sent
(`EveryCallTells`; those with one key in `TellsOneKey`, those with an array of keys in `TellsManyKeys`).
A phase `broken` is left out of `TraceContinues` and `CommandIsTold`, and no step leaves it.
`IInv` then only has to carry each call to the tag of its span (`TagsInv`), which is there because no
call is recorded before the first span (`Begun`).

`ExecuteProofs`, from `ExecuteAssumption` and `CallsAssumption` (a call has a class or a name, and goes to the server its objects name). The first part is about each plugin and any
call (`PluginBehaves`): what it may break, that the call runs once, in the plugin or in the hook, where the span
it opens leads, and that it opens none unsampled unless it never asks. The second keeps `IInv`: that segments have ids of their own
and php-fpm one handler (`SegmentsInv`, `SapiInv`), that a frame knows its span and its segment
(`FramesInv`), that as long as no two handlers share a connection each segment is that of one handler, with all
frames of its spans above it (`HandlersInv`), and that a span that has not ended has a frame left to
end it (`SpansInv`). `CallsAreTransparent`, `UnsampledAreSilent` and `SpansLeadToTheServer` are
then parts of it; `SentSpansAreComplete` follows because a handler that returns is the last
frame, and no frame is above it.

The rate limiter, in the same module, from `RateLimiterAssumption`, needs arithmetic first: a window of the clock has one multiple of its
length (`InWindow`, `Apart`), and `TimeSpan` is the whole windows in the span (`TimeSpanIsWhole`).
`LimiterIInv` then says where the limiter's window is against that of the call (`StartInv`), what each step
knows of it (`CallInv`), and that the calls that passed are counted, but for spurious failures
(`CountInv`).

The rest of `RecordingProofs` is about the reader, which goes over the tokens of a text ten at a time
(`ParsesIs` and `ReadRowIs`: as if one at a time). `Reads` says that some tokens lead from one stack of open
objects and lists to another, and what follows each other is read one after the other, so
that the text of a segment can be cut along `SegmentJson`: a string (`StringIsRead`), a field (`FieldIsRead`), an
object (`ObjectIsRead`), a list of values (`ListIsRead`, by `Induction` over their number), a
tag, a span, the segment. Each such piece is a value (`IsValue`) with the set of its faults, which is empty
exactly if no string in it is unclean; with a fault the reader ends in `Rejected`, from which it never
returns. `SegmentIsRead` is therefore an equivalence and says as well which segments are lost. For
`CleanSegmentsAreRead` the text must also be still whole when it is sent, and it remains that the names and tags recorded are sequences, which `IInv` does not say and
`TextsInv` adds. It needs the same of the URIs, queries and bodies that come from outside, of any length and with any parts
(`IsSeq`, in `RecordingAssumption`).

Only model-checked is liveness (fairness and ENABLED are beyond the prover), that is
`SendReturns`, `EventuallyHanded`, `KeepsReceiving`, `OutageBlocksNoWorker`, `EventuallyReported` and
`ReportersEnd`. Every safety property of every passing run is a theorem.

## What is left

A composition of `Lifecycle` with `Agent`, where a reload begins a new queue while the workers of
the former one have ended: today the two modules share no state.

Not modelled, and not planned: gRPC and protobuf themselves, log set-up, the options that
no code reads, `sky_log.cc`, which appends lines to a file, the packaging and the end-to-end
scripts, which hold no state of the running agent.
