# TLA+ specifications of uvexec

uvexec implements the sender/receiver model of P2300 on top of libuv. Its core
is a libuv loop that several threads may share (`TLoop`), a lock-free list
through which any thread hands operations to the loop thread, and operation
states that wait for libuv handles and can be cancelled. On it stand the socket
algorithms, which chain, and the scopes that own a socket for the time of a
body. These modules specify the library from that core up to the echo example,
check it with TLC on small instances and prove its safety for every instance
with TLAPS.

Paths below are relative to the repository root (`src/` in PROJECT.json).

## Inventory

| Component | Source | State | Operations |
|---|---|---|---|
| Operation queue | `src/execution/loop.cpp`, `include/uvexec/execution/loop.hpp` | `TOperationList::Head`, `TOperation::Next`, the `Async` handle | `Schedule` (any thread), `ApplyOperations` (loop thread) |
| Loop sharing | `loop.cpp`, `runner.cpp`, `runner.hpp` | `RunMtx`, `Running`, `Runners`, `TRunner::Awakenings`, `Acq`, libuv's `stop_flag` | `run`, `run_once`, `drain`, `finish`, `RunnerSteal`, `sync_wait` |
| sync_wait receiver | `sync_wait_receiver.hpp` | the destination variant | `set_value`, `set_error`, `set_stopped`, all of which wake the waiter |
| schedule | `schedule_op_state.hpp` | none | `start`, `Apply` |
| Cancellation | `TLoop::TStopOperation` in `loop.hpp` | `Used`, `StopCallback` | `Setup`, `Reset`, `ResetUnsafe`, `TStopCallback`, `Apply` |
| Timers | `after_op_state.hpp`, `after.hpp` | a `uv_timer_t` | start, event, stop, close |
| Signals | `upon_signal_op_state.hpp`, `upon_signal.hpp` | a `uv_signal_t` | start, event, stop, close |
| TCP listener | `sockets/tcp_listener.*`, `accept.hpp` | `AcceptList`, `PendingConnections` | listen, accept, connection, cancel |
| Stream reads | `read_some_op_state.hpp`, `read_until_op_state.hpp` | the handle's `data`, `StopOp` | start, read, stop |
| Datagrams | `receive_op_state.hpp` | as above | start, receive, stop |
| Requests | `write_`, `send_`, `connect_`, `shutdown_`, `close_receiver.hpp` | one libuv request | start, done |
| Socket scopes | `bind_to_`, `accept_from_`, `connect_to_op_state.hpp` | a variant of nested operations, a socket | open, run the inner sender, close |
| async_value | `async_value_op_state.hpp` | an optional value | emplace, run, destroy |
| Signatures and domain | `completion_signatures.hpp`, the senders, `interface/` | none at run time | packaging, transformation, connect |
| Echo example | `examples/echo_uvexec.cpp`, `tcp_bench.cpp` | async scopes, counters | accept, read, send, receive, join |
| Intrusive list | `util/intrusive_list.hpp` | `Prev`, `Next` | `Add`, `Pop`, `Erase`, `Empty` |
| Addresses, error codes, libuv wrappers, meta | `sockets/addr.*`, `error_code.*`, `uv_util/`, `meta/` | none | forwarding and compile-time computation |

How they interact. An operation state is an intrusive node. Its `start` calls
`TLoop::Schedule`, which pushes it and fires the `Async` handle; the thread that
happens to be inside `uv_run` grabs the list and applies it. A completion runs
the receiver on the loop thread; the receiver of `sync_wait` stops `uv_run` if
its own thread is the one inside it and marks its `TRunner` as finished. Leaving
`uv_run` wakes one waiting runner. A stop request runs `TStopCallback` on the
requesting thread, which schedules the stop operation like any other. A socket
algorithm is a stage: its receiver's `set_value` starts a libuv call, whose
callback finds the operation through the handle's or the request's `data` and
completes it, which starts the next stage within the same callback. A scope
(`bind_to`, `accept_from`, `connect_to`, `async_value`) runs its stages in one
variant and closes the socket under `exec::finally`; scopes nest, and
`exec::async_scope` joins what a body has spawned.

What is hard: nodes live on stacks and in operation states that a completion
destroys; the mutex is released around `uv_run` and before `TRunner::Wait`;
libuv's stop flag and async flag are shared; a stop request races with the
event it cancels; libuv stops polling a listener until `uv_accept`; a handle has
one `data` pointer for whoever uses it last; an error between two stages finds
a socket half open. The list under "hazards" in PROJECT.json has each of these at
its line, with the property that is about it.

## Modules

| Module | What it is |
|---|---|
| `ScheduleFifo` | What `Schedule` promises: a FIFO queue of operations, each applied once |
| `OperationQueue` | `PushBack`, `Grab`, `ApplyOperations` and `uv_async_send`, one action per atomic access |
| `OperationQueueFifo` | The refinement mapping from `OperationQueue` to `ScheduleFifo`; a list is the sequence that its pointers spell (`Chain`) |
| `Loop`, `MCLoop` | `run`, `run_once`, `drain`, `sync_wait` and the hand-over of the loop |
| `StopRace` | What `TStopOperation` promises: event or stop wins, in one step and for good |
| `StopOperation` | `TStopOperation` as timers and signals use it, at the grain of single atomic and libuv calls |
| `TcpListener` | `TTcpListener`, its accepts and the intrusive list they wait in |
| `Algorithms` | The senders, their signatures, and how the domain turns packages into senders |
| `Pipeline`, `MCPipeline` | Chains of all socket algorithms on shared sockets |
| `ScopedResource` | What a scope promises: the resource is released before the outcome is reported |
| `SocketScope`, `MCSocketScope` | `bind_to`, `accept_from`, `connect_to` and `async_value`, nested |
| `Echo` | The echo server and client with their async scopes |
| `OperationQueueProofs`, `LoopProofs`, `StopOperationProofs`, `TcpListenerProofs`, `PipelineProofs`, `SocketScopeProofs`, `EchoProofs` | The theorems about each |
| `InductionLemmas` | Induction over natural numbers, as the proofs use it |

The modules are layers. `StopOperation` has the race between a stop request and
an event step by step, and implements `StopRace`, in which each side is one step
and the first one wins; `TcpListener` and `Pipeline` take over that result.
`Pipeline` takes its stages from `Algorithms` (`Connected` is what `connect` makes of
a chain), and `TcpListener` is the detail of its `accept`. `SocketScope` leaves out
which stage of a body runs, and `Echo` takes the scopes as `SocketScope` shows them
to behave.

### OperationQueue

`ListHead`, `NextOf`, `curTop`, `cur` and `newTop` are the pointers of the code
under their own names (`Head` and `Next` are taken in TLA+). `LoadTop`, `Link`,
`CasSucceeds` and `CasFails` are `PushBack`; `Grab`, `ReverseStep` and
`ReverseDone` are `Grab`; `ApplyStep` is one round of `ApplyOperations`. The
weak exchange may fail for no reason, as in C++. `pending` and `wake` are
libuv's: `FireCheck`, `FireSend` and `FireWrite` are `uv_async_send`, `Poll` and
`AsyncIo` are what `uv_run` does with it. An applied node returns to `free` and
may be scheduled again at the same address, so the ABA case is included. The
atomics are sequentially consistent in the model.

### Loop

A runner, and the one operation that a `sync_wait` has on the loop at a time,
both live on the stack of the calling thread and are named by it. `opAt` follows
that operation: it is about to be pushed, scheduled, in the batch that
`ApplyOperations` grabbed, a timer that is armed, due or closing, or with a
foreign thread that will transfer to the loop. `kind` says which sender it is:
`schedule`, the same followed by `loop.finish()`, a timer, or a transfer. `mode`
is the entry point.

`CheckFinished`, `TakeLoop`, `LeaveLoop`, `AddRunner`, `LoadWakeups`, `Awake` and
`EraseRunner` are `RunnerSteal`, with the same steps serving the loops of `run`,
`run_once` and `drain`, which differ in that they do not ask whether the runner
is finished. What the code does under the mutex without looking at an atomic
that another thread writes is one action; where it does look (`WakeupNext`), each
look is an action and `RunMtx` is held in between. `UvEnter`, `Turn`, `PollAsync`,
`PollTimeout`, `ApplyDone`, `ClosingDone` and `RunTimers` follow the order of
`uv_run` in libuv 1.48 for its three modes: due timers, poll, closing handles,
timers again, and `stop_flag` cleared on the way out. The `Async` handle keeps
the loop alive, so `uv_run` in default mode only ends by `uv_stop`. Poll may
return for a due timer without seeing an async notification that is being sent.
The order in which a batch is applied is left open, since it is `ScheduleFifo`'s
subject.

A completion takes as many steps as the waiting thread can tell apart. `SetValue`
stores the result in the frame of the `sync_wait`; `Signal` is the wakeup (`finish()` if
its runner has acquired the loop, then the store of `TRunner::Finish`); `Notify` is the
`notify_one` after it, which no mutex protects. From the store on the thread may see 0,
return and destroy operation, receiver and runner, so `frame` keeps which call of the
thread the receiver belongs to. `notify_one` uses the address of `Awakenings` only and
is harmless on a frame that is gone, as a futex call is. A result that throws when it
is stored (the kind `throw`) is different: `set_error` signals, and `set_value`
signals again (`sync_wait_receiver.hpp`, lines 59-64). If the call has returned by then,
`SignalLate` is undefined behaviour: it reads either value of `Acq`, and stores into
nothing or into the runner of a later call. `undefined` records that it happened.

### StopOperation

Each operation has a handle, the flags `Used` and `StopCallback`, and a place in
the lists of the loop (`stage`, `stopQueued`) and of the stop source
(`registered`). The loop thread's steps are one per libuv or atomic call: `lpc`
and `cur` say where it is inside a callback. `RequestStop` to `StopFire` are
`request_stop` of an in-place stop source: it takes one callback off its list at
a time and runs it; destroying a callback waits until it is not executing on
another thread. `request_stop` comes from another thread, or from the completion
of a sibling on the loop thread (`CompleteFrom`). `ApplyInit` to `Setup` are
`Apply` of the scheduled forms; for the `Adaptors` (`after`, `at`, `upon_signal`
behind another sender) `SetValue` is the same code in `set_value`, and `UpstreamEnds`
is the upstream's error or stop. `Faulty` says whose libuv calls may fail; the
error paths are the code's, including that `Apply` goes on after a failed init.
`RacePhase` is the refinement mapping to `StopRace`: it reads off the flags who has
won. That a value means that the event happened, and a stop that it was requested
(`HonestResult`), is part of `StopRace`.

### TcpListener

`ListHead`, `NextOf` and `Prev` are the pointers of `TIntrusiveList`; `Erase` is its
`Erase`, and its `Pop` when applied to the head. `RegisterAccept` has one action per
outcome: a counted connection is taken (`RegisterPending`), the accept waits, or
the listener listens first, which may fail. `ConnectionCallback` counts the
connection or pops an accept. An accept that is popped after its stop has won
takes nothing. `held` is libuv's `accepted_fd` and `watching` whether it polls the
socket: it stops when the callback returns without `uv_accept`, and starts again
when `uv_accept` succeeds or the listener listens again. `made` tells the two
constructors apart: the public one listens and leaves `PendingConnections` at
minus the backlog, `Bind` sets it to 0. `set_value` of an accept calls `Setup` after
`RegisterAccept`, which may have completed the accept already (`SetupLate`). If its
receiver has kept the operation, that is harmless; if it has destroyed it, as
`accept_from` and `spawn` do, it is undefined, and the accept is `dangling`: nothing
comes of it, a stop callback is left in the stop source, or a stop of the dead
operation reaches the loop.

### Algorithms and Pipeline

A sender is the stages it runs, the completions it declares and the domain of
its environment. `TTcpSocket`, `TUdpSocket`, `TTcpListener` and `TLoopTimer` are the
`tag_invoke` overloads that choose the sender; the records named after the tags
are what a package declares that has not been transformed. `Connect` is both ways
from a chain to its operation states: at once when the chain starts on the loop,
or, when it starts with `just`, at connect, from the outside in. `Steps` are the
algorithms that compile: those of the loop, and those that the kind of their
socket customises.

In `Pipeline`, `state` and `pos` say where a chain is; `EndStage` is what completing
the receiver of a stage does: a value runs the next stage in the same callback,
which is why `Idle` guards everything that libuv or the loop's list starts.
`StartRead` sets `data` before the read is known to start, as the code does; a
callback goes through `data` (`CompleteRead`), not to the chain that started the
read. A read of a socket that is polled already, or is closing, is refused.
Requests are called back with an error once their socket is closed, and all of
them before the close callback. How many bytes are read, and the condition of
`read_until`, are left open. A `send` of an empty datagram is modelled as the last stage
of a chain: it completes, and the request that is made all the same completes it
again, by its error or by its callback, which are one action since the second result
is not looked at. As an earlier stage it would start the next one twice.

### SocketScope

`phase` is the alternative of the variant, `handle` the socket or the value. Each
of the four has its own start, its own reaction to the upstream's value, error
and stop, and its own close; `Throwing` says for which of them building the body
may throw. `outcome` is what `exec::finally` or the error receivers keep over the
close. `In` and `Ends` are how the upstream and the body complete at run time; what the
senders declare is not modelled here, and need not be the same: the signatures of
these four are computed without an environment, and a body that starts with `just`
declares no errors until it is connected.

`Parent` puts a scope within another, in one of two ways. A nested scope is a part of
the body: it starts with the body, which ends after it because a body is one sender. A
spawned one (`Spawned`) runs in the `exec::async_scope` of an `async_value`'s value, and
nothing in the body waits for it, unless the body itself does so last (`Waits`). It is
drop that ends it: `Drop` asks the value to stop, and `AsyncValueDropped` needs its scope
to be empty. What has been spawned may spawn more in the meantime, as each
connection of the echo server spawns the next accept.

`Stopped` is the stop token. All four connect upstream and body to the environment of
their own receiver, so the token of the outermost scope reaches every part of the
bodies directly. In addition `async_value` registers a stop callback that asks the
value to stop, if the value has `request_stop` (`StopSource`); for what is spawned, whose
token is the value's, this is the only way in. `Registered` and `Ask` are that
callback, and a stop that comes before the value exists is passed on when it does
(`AsyncValueSetValue`). When building the body of an `async_value` throws, the exception
is reported and the value not dropped, except for a function that is `noexcept` and
whose sender cannot be connected (`NothrowFn`): the catch does nothing
(`async_value_op_state.hpp`, lines 72-75) and the scope is `lost`, open and never
completed. By then the receiver lies in storage that was destroyed when the value was
emplaced; it is taken to be readable.

### Echo

The client opens `InitConn` connections; the first receive of each opens another
while `ConnectionLimit` lasts. Bytes on the way are counted per connection:
`toServer`, `sends` (read and not yet sent back), `toClient`, `DataLeft`. A receive
and a read may take any part of what is there. Everything in an async scope is
state (`receiving`, `sends`, `peer`, `accept`), so that what a join waits for, and what
a delete would leave behind, is visible. `Faults` says which calls may fail; a send
that fails delivers a part of its data, or none.

## Runs

| Run | Instance | States | Shows |
|---|---|---|---|
| `operation_queue` | 2 threads, 3 nodes | 82,654 | `NoStrandedOperation`, `ImplementsFifo` with liveness |
| `loop_safety` | 3 threads, 1 call each, all modes, results that throw, `finish`, timers and transfers | 2.1 million | one thread in `uv_run`, no use of a frame that is gone, no stale stop, no revived runner |
| `loop_liveness` | 2 threads, 2 calls each, no `finish` | 267,778 | completed `sync_wait`s return; all return while some thread is in `run` |
| `loop_lost_wakeup` | 2 threads, 1 `sync_wait` each | violation | a lost wakeup, see below |
| `loop_stale_acquire` | 2 threads, `finish` allowed | violation | a stale `Acq`, see below |
| `stop_operation` | 3 operations, one an adaptor, one whose calls may fail | 29,768 | refinement of `StopRace`, one completion, one close, no use afterwards |
| `stop_operation_init_error` | 1 operation that may fail | violation | two completions |
| `tcp_listener` | 3 accepts, 2 connections, either constructor | 485,049 | list, count and polling agree; stops and connections are served |
| `tcp_listener_wedge` | 1 accept, 1 connection, backlog 1 | violation | an accept that waits beside a connection |
| `pipeline` | 4 chains of 2 to 5 stages, a stream and a datagram socket | 72,611 | pointers lead to their operation, one declared completion, stop and close end what waits |
| `socket_scope` | a server: a listener and a connection in its body, an accept and a client spawned | 19,408 | refinement of `ScopedResource`; a stop ends the server, and drop ends what was spawned |
| `echo` | 2 connections, 2 bytes each, every call may fail | 399,405 | exact echo, joined scopes, both sides return |

Bounds. `MaxCalls` bounds the calls of a thread in `Loop`; two calls let a thread
come back with a new runner while the other still holds state of the first
round, and three threads let the loop be handed over while a third one waits or
arrives. `loop_safety` leaves out the plain `schedule`, which is a `transfer` without
its first step. In `OperationQueue` nothing is counted, so its run is unbounded; three
nodes and two threads give a push during a reversal, during an apply, and of a
node just applied. Operations of `StopOperation` share only the stop source and
the loop thread; three of them give a stop in the middle of the list of
callbacks with one operation before and one after it. Three accepts give an
`Erase` at the head, in the middle and at the end of the list; two connections let
one be held while another arrives; the backlog of 2 keeps a count below zero
after one connection. The four chains contain every algorithm of the sockets,
start on the loop and with `just`, and share each socket between a chain that reads
and closes it and one that writes to it. The scopes are those of the echo server: an
`async_value` whose body waits for its scope, with each of the four algorithms within
it, two as parts of the body (one of them an `async_value` whose exception may be
swallowed) and two spawned, so that one may be spawned while drop waits for the other.
Two connections of two bytes let a read split
the data, a second connection be opened by the first, and the server join one
while it serves the other. Deadlock is checked in `operation_queue`; the other
systems come to rest (all calls made, all operations complete) and their
configurations say so.

Fairness. Weak fairness of each thread's steps is what the operating system
gives a runnable thread; the mutex is always released by steps that are enabled.
The loop thread inside `uv_run` is one such thread: it applies what is in its
list, runs the closing handles and reports connections it polls for; a timer
that is armed becomes due. In `SocketScope` connects and upstreams end by
themselves, since the kernel times them out, but accepts and bodies only when
their own token is stopped; a body that waits for its `async_scope` goes on only when
that is empty, and so does drop. In `Echo` both loops run and the network delivers. Nothing is
assumed about a compare-and-swap succeeding (`PushBack` is lock-free only), about
events in `StopOperation`, data or requests of open sockets in `Pipeline`,
anybody calling in or requesting stop, faults, or the order in which waiting
threads get the mutex.

## What the runs found

* `loop_lost_wakeup`: `RunnerSteal` puts the runner into `Runners`, unlocks, and
  `Wait` then loads `Awakenings`. If the thread that leaves `uv_run` pops and
  wakes the runner between unlock and load, `Wait` loads the incremented value,
  sees no change and sleeps although the loop is free and its own operation is
  waiting to be run. The same holds for `run`, `run_once` and `drain`.
  `loop_liveness` shows the extent: as long as some thread stays in `run`, no
  `sync_wait` is lost.
* `loop_stale_acquire`: when `finish()` ends the `uv_run` of a `sync_wait` that is
  not finished, its runner keeps `Acq`. If another thread's `uv_run` completes
  it before it takes the mutex again, `AcquireIfNotFinished` still returns true,
  and the finished `sync_wait` runs the loop with nothing left to stop it.
* `stop_operation_init_error`: `Apply` and `set_value` of timers and signals miss a
  `return` after a failed init, and complete the receiver again.
* `tcp_listener_wedge`: a listener made by the public constructor counts a
  connection that comes before the first accept from minus the backlog. With a
  backlog of 1 the count is then 0, the accept is put into the list, and libuv,
  which holds the connection, does not poll. With a larger backlog the first
  accept listens again, and libuv reports the next connection while the held
  one is dropped. `bind_to` sets the count to 0 and is not affected.

Modelling also met behaviour that no comment or test of the repository speaks
of, and that the properties leave out by name: a start that fails leaves its
handle open; a `send` of an empty datagram completes twice (`EmptySends`); an
accept whose listen failed stays in the list; an accept that is stopped while a
connection is reported leaves the connection with libuv, which does not poll for
the other accepts until it is taken (`Undisturbed`); `Setup`
runs on an accept that its receiver may have destroyed (`dangling`); a result that
throws when it is stored signals its `sync_wait` twice (`undefined`); a throw while a
body is built leaks the socket (`Leak`), and one of `async_value` is swallowed when the
function is `noexcept` (`Stuck`); a stop of an `async_value` whose body waits for what its
value has spawned does not reach that if the value has no `request_stop`; the echo client
deletes a connection whose send failed while its receive is still pending. The form of `shutdown` that starts with `just` names a
member that its sender does not have (`shutdown.hpp`, line 75), and could not be
instantiated.

## Proofs

The proofs are for any sets of threads and operations, from the assumptions
named in the modules: `NULL` is none of them; `Modes`, `Kinds`, `Constructors` and
`Faults` are subsets of the listed values; `MaxCalls` is a natural number, and
`Backlog` and `Payload` positive ones; at least one connection is opened first
(`EchoAssumption`); scopes nest two deep (`ScopesAssumption`). Two assumptions say how
the library is used: `ChainsAssumption`, that a chain starts with `just` or `schedule`
and consists of algorithms that its sockets have (the others do not compile), and
`OneReader`, that the reads and the close of a socket belong to one chain. Four theorems
(`NoLateSignal`, `AcquireIsSound`, `OneClose`, `ReceivesAreJoined`) have an assumption of
their own, which their statement names. The
refinement of `ScheduleFifo` needs that the nodes are finitely many (`OpsFinite`). TLC
evaluates all of them on the instances.

Where a proof needs induction (along a list, a chain or the connections), it is
`UpTo` of `InductionLemmas`: a set of numbers that holds 0 and with each number the
next one holds them all. The set stands for the predicate, which the provers could
not instantiate, and the lemma follows from the least element of what is missing.

* `OperationQueueProofs`: `TypeCorrect`, and `NoLostWakeup`, that a non-empty list
  always has a notification on its way. The invariant is inductive with the type
  invariant: each of its two halves names who is responsible at every step of
  the handshake between `uv_async_send` and the loop. `ScheduleIsFifo` is the
  refinement of `ScheduleFifo` without its fairness. `OwnedInv` says that the list of
  the producers, what the loop has grabbed and reversed, and the nodes in the hands
  of threads are disjoint, and that each list ends; so a push that reads a stale
  head fails or, when the node has come back in the meantime, finds the head it
  meant. A list is the only sequence that its pointers spell (`ChainUnique`), which
  turns each step on pointers into one on sequences: `CasSucceeds` puts a
  node in front of the list whose reversal is the end of the queue, and `ReverseStep` moves
  one between two lists whose concatenation stays the same.
* `LoopProofs`: `LoopInv` is inductive. `LockInv` says who holds the mutex and that
  `Running` is true exactly between taking the loop and leaving it; it gives
  `LoopIsExclusive`. `RunnersAlive` needs it, because only the thread inside
  `wakenext` under the mutex pops. `OpsInv` relates `opAt`, `kind`, `foreign` and the
  position of the thread with the step of the completion that the loop is in
  (`FrameInv`), and gives `FramesStayAlive`: as long as no late signal has hit a frame
  that is gone, an operation is on its way, or its receiver about to signal, exactly
  while its `sync_wait` waits unfinished, and whoever returns has its result. The
  `notify_one` after the store, and the second signal of a result that threw, are what
  may come late; `NoLateSignal` says that, if no result throws, only the `notify_one`
  does. `NoStaleStop` needs that a completion happens inside somebody's `uv_run`. `FinishIsFinal` is the action
  property, from the fact that the runner about to be woken is unfinished and
  that nobody is inside `uv_run` to finish it. `AcquireIsSound` assumes that no
  operation calls `finish()` itself, which is the assumption that
  `loop_stale_acquire` shows to be needed, and that no result throws. The lemmas on `RemoveAt`, `Tail` and the
  elements of a sequence come first.
* `StopOperationProofs`: `StopInv` ties, for every operation that meets no error, the
  handle's state to the flags and to the two threads' positions by listing the
  phases of an operation (`Fresh` to `Done`), in each of which it is settled who
  may still refer to it and who will close its handle. A step either leaves an
  operation's phase alone (`FrameKeepsPhase`) or is one of its own steps
  (`PhaseStep`). `CompletionIsTheEnd`, `OneCompletion` and `ResultIsHonest` follow for the
  operations outside `Faulty`, whatever the others do; `OneClose` is about all
  operations and assumes that `Faulty` is empty. `TypeCorrect` needs no assumption.
  `StopIsARace` is the refinement of `StopRace`: a step of one operation leaves the
  others as they are (`OthersAlone`), and from each phase it is one of `StopRace`'s
  steps or unseen there (`StepRaces`).
* `TcpListenerProofs`: `ListenerInv` adds to the properties `StopSound` (`Used` is set
  exactly when an accept has completed or its stop is queued) and `CountSound` (a
  counted connection keeps libuv off the socket). `OneCompletion` is about the accepts
  that are not `dangling`; the list and the count are sound whatever a destroyed accept
  does. What `Add` and `Erase` do to the
  pointers is a lemma each, without induction over the list: the invariant
  relates `Next` and `Prev` of neighbours only.
* `PipelineProofs`: `IInv` says of each chain that it is at one of its stages, of each
  socket that what polls or closes it waits for just that, and of each stop that
  its holder waits. The key is `Unreferenced`: a chain whose stage ends is not the
  target of any pointer, because the callback stopped the polling first. This
  is where `OneReader` is needed. `DeliversAsDeclared` has two halves. The senders:
  `StageOfStep` goes through the algorithms of every kind of socket, and by
  induction along the chain each prefix is `Sound` (one stage per algorithm, the
  errors and stops of all of them and the value of the last one declared), while the
  packages declare the same but for the errors (`PackagesDeclare`). The chains:
  `ResultInv` says that an error comes from a stage other than `close`, and a stop from
  `schedule` or from a stage that can be stopped. `NoStopIsLost` is what remains of
  `StopEndsWait` without fairness: the stop of a stage that waits is in the stop
  source or in the loop's list, whichever way `Setup` and the request met.
* `SocketScopeProofs`: every step moves one scope (`Moves`), in one of the ways
  that `ScopedResource` knows or within one of its phases. `ScopesAreResources`
  proves the refinement, initial states and steps, for any scopes, bodies and
  failures; a `lost` scope holds its resource for good, which `ScopedResource` allows.
* `EchoProofs`: `ConnInv` holds whatever fails, `FaultFree` while nothing has.
  `ScopesAreJoined` leaves out the receive of a connection whose send has failed, which
  the client deletes without the join (`echo_uvexec.cpp`, lines 244-254); if `Faults` has
  no `send`, `ReceivesAreJoined` has no exception. That
  bytes are only ever moved is `NoByteIsLost`; that the client opens no
  connection too many comes from `LimitInv`, which relates the limit to the
  connections opened. `EverythingIsEchoed` adds up: `CountInv` says that the bytes
  received are the sum over the connections of what each has received, and when
  the client has returned each of the connections 1 to `Connections` has all of its
  bytes.

Every invariant and action property that a run finds to hold, and the refinements of
`ScopedResource` and `StopRace`, are proved, with the limits that their statements name. Only model-checked is what holds under
fairness, which is outside what TLAPS proves (`CompletedSyncWaitReturns`,
`SyncWaitReturnsWhenDriven`, `StopOrEventCompletes`, `StopEndsAccept`,
`ConnectionServed`, `StopEndsWait`, `CloseEnds`, `StopEndsScope`, `ReleaseEnds`, `BothReturn`, and the
fairness that `ImplementsFifo` adds to what `ScheduleIsFifo` states).

## Not modelled

The C++ memory model: atomics are sequentially consistent, and the relaxed and
acquire/release orders of the code are not distinguished. Result values and
which exception is rethrown; payloads, addresses and the arithmetic of timeouts.
Wrap-around of the 64-bit `Awakenings`. A sender that completes its `sync_wait` on a
thread other than the loop's, `finish()` from such a thread, and the destruction
of `TLoop`. Two chains that read one socket, or a close of a socket that another
chain reads: the code does not guard against either and nothing says whether it
is allowed. In `SocketScope`, stops from another thread, the signatures of the four
senders, and the storage of the variant itself: emplacing an alternative destroys the
one whose receiver is being called, which the code relies on being harmless. libuv and stdexec are modelled
from how the code uses them (libuv 1.48, marked external in PROJECT.json).

Addresses, error codes, `lazy.hpp` and `meta.hpp` have no state or control that a
model could tell apart from their text. `echo_uv.c` is the same service without
the library; `echo_with_async_value.cpp`, the tests and the other benchmarks are
users of what is modelled.

## Plan

Possible next: `Loop` with completions and `finish()` on foreign threads and with
`~TLoop`; stops from other threads in `SocketScope`, which would bring the order in
which `TDestroyer` resets the value and its callback into reach;
`process_connection_sequentially` in `Echo`. Proofs: the safety half of the other
liveness properties, as `NoStopIsLost` is of `StopEndsWait` (whoever waits is in a list
that somebody will read); that `TcpListener` implements `StopRace` for its accepts.
