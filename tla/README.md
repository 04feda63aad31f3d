# LearnTogether: a TLA+ verification project

The repository collects study notes and two C++ systems built on Baidu's brpc and braft: a replicated counter
(`src/Source Codes/BRAFT/example_counter`) and a multi-threaded echo client and server with a gtest suite
(`src/Our Codes/BRPC/multi_threaded_echo_c++`), with the protobuf code generated for the echo service. This directory models
all three, checks the models with TLC, and proves with TLAPS every safety property the runs check and both refinements, for any
number of peers, threads, calls and messages. brpc, braft, bthread and protobuf's runtime are not in the
repository; they are modelled from how the code uses them and marked external.

## 1. Inventory

### The replicated counter

| component | state | operations | talks to |
|---|---|---|---|
| `Counter`, a braft state machine (server.cpp 63-314) | `_node`, `_value` (64 bits, atomic), `_leader_term` (atomic) | `fetch_add`, `get`; callbacks `on_apply`, `on_snapshot_save`/`save_snapshot`, `on_snapshot_load`, `on_leader_start`, `on_leader_stop` | RPC handlers call it from any thread; braft's FSMCaller calls it back in one queue |
| `FetchAddClosure` (39-60, 316-326) | request, response, status | `Run`, in a bthread of its own | answers the RPC, or redirects it |
| `main` of the server (351-407) | RPC server, counter, service | start, wait for CTRL-C, shut down, join | owns everything the threads use |
| raft group (external) | logs, terms, committed prefix, closures | `apply`, election, commit, step down, install snapshot | orders the callbacks |
| `sender` threads of client.cpp (35-101) | the route table, shared | pick a leader, send, follow a redirect | any peer |
| `main` of the client (103-151) | thread ids | create, wait, join | the senders |
| scripts | data directories | `stop.sh` is `kill -9`; `run_server.sh` starts again, by default on the same data | the server process |

What is hard here: a handler reads `_leader_term` and acts on it later, while leadership comes and goes; the answer of an addition
is filled in by one thread and sent by another, after the state machine has moved on; `on_leader_stop` reaches the state machine
after applies that were queued before it; a snapshot's value is captured in one thread and written in another; peers are killed at
any point and replay; shutdown must wait for three kinds of threads in the right order.

What makes it correct:
 - replicas that applied the same prefix hold the same value, however they got there;
 - an acknowledged addition is in the log once, for ever, and its answer is the value before it;
 - callers see a linearizable fetch-and-add, with refusals that may or may not have taken effect;
 - nothing is added in a term other than the one its handler saw;
 - reads are complete with respect to the term they are served in;
 - accepted requests are answered; processes that are told to quit do, and leave nothing running on destroyed objects.

### The echo programs

| component | state | operations |
|---|---|---|
| echo server (server.cpp) | server and service on main's stack | `Echo`: message and attachment back; start, wait for CTRL-C, stop, join |
| handler of `testServer/server.hpp` | `NUMBER`, a plain global int | `Echo`, which also numbers the requests it logs |
| test suite (client_test.cpp) | `FLAGS_server`, `g_request`, `g_attachment`, `threads_number` under mutex `m`, `log_id`, `g_error_count` | four cases in file order, 100 `sender` threads in the third |
| client (client.cpp) | a channel on main's stack, latency and error counters | `sender` threads until CTRL-C, a fatal check on failures with `dont_fail` |

What is hard: a counter incremented by many threads, cases that share globals, RPCs that fail under load, requests sent twice and
answers that come late, threads and handlers that share objects on two mains' stacks. What makes it correct: exact counts, cases
that do not fail each other, a call that brings back what it sent or fails, an orderly end on both sides.

### The generated echo protocol

`echo.pb.h` and `echo.pb.cc` are the output of protoc, but the repository keeps them under version control (three identical
copies) and everything above rests on them.

| component | state | operations |
|---|---|---|
| `EchoRequest`, `EchoResponse` | `message_` (shared empty string, or one of its own), has bit, unknown fields | accessors, constructors, destructor, `Clear`, `MergeFrom`, `CopyFrom`, `Swap`, parsing, serialization |
| descriptors | pointers to descriptors, reflections and default instances; `already_here`; a once flag | `AddDesc`, `AssignDesc`, `RegisterTypes`, `ShutdownFile`, and the functions that hand them out |
| `EchoService`, `EchoService_Stub` | the stub's channel, and whether it owns it | dispatch, prototypes, `Echo` |

What is hard: strings whose owner changes with every call, operations that rely on what others have left in a string nobody can
see, objects made on demand by whichever thread comes first. What makes it correct: messages are values to their users; a
string has one owner; what is written reads back; whatever a thread is given is whole.

### Not modelled

`Notes/`, LTP logs, CMake output and installation scripts have no behaviour to speak of; `run_fio.py` is a straight-line script.
Of the generated code, `ByteSize` with `_cached_size_`, which no message here reads, the empty `InitAsDefaultInstance`, and the default
`EchoService::Echo`, which every service overrides. The unit tests in `project1/` and `testServer/` call a handler once per case; the
handlers are modelled, their calling order is not. The suite's `log_id++` is an unprotected increment of a number that is only
logged; it is listed as a hazard and left out.

## 2. Modules

| module | models | built on |
|---|---|---|
| `RaftGroup` | what braft promises `server.cpp`: per-term leader logs, elections, appends, commits, durable state (external) | |
| `CounterServer` | `server.cpp` 39-347 on each peer: FSMCaller's queue, the handlers, closures, snapshots, crash and restart | EXTENDS `RaftGroup` |
| `FetchAddService` | the abstract service: one ledger of the moments at which additions take effect, and what each caller knows | |
| `CounterRefinement` | the mapping from `CounterServer` to `FetchAddService` | EXTENDS `CounterServer`, INSTANCE `FetchAddService` |
| `MCCounter` | additions of 1 for the model checker | EXTENDS `CounterRefinement` |
| `CounterClient` | `client.cpp`: senders, route table, main, against an abstract group | |
| `ServerLifecycle` | `main`, `Counter::start`, `shutdown`, `join` with handlers, closures and callbacks around them | |
| `EchoSuite` | `client_test.cpp` and the echo handler | |
| `EchoClient` | the threads and main of the echo example's `client.cpp`; a component without a next-state relation of its own | |
| `EchoWire` | values of the generated messages and the fields they are written to and read from; pure operators | |
| `EchoValues` | the abstract specification: a set of independent values | EXTENDS `EchoWire` |
| `EchoMessage` | the generated messages with their pointers, has bits and strings | EXTENDS `EchoWire`, INSTANCE `EchoValues` |
| `MCEchoMessage` | symmetry for the model checker | EXTENDS `EchoMessage` |
| `EchoDescriptors` | descriptors, reflections, default instances and prototypes, from static initialization to shutdown | |
| `EchoCall` | the echo call end to end: client, stub, brpc, service, handler, server main | EXTENDS `EchoClient`, `EchoWire` |
| `CounterServerProofs`, `CounterServiceProofs`, `CounterClientProofs`, `ServerLifecycleProofs`, `EchoSuiteProofs`, `EchoMessageProofs`, `EchoDescriptorsProofs`, `EchoCallProofs` | theorems | TLAPS and the module they are about |

Definitions whose comment begins with "Mutant of" are plausible mistakes; each property is violated when its mutant takes the place of
the definition. `PROJECT.json` maps every definition to its lines.

### RaftGroup

A log is kept per term (`termLog[t]`, the log of term t's leader, ever growing), together with the committed sequence and the
term each peer leads, if any. A peer that wins an election starts from a prefix of an earlier leader's log that covers what is
committed and appends a `NoOp` entry, as braft does with its configuration entry; a commit is of an entry of the leader's own term.
Each entry carries the value the counter has after it, so that the value at an index is a field and not a recursion over the log.
Votes, AppendEntries and timers are not modelled: braft is trusted to deliver this contract.

### CounterServer

A peer's `queue` is FSMCaller's execution queue: commit, stop, save and load tasks in the order braft queues them. `FsmBegin` takes a
commit task, `FsmApply` is one turn of `on_apply`'s loop (so that everything else interleaves between two entries of a batch), and
`on_leader_start` happens where braft calls it, when the new leader's first entry is applied. `FetchAdd` is the handler up to the
load of `_leader_term`, `NodeApply` the call of `_node->apply` with its `expected_term`, and `Run` the closure, in its own bthread.
`GetBegin` and `GetEnd` are the two loads of `get`. `FsmSave` captures the value, `SaveFinish` writes it; `SaveFinish` may fail. `Crash`
loses everything but the log and the last snapshot; `Restart` loads it and waits for commits. Additions wrap like `int64_t`
does (`Half` stands for 2^63).

### FetchAddService, CounterRefinement

The service keeps a `ledger` of moments. At each of them one addition takes effect, or none (raft's own entries), and several may
pass in one step, as one commit decides several entries. An addition the service has taken on may take effect once, whether or not
its caller still waits: a caller that is answered with an error, or not at all, is left with an `unknown` outcome. One that
`fetch_add` refuses itself never takes effect. `CounterRefinement` reads the ledger off the committed log and
the callers' knowledge off the handlers' places.

### The others

`CounterClient` keeps each sender's place in the loop and what it read from the shared table; the group only elects, deposes and
spreads the news, and `Call` is the whole RPC with the peer's redirect as of when it answers. `ServerLifecycle` keeps main's place, the
server's and the node's phase, and each RPC's place from arrival to answer; `Apply` goes through `_node` whether or not it is set. In a
failed start (`unwind`) main has destroyed `counter` while the RPC server is still up; its memory is main's stack and keeps its
contents, so handlers find no leader and no node there. `EchoSuite` splits `threads_number++` in a load and a store between lock and unlock;
with `dont_fail` a call that fails ends the process (client_test.cpp 69), unless a CTRL-C has come before, which is left open.
`EchoClient`'s calls are counted in `calls`, which no code holds; `Tally` compares the program's own counters with the set of
calls made (`CallsMade`).

### EchoWire, EchoMessage, EchoValues

A stream is the sequence of fields its reader finds, with marks for a zero tag, an end of group, and a field that is malformed or in
which the stream ends; texts and unknown fields are members of small sets. Such a cut is one of four kinds (`Cuts`), by what it leaves in
the message: part of a text; the old text with its bit set, when already the text's length cannot be read (`mutable_message()` comes
before `ReadString`); part of an unknown string or group, which `SkipField` adds to the unknown fields before it reads it; or
nothing, of an unknown number. What is left of an unknown field is itself a field, and written as one. `EchoWire` translates `EchoResponse` as functions on values, `EchoMessage`
translates `EchoRequest` as actions on memory: `heap` holds the strings, `message_[m]` is a pointer, and `held` are the strings
the user got from `release_message` or will give to `set_allocated_message`. A parse is a turn of the loop at a time, so that it can be
cut anywhere. `ParseMeaning` says what a parse must make of a message by the places in the stream alone: the last text before the first
end mark, the bit of one that was begun, and the unknown fields in their order, the last of them in part if it was cut. That the two classes behave alike is part of `RoundTrip` and `ParseMeaning`. In `EchoValues` there are no
pointers: an operation changes the value of one message, or exchanges two, and nothing else.

### EchoDescriptors

Static initialization is a phase in which only `Main` runs and may ask, through another file's initializer, before this file's own has
run. A thread's call goes through the once flag (`AssignDescriptorsOnce`), the assignments of `AssignDesc` one by one, and the read;
`GetPrototype` is the runtime's factory, which calls `RegisterTypes` under its own lock. Objects carry a serial number, so that one
that is made twice, and lost, is told from its first.

### EchoCall

`Turn` is sender's loop with a new request, response and controller; `Retry`, `Receive` and `GiveUp` are brpc's part of the synchronous
call. `wire` is the set of messages on their way, in any order; a lost one stays there for ever. `Accept` is the service's dispatch
with parsed request and new response, `Echo`, `Store` and `Done` the handler of `testServer/server.hpp`: `NUMBER++` is a load and a
store with other handlers between. The handler the server's program runs (server.cpp 33-51) is the same without `NUMBER`, so every
property but `NumbersWithoutGap`, which names `NUMBER`, is about it as well; the main that would serve the other one is commented out.
`ServerJoin` waits for the handlers because brpc's `Join` promises to, which is assumed and not checked. When main gives up creating threads, channel and process end at different moments, and `UseDestroyed` is what a
thread may meet between the two.

## 3. Runs

| run | instance | shows |
|---|---|---|
| `leaders` | 2 peers, 2 additions, 2 terms, no crash | `TypeOK`, `AcknowledgedDurable`, `ExpectedTermRespected`, and `ImplementsService`: refinement of `FetchAddService` |
| `snapshots` | 2 peers, 1 addition, 2 terms, snapshots, one peer crashes | `StateMatchesLog`, `SnapshotMatchesLog`, `LoadNeverOnLeader` |
| `reads_and_answers` | 2 peers, 1 addition, 1 get, fairness, one peer crashes | `TermReadsComplete`, `AlwaysAnswered` |
| `client_service` | 2 peers, 2 threads, 2 elections, 1 lost RPC, fairness of threads | `EveryThreadServed`, `QuitReturns` |
| `server_lifecycle` | 3 RPCs, 2 leaderships | `PhasesInv`, `QuietAtReturn`, `QuitReturns` |
| `echo_suite` | 2 threads of 2 calls, 1 failure, `dont_fail` | `CountExact`, `FailuresExplained`, `SuiteEnds` |
| `echo_call` | 2 threads of at most 2 calls, 1 retry, 3 requests sent in all, `dont_fail`, the server echoes attachments | `EchoedBack`, `AnsweredWasRun`, `Tally`, `NumbersWithoutGap`, `ChannelThere`, `QuitReturns`, `ServerQuits` |
| `echo_message` | 2 messages, 3 strings, 3 texts, 2 unknown fields, streams of at most 2 fields | `EveryStringOwnedOnce`, `AbsentReadsEmpty`, `RoundTrip`, `ParsingMerges`, `ParseMeaning`, and `ImplementsValues`: refinement of `EchoValues` |
| `echo_descriptors` | 3 threads, one of them there before `main()` | `AnswersWhole`, `NothingLost`, `EveryoneAnswered` |

Three runs end in a violation, each a disagreement between the code and a comment beside it:
 - `stale_read`: `get` claims to be up to date (server.cpp 147) but a replaced leader that has not been told answers from its old value. What does hold is
   `TermReadsComplete`: within the term the peer believes in, nothing is missing.
 - `redirect_applied`: a closure with an error is answered with a redirect "if this request failed" (324), but its entry may still be
   committed; a caller that follows the redirect adds twice. This is why `FetchAddService` lets a refused request take effect.
 - `node_not_set`: "It's ok to start Counter" (server.cpp 385) once the server is up, but a node that leads before `_node` is set, as a
   group of one may, makes `fetch_add` use a null pointer.

Bounds. Two peers and `Half = 2`: a quorum is not a set here but a choice of the prefix a new leader has, so a
second peer already gives every relation between an old leader's log, a new leader's and the committed one; the value range -2..1
makes two additions overflow. Two terms give a change of leader with both leaders running, and the ABA of one peer leading twice.
Two additions are needed for order (`leaders`); the snapshot run pays for its larger state with a single one, besides the `NoOp`s.
One crashable peer loses its handlers, queue and memory at any step, and can lead before and after. In the client, one election
after a first leader gives stale routes and late redirects, and a lost RPC clears the table under another thread. For
`ServerLifecycle` three RPCs cover one in a handler, one in the node and one closure at once. In `echo_call` three sendings
(`MaxSends`) give two calls of one thread and one of the other, or one call sent twice beside another: a late answer to an
earlier call, a handler that runs twice, and two handlers racing on `NUMBER`. Two messages are what the binary operations relate; three strings
(`Addr`) let each message and the user own one at the same time; `MaxUnknown` and `MaxFields` of 2 give a second text after a first,
an unknown field between, and a cut of each kind after a whole field. For the descriptors one thread runs `AssignDesc`, one waits at the flag and
one holds, or waits for, the factory's lock. Deadlock is not checked because bounded models, and processes that return, do stop.

Fairness. `AlwaysAnswered` assumes that handlers and closures (bthreads) run, that FSMCaller works its queue, and that a leader with an
uncommitted entry either commits it or steps down, as braft's election and lease timers make it do; elections, crashes and restarts
are not fair. The client's threads run; `EveryThreadServed` speaks of the time after the group has settled, with a leader its peers
know of and no more RPCs lost, and `QuitReturns` of any group. In `ServerLifecycle` main, handlers and closures run and a node
that is told to shut down fails its closures and goes down; nothing ever has to commit. The echo suite's threads run and their RPCs
end, at the latest by their timeouts. In `EchoCall` client main, each client thread (whose call ends with an answer or at its timeout),
the handlers together and the server's join are fair; retries, the network, CTRL-C and the server's start are not, so nothing has to be
delivered. In `EchoDescriptors` each thread goes on when it can, which neither flag nor lock lets it when another has it.

## 4. Proofs

All for every value of the constants that satisfies the assumptions of the modules (`RaftAssumption`, `CounterAssumption`,
`ClientAssumption`, `LifecycleAssumption`, `SuiteAssumption`, `WireAssumption`, `MessageAssumption`, `DescriptorAssumption`,
`NullAssumption`, `EchoClientAssumption`, `CallAssumption`): sets may be of any size, and the bounds of the runs any number; only
the threads of the echo programs must be finitely many. Three theorems assume a flag: `NoAddOutsideItsTerm` and `ReadsComplete`
hold with `check_term` only, as the code means it, and `FailuresAreExplained` of a server that runs with its default `echo_attachment`
(server.cpp 22), as the suite expects. Every invariant a passing run checks, and both refinements, is the statement of a theorem.

| module | theorem | statement |
|---|---|---|
| `CounterServerProofs` | `TypeCorrect` | `Spec => []TypeOK` |
| | `ReplicasAgree` | `Spec => []StateMatchesLog` |
| | `SnapshotsSound` | `Spec => []SnapshotMatchesLog` |
| | `AcknowledgedAdditionsKept` | `Spec => []AcknowledgedDurable` |
| | `NoAddOutsideItsTerm` | with `CheckTerm`, `Spec => []ExpectedTermRespected` |
| `CounterServiceProofs` | `LeaderNeverLoads` | `Spec => []LoadNeverOnLeader` |
| | `ReadsComplete` | with `CheckTerm`, `Spec => []TermReadsComplete` |
| | `GroupImplementsService` | `Spec => ImplementsService`, the refinement of `FetchAddService` |
| `CounterClientProofs` | `ClientTyped` | `Spec => []TypeOK` |
| `ServerLifecycleProofs` | `PhasesHold` | `Spec => []PhasesInv` |
| | `ReturnsQuiet` | `Spec => []QuietAtReturn` |
| `EchoSuiteProofs` | `SuiteTyped` | `Spec => []TypeOK` |
| | `CountIsExact` | `Spec => []CountExact` |
| | `FailuresAreExplained` | with `echo_attachment`, `Spec => []FailuresExplained` |
| `EchoMessageProofs` | `MessagesTyped` | `Spec => []TypeOK` |
| | `StringsOwnedOnce` | `Spec => []EveryStringOwnedOnce` |
| | `AbsentIsEmpty` | `Spec => []AbsentReadsEmpty` |
| | `MessagesAreValues` | `Spec => ImplementsValues`, the refinement of `EchoValues` |
| | `ReadBackAsWritten` | `Spec => []RoundTrip` |
| | `ParsingIsMerging` | `Spec => []ParsingMerges` |
| | `ParsingMeans` | `Spec => []ParseMeaning` |
| `EchoDescriptorsProofs` | `DescriptorsTyped` | `Spec => []TypeOK` |
| | `NothingHalfMade` | `Spec => []AnswersWhole` |
| | `ShutdownFrees` | `Spec => []NothingLost` |
| `EchoCallProofs` | `ChannelOutlivesCalls` | `Spec => []ChannelThere` |
| | `CallTyped` | `Spec => []TypeOK` |
| | `EchoComesBack` | `Spec => []EchoedBack` |
| | `NumbersFollow` | `Spec => []NumbersWithoutGap` |
| | `SuccessesWereRun` | `Spec => []AnsweredWasRun` |
| | `EveryCallTallied` | `Spec => []Tally` |

None of the counter's properties is inductive by itself. The invariant is built in layers, each proved with the ones below; the first
three are in `CounterServerProofs`, the others in `CounterServiceProofs`:

1. `BoundedInv`: types, `RaftInv` (each term's log extends what was committed before the term, and carries right totals), `WithinLog`
   (every index a peer holds, in its state, its queue or its snapshots, is committed), `Placed` (a request that was given to a peer stays with it).
   The raft part is proved once per raft action; a lemma for each action of the server uses it.
2. `Valued`: a peer's value, and each snapshot's, is the log's at its index. It needs the first layer because the committed log only
   grows, so the value at an old index never changes.
3. `AnswersRight`: a request is in a term's log at most once, in the term its handler saw, and an acknowledged or applied call has
   the value before its entry. It needs the second layer because the answer is computed from `_value`.
4. `PeersRight`: the order of one peer's queue. A peer that raft has deposed and that still says it leads has `on_leader_stop`
   queued, and an install is queued behind it; this gives `LeaderNeverLoads`.
5. `TermsRight`: terms in a log only grow, each term has one owner, and a peer that says it leads has applied an entry of its term.
   `ReadsComplete` compares two terms with it: what was acknowledged in the reader's term or an earlier one lies before that entry, or was
   applied by the reader itself. Without `check_term` an answer may belong to a term its handler never saw.
6. `ClosuresHeld`: the call of each entry a leader has yet to commit, or is about to run, is still waiting with its closure.

The refinement then goes step by step. `LedgerRight` says what layers 1 and 3 mean for the ledger: each request is in it once, with
the total that follows the entry before. `FetchAdd` is `Invoke`, or `Refuse` when it redirects. `Commit` is `TakeEffect` of the entries
it adds: none was there before, so none has succeeded. `Run` of a call that was applied is `Succeed`, with the value layer 3
gives; `Run` with an error, and a crash, are `LeaveOpen` of the callers they concern. `FsmApply` and a step down show nothing: by
layer 6 they touch only calls that still wait. Nor does anything else, snapshots and restarts included.

The client's `TypeOK` is inductive, and says besides types that a thread sends only to a peer, never to the nobody a table without a
leader names.

For the life cycle `PhasesInv` is inductive; `QuietAtReturn` follows because every step of another thread needs a process that is running.

The echo suite. `CountExact` is a count: `SuiteInv` says that `answered` is `threads_number` and the threads between an answer
and their store (`Counted`), which mutual exclusion keeps (`Exclusive`: the one that has loaded finds what it loaded). For
`FailuresExplained` the invariant follows what each case leaves in the globals (`Addressed`) and what the untroubled turns add up to.

The messages. `EveryStringOwnedOnce` and `AbsentReadsEmpty` are inductive only together: that a string has one owner is kept because
no operation writes to, deletes or gives away the shared empty string, and that one stays empty because only owners write. Most operations
come down to two lemmas, one for writing a text and one for emptying it. For the refinement each message shows a value, read through its
pointer; a step of one message changes its own string, or one that was free, and by ownership no other message shows either.

Parsing. `Parsed` is a recursive function on the turns of its loop, and the prover has no induction over data. It does have induction
on numbers, by the least counterexample (`LeastNat`). So a parse is an account of its turns, each of which says what it was given and
what it made of it (`Accounts`); that the function's own turns agree with any account of the same stream is proved by least
counterexample. The invariant `ParsesRight` carries the account of the parse under way, which a turn of the loop extends by one, with
what it says of the fields read so far; `ParseMeaning` follows, for streams of any length and each way a field may be cut. Writing gives a text, if there is one,
and the unknown fields; `RoundTrip` and `ParsingMerges` follow those through the turns in the same way.

The descriptors. `DescriptorsInv` says how far `AssignDesc` is by what it has assigned (`Progress`), that only one thread is in it, that
every pointer is set once and names an object that lives until shutdown, and what each thread may rely on at its place: one past the once
flag finds all six assignments done, one past the first half of `RegisterTypes` finds the first prototype.

The call. Every call sends the same request, so `CallInv` says that each message on the wire is that request or its one answer, as bytes,
for a call that was made, and each handler is at one stage from one to the other. Bytes of one field are read back as written, which is
proved by unfolding the recursive function once, without induction. `EchoedBack` and the rest follow. For `AnsweredWasRun` a number must be
compared with a set: `AnsweredInv` says there is a set of calls that were run, as large as the count of successes, in which no call
under way is; each success puts its own call in.

`Tally` compares two counters with a set of pairs: a step that makes a call adds one pair to `CallsMade`, one that counts it does
not, so the invariant carries the calls under way as a second finite set.

Only model-checked: liveness (`AlwaysAnswered`, `EveryThreadServed`, `SuiteEnds`, `EveryoneAnswered`, `ServerQuits` and the three
`QuitReturns`), which the prover does not reach, nor ENABLED, on which fairness rests; and the three violations, which are
counterexamples and need no proof. No module declares a RECURSIVE operator.

## 5. Plan

Done, in this order: `RaftGroup` and `CounterServer` (the most important behaviour), their runs, the abstract service and the
refinement, the proofs of the three layers, the client, the life cycle and its proofs, the echo programs; then the generated
messages with their refinement, the descriptors, the echo call end to end, and the proofs of all three.

Since then: the refinement of `FetchAddService`, the order of the queue, completeness of reads, the counter's client, the echo suite's
counts and failures, the client's tally, and what parsing means.

Left:
1. `CounterServer` composed with `CounterClient`, so that redirects come from real peers and the effect of lost answers on
   the sum of acknowledged additions is visible; a bthread that cannot be started for a snapshot (server.cpp 263).
2. Proofs: action properties that deserve a run of their own (what an acknowledged read excludes later, that terms and
   indexes of a peer's state machine never go back between restarts), and the composition above.
