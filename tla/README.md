# A verification development for ptpmonkey

ptpmonkey is a C++ library that follows the IEEE 1588 (PTP) traffic of a
network: it lists the clocks it hears, decides which of them is the master, and
measures how far this machine's clock is from the master's. A daemon built on it
(`sync/`) steers the system clock. This directory holds TLA+ modules of the parts
where ordering, concurrency and arithmetic decide whether that works, the TLC
configurations that check them, and the theorems about them that TLAPS proves.
`PROJECT.json` is the index: components, runs, mutants, the lines of source each
definition stands for, findings, hazards and theorems.

## The system

| component | state | operations | what makes it correct |
|---|---|---|---|
| Clock statistics (`PtpV2Clock::stats`, `DoStats`) | two windows (offsets, delays) of at most 400 values, running sum, flag `bSet` | push a sample, delay gate, `ClearStats`, `ResyncToMaster` | windows move together; the sum is the window's; substituted values stay within what was measured; "synced" means enough samples |
| Delay measurement (`PtpV2Clock`) | times of the last Sync, awaited Follow_Up, map of requests in flight, last result | `SyncTo`, `FollowUpTo`, `DelayRequest`, `DelayResponseTo`, `GetPtpTime` | the four times of a sample belong to one Sync and one request; one sample per request |
| Registry (`PtpMonkeyImplementation`) | map of clocks, master, local clock, local identity, domain, mutex, thread | message handlers, `ChangeSyncMaster`, `SetDomain`, `Stop`, `Restart`, `Send` | master, event handlers and endpoint agree; the measured clock is the registered one; calls return |
| Sender | sequence ids, endpoint, timer, management queue | `SendDelayRequest`, `DoTimeout`, `GetTxTimestamp`, `Queue` | requests at the rate asked for, to the right place, with their own timestamp |
| Receiver, parser, dispatch | sockets, domain | wait, read, `ParseV2`, `HandleParsedMessage` | goes on receiving; passes on only messages of the domain |
| Codecs (`ptpstructs`, `mac`), `Manager` | hops and target of the Manager | build and parse messages and management TLVs, `Get`, the setters | round trips, lengths, a setting reaches one port |
| Queue of management messages (`plock_free_queue`) | linked nodes | `push`, `pop` | in order, nothing lost, no access to a deleted node |
| Sync daemon (`sync/src/ptpsync.cpp`) | lock flag, sample counter | `TrySyncToPtp`, `HardCrash`, `AdjustFrequency`, `AdjustTime` | steers towards the master, and reports a lock only when it has one |
| Configuration (`iniManager`, `iniSection`) | sections of keys | read, get, set, delete, write | what is written is read back |
| Facade, log handlers, linear regression, examples, tests, build | none of interest | | output, forwarding or third-party code |

How they interact: the two `Receiver`s, the `Sender` and every handler run in
callbacks of one `asio::io_context`, on the thread that called `run`. A Receiver
passes a datagram to the `PtpParser`, which drops other domains and calls
`PtpMonkeyHandler`, which calls the handler of `PtpMonkeyImplementation` for its
type. That handler finds or creates the sender's clock, calls the application's
event handlers, may change the master, and passes the message to the clock
object of this machine. The `Sender` asks the registry for the master before
every request, and its completion handler registers the request with the local
clock. The application calls `SetDomain`, `Stop`, `Restart`, `Send`,
`ResyncToMaster`, `ResetLocalClockStats` and the getters from its own threads;
`m_mutex` protects only some of what they share.

What is hard: messages arrive late, twice, out of order or not at all, and are
matched by 16-bit ids; the times subtracted come from two machines; two threads
share the registry, mostly without the lock; statistics feed on themselves; a
stopped system must forget, and a restarted one must not remember. The full list,
at the lines where it bites, is under "hazards".

## Modules

| module | models |
|---|---|
| `PtpStats` | the two windows: `DoStats`, the gate of `DelayResponseTo`, the resets. Variables `m_offset`, `m_delay` are the code's; `lstValues`, `dTotal`, `bSet`, `SET` its fields. Mean, least, greatest and deviation are recomputed by every push, so they are operators |
| `PtpClockStats` | `PtpStats` fed with every sequence of samples and resets (`StatsSpec`): what any clock's windows may go through |
| `PtpV2Clock` | the handlers of the local clock, one operator per method, with the message's fields as parameters; uses `PtpStats` |
| `PtpExchange` | `PtpV2Clock` with Sender, master and network: `net` is the set of messages that may still arrive (never arriving is losing, arriving again is duplicating, any order is reordering); `sending` the sends whose completion handler has not run |
| `PtpMonkeyImplementation` | the registry between the context thread (`context` says where its handler is) and an application thread (`app` says where its call is), one step per access to a shared field |
| `PtpSync` | the steering daemon: `TrySyncToPtp` cut into the load and the store of the counter, `HardCrash`, the wait for samples, `AdjustFrequency` and `AdjustTime`, for the context thread and the thread that calls `Run`; `call` says where each is and holds its locals; extends `PtpClockStats` |
| `CommonLemmas` | lemmas without constants for the proofs of several components: induction over numbers without an operator parameter, what folds over sequences therefore do, and what the conversions of `PtpFields` make of numbers, flags and texts |
| `PtpStats_proofs` | lemmas about the operators and actions of `PtpStats`, for the modules that use it, and the theorems of `PtpClockStats` |
| `PtpExchange_proofs`, `PtpMonkeyImplementation_proofs`, `PtpSync_proofs` | the theorems |
| `MessageChannel` | what `Send` promises: messages are handed over once each, in the order they were accepted in, as long as no two calls overlap |
| `LockFreeQueue` | the linked list that keeps this promise, every access to a shared pointer a step; any number of producers, one consumer |
| `Sender` | timer, gap and rate, delay requests, queued messages, completion handlers and the socket's error queue of transmit timestamps; takes its messages out of `MessageChannel` |
| `PtpFields` | the conversions between a value and its octets, and the kinds of fields there are |
| `PtpStructs` | the messages as octets: a message is a layout of named fields, with `Create` and `Read` for every kind of field |
| `ManagementTlv` | the layouts of the management TLVs as written and as read, the TLV around them and the message around that; what a Get carries |
| `Management` | a message on its way: from the Manager or the Sender to devices, their answers and announces through the receive buffer, the parser and the dispatch to the handlers, and what a `PtpV2Clock` takes over from an announce |
| `IniManager` | the configuration: `Read`, `Set`, `Delete`, `Write`, the file on a disk that fills, users and processes beside it, and what the daemon starts with |
| `Sender_proofs`, `IniManager_proofs`, `Management_proofs` | the theorems, in `Sender_proofs` those of the queue as well |
| `MC...` | the instances TLC checks |

Definitions named `X_Something` and commented "Faulty" are what `X` would be with
a plausible mistake in it. No specification uses them; each shows that a property
notices that mistake.

Times are integers. A logical message carries `origin`, the time its sender wrote
into it, and `at`, the time the receiving machine stamps it with; the physical
quantities of `PtpExchange` (offset, path delays, turnaround, timestamp error)
are parameters the code never sees: they state how good its result has to be.
Memory that no constructor initialises (`m_nFollowUpSequence`, `m_calculatedAt`,
`m_calculatedPtp`) starts with any value.

In `PtpMonkeyImplementation` the lock is modelled where the code takes it and
nowhere else. `SetDomain` holds it through five steps; `ChangeSyncMaster` tells
the event handlers first and takes it for its assignments, which are one step.
`Stop` and the handlers take no lock. A data race on the `std::map` is taken to
happen before or after the other access, and an iterator to an erased element to
keep its clock: the outcomes a build shows short of a crash.

In `LockFreeQueue` nodes are numbered in the order of their allocation and never
used again, so that an access to a deleted one can be told from an access to its
successor; a step that would make one is not taken. `misused` records that two
calls of `push` overlapped: the code has no lock for that, and after it nothing is
promised. Steps interleave: `head` and `tail` are `std::atomic`s of the default,
sequentially consistent order, and the fields of a node are written before the
store to `tail` that shows it.

In `Sender` a unit of time is the timer's period of 100 ms, and what matters of the
time since the last request is whether it exceeds the gap. `m_lastDelayReq` is not
initialised: at first it is now, long ago, or (`Unset`) so far in the future that
no request is ever due. The kernel posts a timestamp for every message sent, in
order, or drops it. `strayed` records the first time that the error queue and the
requests got out of step.

In the codecs one layout serves for `CreateMessage` and for the constructor of a
received message where the code's two functions agree on it, and two are stated
where they differ (`Layouts` as read, and what the setters write). A field is
translated by what the code does to its octets: shifts and masks from the least
octet up, sign extension by the first octet, a boolean read as "is one" or as "is
not zero", flags of which only the first is written, a text that is cut at its
declared length. Numbers too large for TLC saturate at `Huge`. `Second` and
`MaxDescription` are parameters; nothing else of the format is.

In `IniManager` lines, names, keys and values are phrases (`Phrases`): sequences of
tokens, the marks the code looks for (`Marks`) and words between them (`Words`, which
`tolower` takes to words again). `expected` is what a reader of the calls and of
the text, line by line, takes an entry's value to be, stated without the maps;
`meant` is what was last saved to a path, or read from it, while nothing else
touched the file.

In `PtpSync` a measured offset is any member of `Offsets` (what the exchange can
measure is the business of `PtpExchange`), the slope of the regression is steep or
not, and every system call may be refused. As built, every call is: `m_nHwC` stays
-1, `Run` ignores its argument and `OpenHwClock` is never called. The counter
stops at one above `MinSampleSize`; the code compares it with 1 and with
`MinSampleSize` only. `m_bUseTai` is never set and left out. Each of `HardCrash`,
`AdjustFrequency` and `AdjustTime` is one step, although the other thread might cut
in between their assignments too. `disturbed` records that, since the counter was
last set to zero, calls overlapped or one found no local clock.

## Runs

| run | bounds | shows |
|---|---|---|
| `MCPtpClockStats` | sample size 2, history 4; offsets of both signs and zero, three delays | six invariants of the windows. Windows fill, open and shut the gate, evict, and are reset at any point: eviction needs five samples, the gate three |
| `MCPtpExchange` | two sequence ids, four messages sent (`MaxTime` 16, one every 4), delays 1 to 2, timestamp error 0 to 1, history and sample size 2; one-step and two-step masters | accuracy of samples, windows and `GetPtpTime`; one sample per request; stale ids only after a wrap. Four sends are enough for a Sync and three requests: the third wraps its id around, is gated, and evicts |
| `MCPtpMonkeyImplementation` | this machine and two masters, two domains, four clock objects; unicast | agreement of master, event handler, endpoint and local clock under every interleaving; every call returns. Four objects let an identity be forgotten and met again while another becomes master |
| `MCPtpSync` | sample size and history 2, `MinSampleSize` 3, a second of 4, offsets -3, 1 and 3 of which the threes are too far, delays that open and shut the gate | the lock is final, no offset sets the clock twice, a correction stays within the window, waiting ends; under every overlap of two threads. With three calls to a lock and two values to a deviation every branch is taken, with the counter below, at and above its bounds |
| `MCLockFreeQueue` | two producers, two messages, five nodes | the queue implements `MessageChannel` (`KeepsPromise`) and nobody touches a deleted node, until two pushes overlap. Five nodes let the list empty and fill again while a push and a pop meet in its last node; two producers make the overlap happen, so that `misused` is no empty exclusion |
| `MCSender` | gaps of 1 and 2 periods, a configured rate and a slower one of the master, two sequence ids, two messages queued, two sends under way, room for two timestamps | every message accepted is sent, requests keep coming while there is a master, a request has its own timestamp until one strays. Ids wrap around, the error queue runs full, a master comes and goes |
| `MCManagement` | three ports on two clocks, five targets (one port, all ports of a clock, all clocks, none, all clocks spelt in lower case), every TLV that can be asked for or set, numbers on both sides of the sign bit, texts of length 0 to 11, each flag and several | data comes through octet by octet, in both directions; lengths agree; a setting reaches one port; changes of a clock are reported. One exchange at a time: the library keeps nothing of a request that an answer is matched with |
| `MCIniManager` | one file, a section and a key in two spellings, values with the marks of the format, three texts a user may leave, two entries at most | the last value wins whatever the spelling; what was saved is read again; the daemon runs with what was saved. Two entries are enough for one to be found under the other's spelling; the texts have a section in two parts, a header that is read as an entry, entries before any section, and comments |

Eight runs pass, with 40 properties. `CHECK_DEADLOCK FALSE` is stated where the model
stops by its bounds (no more messages, clock objects or nodes) or where the code
does: a `Restart` never returns, because it runs the context in the caller.

Four runs show that the code does not do what a comment or the documentation
says; "findings" quotes the lines.

* `MasterOfThisDomain`: a message parsed before `SetDomain` and handled after it
  brings a master of the old domain into the new one.
* `TimevalIsTheCorrection`: `Split` loses the sign of a negative fraction, so
  `AdjustTime` moves a clock that is ahead by less than a second further ahead.
* `TimestampOfThisMessage`: the first timestamp in the error queue is taken for
  that of the request just sent, and a management message leaves one there that
  nobody takes. From then on every request has the timestamp of an earlier one.
* `RateIsTheMasters`: the master's rate is written into the requests and the gap
  stays the configured one.

**Accuracy.** `SampleAccuracy`, `WindowAccuracy` and `PtpTimeLag` hold except
after one of two events that history variables record: a request sent under an id
still registered (`staleRequest`, possible only after a wrap, `StaleNeedsWrap`),
and a Follow_Up that matched an uninitialised sequence number (`strayFollowUp`).
Both are hazards of the code, not exclusions for convenience: with either, the
error is unbounded. `PtpExchange` assumes three things of the environment: a
message does not survive until its id comes round again, of `SeqSpace` consecutive
Syncs one arrives, and a send completes before its id is used for another. With
65536 ids at a few messages per second the three hold for hours.

**The lock.** `LockIsFinal` is a property of the code that its user may not want:
once `IsPtpFrequencyLocked` is true the daemon never sets the clock or its
frequency again, since `AdjustTime` zeroes the counter `HardCrash` wants above one.
The exceptions are recorded by `disturbed`: overlapping calls, and a change of
domain, whose `Run` finds no local clock and leaves the counter at one.
`CrashOnFreshSample` rests on it: an unlocked daemon has not stepped the clock since
the windows were emptied.

**What messages carry.** `SettingsComeBack` and `AnswersAreUnderstood` are round trips
with a second party that follows the standard, and `Carried` names what is lost
on the way because the code loses it: of the grandmaster's flags only the first is
written; a version number keeps four bits; the name and location of a user
description are one text split at every semicolon, so an empty name or one with a
semicolon shifts them. Several things look wrong and are not, and the properties
hold because of it: `ToStr` reads one octet past a text, which `NativeReceive` has
appended to every message; a Get without data writes the length 0 and devices
accept it. A lower-case target of all ones passes `TargetSet`, since that compares
strings, and then a setting reaches every device: `SetsReachOnePort` says so in its
hypothesis. The first announce of a clock does not bring its grandmaster,
only the second does: so says `ChangesAreReported`.

**The configuration.** `SavedIsRead` and `DaemonRunsAsSaved` exclude what `IsPlain` names:
names, keys and values with the marks of the format are written as they are and
read as something else. `Write` does not look at the stream, so a full disk leaves
half a file and an answer of success; `meant` forgets the path then. `Read` empties
the sections before it opens the file. With an `interface` configured the daemon
runs no `Sync` at all: that call is commented out.

**Refinement.** `LockFreeQueue` implements `MessageChannel`, by a refinement mapping (`Channel`) that is the identity on the two
histories and `misused`, and `Sender` extends `MessageChannel`: what it relies on is what
the queue was shown to do. `KeepsPromise` is the run's PROPERTY and a theorem.

**Fairness.** Three modules have liveness properties. `CallsReturn` of
`PtpMonkeyImplementation` assumes weak fairness of the steps of a handler that has begun,
of `m_context.run` returning once stopped, and of the steps inside a call: both
threads are scheduled by the operating system, and a mutex that is free is
acquired by the one thread waiting for it (each thread holds it for a bounded
number of steps). No message has to arrive and nobody has to call. `WaitEnds` of
`PtpSync` assumes weak fairness of the steps of a call that has begun, and says in
its own hypothesis that responses keep coming. `Sender` assumes weak fairness of the
context thread (its handlers are ready once their wait or send has completed), of
the kernel getting round to a timestamp, if only to drop it, and of time. Nobody
has to send and no master has to be there: `AcceptedIsSent` does not need one, and
`RequestsKeepComing` says in its hypothesis that there is one and that
`m_lastDelayReq` does not lie in the future.

## Proofs

TLAPS proves, for every value of the constants their assumptions allow:

* `CommonLemmas`: what the others need of folds and octets. The library states induction with an
  operator parameter, which no installed prover can instantiate; `Induction` states it
  with a set of numbers, from the least number outside the set (`LeastNatural`). A fold
  over a sequence is a function given by its value at a prefix and at one element
  more, so it exists (`FoldExists`), is the only one (`FoldsPrefixes`), and the folds
  over the prefixes of one sequence are a run of states one can do induction
  along (`FoldRuns`).
* `PtpStats_proofs`: all six invariants of the statistics. `StatsTypeOK`, `WindowsInStep`,
  `SyncedNeedsSamples` and `RunningTotal` are inductive together (`StatsInv`): that the
  windows are of one length needs that both are bounded by the same history, that a
  synced window has enough values needs that an eviction leaves a history's worth,
  and that the running total is the window's sum needs that the value subtracted is
  the one that leaves. `MinMaxReference` follows by induction along the window.
  `OffsetsWithinMeasured` needs that a mean lies between two of the values it is
  taken of, also where C++ divides towards zero (`MeanBetween` and the lemmas before it).
* `PtpExchange_proofs`: all six invariants of the exchange. `SampleAccuracy`, `WindowAccuracy`
  and `PtpTimeLag` are not inductive: a sample is accurate because of what the times
  of the messages under way have to do with what the clock has stored. `ExchangeInv`
  says it: a Sync and the Follow_Up of its id tell of one departure (`SyncTimes`), the
  Follow_Up awaited belongs to the Sync received (`AwaitedTimes`), valid Sync times are
  of one Sync (`T1Times`), a response and the request registered or still being sent
  under its id are of one exchange (`RequestTimes`, `SendingTimes`), and it arrives a
  turnaround and a path delay after it was asked for (`ResponseTimes`). The
  arithmetic of the sample is one lemma (`SampleBounds`); that what lies between two
  accurate offsets is accurate, and so is their mean, is another (`GoodBetween`); one
  lemma per action then carries the invariant through it. `OneSamplePerRequest` is
  inductive given the types: a request moves from the sends to the record to the
  window and is in one of them at a time. For `StaleNeedsWrap` one needs `IdsUsed`: until
  the ids wrap around, the next one is the number of requests and every id on
  record is below it.
* `ExchangeImplementsStats` and `SyncImplementsStats`: the exchange and the daemon are
  implementations of `StatsSpec`, the exchange for offsets and delays of any size: the
  windows of a clock on a network, and of the clock the daemon steers by, do nothing
  that the statistics alone might not.
* `PtpMonkeyImplementation_proofs`: the five safety invariants, for any set of
  identities and domains, from `RegistryInv`, which adds what a handler knows
  about the message and clock it holds (`HandlerInv`).
* `PtpSync_proofs`: `SyncTypeOK`, `LockIsFinal`, `CrashOnFreshSample` and
  `StepWithinMeasured`, from `SyncInv`. It says that under an undisturbed lock the counter is zero, or one
  from the store to the end of a call (`LockedCount`), that an undisturbed call
  decides by the offset there is (`SnapshotIsCurrent`), and that whatever set the
  clock either took the lock or emptied the windows (`UsedOffsets`). Calls that set
  the counter to zero restore all of it at once (`RestartInv`). `StepWithinMeasured` rests
  on three facts more: the clamped offset lies between the last value of the window
  and its mean (`ClampedBetween`), the mean between two values of the window, and what
  `Split` makes of a number is no larger than the number, although its sign may be
  lost (`TimevalMagnitude`).
* `Sender_proofs`: of the queue `QueueTypeOK`, `NoUseAfterFree` and the refinement
  `KeepsPromise`, for any number of producers, messages and nodes. `QueueInv` adds to
  the types that until two pushes overlap the n-th message is in node n, linked to
  node n + 1, from its push until it is taken (`NodesInOrder`), and that at most
  one push is under way and fills the last node (`OnePush`). Then every step of the
  queue is an `Accept` or a `Hand` of the channel it is mapped to, a stutter, or the step
  that makes `misused` true. Of the Sender `TypeOK` and `OwnTimestamp`. The second is
  not inductive: a request's timestamp is its own because, until one strays, the
  timestamps posted and to come are those of the requests whose completion handler
  is to run, in their order (`StampsInStep`).
* `IniManager_proofs`: all four invariants of the configuration, for files, names, keys
  and values of any length. What a recursive definition computes cannot be proved of by an
  induction theorem, so `ReadStream` is shown to be the last state of a run of `ReadLine`
  over the lines (`ReadStreamRuns`, from `CommonLemmas`), and `Write`'s text a run of
  concatenations (`FlattenIs`, there too). Along the first run the entries are those the lines so far
  give (`ReadingIsSoFar`), hence `ReadStreamAgrees`: the maps of the code and the
  lines of the text, which `EntriesOf` reads without any map, agree. Along the second
  reading is taken part by part (`ReachesConcat`): an entry's line is split where it was
  joined (`EntryLineIs`), the entries of a section fill it one by one (`EntriesReached`),
  and the sections add up to what was written, in whatever order it was
  (`RoundTrip`). `IniInv` adds to the types that the sections agree with `expected`, and that a
  running daemon runs as the sections it holds say, which are those meant. `SavedIsRead` is
  inductive with these; the write that fills the file is `RoundTrip`, a
  write the disk cuts short leaves nothing that is meant.
* `Management_proofs`: all six invariants of `Management`, for any identities, ports and
  targets, texts, flags, numbers and times, and for every octet the receive buffer may
  add. A half of it is about octets. A number is read again from its octets if it fits
  them (`CommonLemmas`, by induction along the shifts of `Octets` and the sums of
  `Number`), flags are the binary digits of the number their weights add up to, and a text is found behind
  its count; `SplitString` gives back the two parts of a description that holds no other
  separator. A layout is then read again as it was pushed if every field is suited to its value
  (`SuitedComesBack`): by induction along the layout, a field takes from the octets
  what was pushed for it and leaves the rest. That every layout the code has is such a layout
  is `AllLayouts` and `AllWritten`, and that header, action, target and TLV are where the
  readers look for them is `MessageIs` and `TlvIs`. Devices of the model answer with a sample
  of values, different in each field; `EveryTlvComesBack` says of the octets of every
  contents that they come back. The other half is the inductive
  invariant (`MessagesAreUnderstood`). `Managed`: hops and target are what the calls can set.
  `AskedWell`: the request on the network is a message made of these and of data a setting
  can have; a device that answers it reads back what was asked. `Understood`: what is on its
  way is read, whatever octet follows it, as its sender means it. `ToldWell`: so was what a handler
  has been told last. `LengthsAgree` and `SetsReachOnePort` follow from `AskedWell`,
  `SettingsComeBack` and `AnswersAreUnderstood` from `ToldWell`, `TypeOK` from the first
  three, and `ChangesAreReported` is inductive with `Understood`. TLC agrees to `Managed`, `Understood` and
  `ToldWell` on the instance of `MCManagement`.

Assumptions are the named `ASSUME`s of the modules: a sample size of two or more
(with less, the code divides zero by zero), a history of at least one, delays and errors that are
natural numbers, a local identity that is one of the identities, and among the rates
one with the longest gap (there are finitely many in the code: `m_delayRequest` is an
enumeration; without it `Saturated` has no value); that `tolower` takes words to words, changes no word
twice and leaves `ptp`, `interface` and `domain` alone, and that `None` and `Waits` are none of the
values they stand beside. `ExchangeImplementsStats` takes
`Offsets` and `Delays`, which bound what TLC feeds the statistics alone, to be all integers.

Of `Management` it is assumed that a second has at most 10^9 ticks (four octets of
nanoseconds then hold what is less), that a description has 4 to 255 characters, that
arguments are within the types of the parameters (numbers of four octets up to what
`Huge` leaves of them), that an identity is eight octets and that of a device on the
network is not one octet followed by seven zeros: a target without an identity is
written as a number and zeros, and would name such a device.

Every safety invariant of the runs is thus a theorem, and so are the two refinements of the
statistics and that of the queue. Only model-checked: `CallsReturn`, `WaitEnds`, `AcceptedIsSent`
and `RequestsKeepComing`, which are liveness under fairness.

## Not modelled

* `SE` and the linear regression, and the rounding of the running sum in floating
  point. Integer division is C++'s, towards zero.
* Counters, flags and intervals of a clock, and `OutputValues` of every message:
  they are displayed and nothing else depends on them.
* `CheckForDeadClocks`, which nothing calls: clocks are never removed one by one,
  and `ClockRemoved` is never sent.
* A sample size of zero or one; an event handler that calls back into the library;
  `SetDomain` or `ResetLocalClockStats` before there is a parser or a local clock
  (null pointers).
* Socket options, binding and joining, and control messages: timestamps come or do
  not come. A message longer than the receive buffer of 512 octets.
* `Manager` with `UsePtp4l`: a socket to another program, with a read that waits for
  an answer from an address whose family was never set.
* `Sender::Stop`, which nothing calls; the destruction of Receivers and Sender while
  their handlers wait.
* The size of the queue, which nobody asks for, and `ptpmonkeythreadsafequeue.h`,
  which is instantiated nowhere: its `exit` sets the flag without the lock.
* Two masters within one exchange (the registry's choice between them is modelled,
  without times), and the exchange composed with the daemon that steps the clock:
  neither composition is built. The exchange alone has 1.7 million states, so each
  would need smaller bounds than its parts have.
* The conversions of the configuration to doubles and booleans, and `InitLogging`.
* `SaveDetails` (a status file), `Run` on another address, a change of domain while
  the context is inside `TrySyncToPtp` (a null pointer), `OpenHwClock`.
* `m_context.run` returning for any other reason than `Stop`.

## What is left

In the order in which it matters:

1. Two masters within one exchange: a Sync of one completed by the Follow_Up of
   another whose sequence id is the same.
2. The exchange composed with `PtpSync`: a sample whose Sync was received before the
   clock was stepped.
3. Receivers and Sender destroyed while their handlers wait.
