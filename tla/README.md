# TLA+ model of greentunnelRS

greentunnelRS is an HTTP CONNECT proxy. It resolves the target, dials it, and
sends the client's first TLS record in two records cut inside the server name,
with an optional decoy connection before them and a pause between them. After
that it relays bytes both ways. This directory holds TLA+ modules for the parts
of the program that have state worth checking, TLC configurations for small
instances, and TLAPS proofs for the properties that matter most.

Paths below are relative to the Rust crate's `src/` directory.

## 1. Inventory

| Part | Source | State | Operations |
|---|---|---|---|
| Connection handler | `proxy.rs` `handle_client`, `handle_connect_tunnel`, `connect_remote_socket`, `handle_plaintext_redirect`, `handle_active_probe_defense`, `inject_fake_ttl_probe`, `transmit_tls_records`, `tunnel_bidirectional`; `utils.rs` `split_and_write`, `random_delay`, `is_http_connect`, `parse_connect_target`, `ensure_trailing_dot`, `is_padding_incompatible_domain` | one async task: two sockets, two buffers, `is_meta`, `remote_ip`, the cut | read, dispatch, resolve, guard, dial, answer, probe, split, pause, fall back, relay, end |
| ClientHello splitting | `proxy.rs` `extract_first_tls_record`, `calculate_sni_cut_offset`; `tls/fragmenter.rs` | none | pure functions of a buffer |
| Vectored writer | `proxy.rs` `write_all_vectored` | a cursor into a list of slices | skip, writev, advance |
| DNS resolver | `dns/resolver.rs` `DnsResolver` | one UDP socket per lookup | literal, query with one retry, system fallback |
| ClientHello parser and builder | `tls/parser.rs` | a cursor into a buffer | skip fields, scan extensions; build a decoy |
| DNS message codec | `dns/resolver.rs` `build_dns_query`, `parse_dns_response`, `skip_dns_name` | a cursor into a buffer | write labels; skip names, read records |
| Server | `main.rs` `main`; `proxy.rs` `run_server`, `run_worker_listener` | worker threads, a runtime and a listener each, the table of descriptors | parse, start, spawn, bind, accept, join |
| HTTP request rewriting | `utils.rs` `preprocess_http_request` and helpers, `is_http_connect`, `parse_connect_target`; the dispatch in `handle_client` | none | strip headers, insert spaces, mix case, choose the handler |
| Command line | `args.rs` `Cli::parse_from` | position in the arguments, the settings so far | one argument per iteration |
| Logging | `main.rs` `SimpleLogSubscriber` | none | format |

How they interact: `run_server` starts one thread per core. Each thread has a
listener on the same address and its own `DnsResolver`, which holds only an
address, so the workers share nothing but the configuration. `accept` spawns a
task per client, and that task is the connection handler. The task awaits the
resolver, the dial, the probe, every write and the relay in turn. What runs
concurrently with it is the client, the remote server, the network and the other
tasks. The only thing two tasks share is the kernel: UDP ports, and descriptors.

What is hard here:

* **One read stands for a message.** The request and the ClientHello are each
  read with one `read`. TCP may deliver less than the message, or more.
* **Partial writes.** `writev` may stop inside any slice.
* **A datagram is tied to a lookup by its port alone.** Transaction id, question
  and sender are not compared, and datagrams can be lost, repeated, reordered
  and late.
* **Lengths from the network move cursors.** The release profile aborts on
  panic, so one index out of range ends the process for every client.
* **Many exits.** Two lookups, the dial and every write can fail, and the client
  must see one answer that is true.
* **Half-close** of a relay in both directions.
* **Threads that start and fail on their own**, while others already serve, and
  whose failure is only logged.
* **One table of descriptors** for listeners, clients, queries, tunnels and
  probes. A task holds one while it asks for the next.
* **Text that is rewritten and then parsed again** to choose who answers.

What makes each part correct:

* Connection: one truthful status line, no connection to an address the loopback
  guard recognises, the remote's stream equals the client's, the cut is inside the
  name, probe and pause in order, a clean end only after all data but what the code
  is known to leave behind, no task left over.
* Vectored writer: no byte lost or repeated, `Ok` only when complete, `WriteZero`
  only for a closed stream, no idle iteration.
* Resolver: the answer is for the name asked, given once, and lookups end.
* Parsers: no index outside the buffer, the right name or address, bounded work.
* Server: it listens where it was told to, a process that serves goes on serving,
  a clean exit never hides clients, and tasks that run out of descriptors answer
  instead of waiting for each other.
* Command line: each option has the last well-formed value given, or its default.
* Request rewriting: the rewritten request has the handler and the target that the
  client's own text would have had, and exactly the listed headers are gone.

`PROJECT.json` lists the hazards line by line with the properties that cover them.

## 2. Modules

| Module | What it is |
|---|---|
| `TlsSplit` | operators for the ClientHello: first record, cut, two records; the remote's stream as a sequence of intervals |
| `Session` | what the proxy promises about one connection, in five variables |
| `Connection` | one task from accept to end, with client, network and remote as environment; extends `TlsSplit`, implements `Session` |
| `VectoredWrite` | `write_all_vectored` |
| `Lookup` | what `resolve` promises: one answer, of the right name, or none |
| `DnsResolver` | `resolve` and `query_udp` for concurrent lookups; implements `Lookup` |
| `SniParser` | `find_sni_info` step by step and `build_synthetic_client_hello`; extends `TlsSplit` |
| `DnsMessage` | `build_dns_query`, `parse_dns_response`, `skip_dns_name` step by step |
| `Args` | `Cli::parse_from`, one action per arm of its loop, and a reference for the whole command line |
| `Server` | `main`, `run_server`, `run_worker_listener`, and all tasks on one table of descriptors; extends `Args`, each task implements `Session` |
| `HttpRequest` | the rewriting of the request and the dispatch on the result |
| `MC*` | constants for TLC |
| `*Proofs` | theorems and their proofs |

`Connection` uses the outcome of the other components, not their steps. Its
`Resolve` is a call that returns an address or none, which is what `Lookup`
states and `DnsResolver` implements. Its vectored writes are atomic, which
`VectoredWrite` justifies (`Cursor`, `OkMeansAll`). Its `find_sni_info` says
only whether the name ends inside the buffer, which is what `FindsTheName`
checks of the real walk.

### Session

`Session` is the abstract specification of one connection: phases (`request`,
`lookup`, `dial`, `tunnel`, `probe`, `closed`), whether the client is still there,
the status lines it was sent, and how far each stream has been passed on. Its
actions say what may happen at all. A request is refused, or looked up and then
dialled; 200 is written once, when the dial succeeded; a probe comes before any
byte of the tunnel; streams only move forward; a connection ends without a word
only after a tunnel or when the client has left. `NeverStuck` adds that lookup,
dial and probe end by themselves.

Two modules implement it. `Connection` maps its stages to phases, `Position` (the
offset the remote's stream has reached) and `downFwd` to the streams, and its run
checks the whole of `Session!Spec` as `KeepsSession`. `Server` maps every one of
its tasks (`Task(c) == INSTANCE Session WITH ...`), without data, and checks
`TasksKeepSession`. A task in `Server` may therefore be read as a `Connection` of
which only answers and descriptors are visible.

### Connection

The client's uplink is one byte stream, and an offset stands for a byte.
`[0, head_end)` is the request and the rest is tunnel data. `upSent` is what has
arrived in the socket, `upRead` what the task has read. A request lists the
offsets at which a TCP segment may end (`cuts`), so short and long reads happen.
Payload bytes never appear. What the remote receives is `wire`, a sequence of
intervals of the uplink and of synthesised record headers, in which adjacent
intervals merge as they do in a TCP stream.

The request's text is abstracted to what the code distinguishes: the method
class, and a target that is none, loopback, an address literal or a domain, with
the flags Meta, `www.` and trailing dot. If the first read ends inside the
request line, any target may result.

An address is of one of four classes: `public`, `loopback` (what `is_loopback()` or
`is_unspecified()` recognises), `mapped` (such an IPv4 address written as an IPv6
one, `::ffff:127.0.0.1`, for which both tests are false) and `none`. A lookup may
bring any of them. `GuardRemoteIp` refuses what the tests recognise, so a `mapped`
address is dialled like a public one (section 5).

The request's first read may go beyond the end of the request. The code looks at
nothing there, and those bytes reach nobody. `RequestRead` is where that read
stopped, and the stream properties count from it. A client that sends tunnel data
without waiting for the 200 (`pipelines`) is the only one that can lose some there.

| Action | Code |
|---|---|
| `ConnectRequest`, `PlaintextRedirect`, `ActiveProbeDefense`, `ClientLeft` | first read and dispatch in `handle_client`, the checks of `handle_connect_tunnel` up to the resolver |
| `Resolve`, `SystemLookup` (with `GuardRemoteIp`) | both lookups and the second loopback guard |
| `Dial`, `Established` | `connect_remote_socket`, the 502 or the 200 |
| `ReadHello`, `InjectFakeTtlProbe` | read of the first flight, probe |
| `SendRecord1`, `RandomDelay`, `SendRecord2` | `transmit_tls_records` |
| `SplitAndWrite` | one chunk of the fallback |
| `CopyUp`, `CopyDown`, `ShutdownUp`, `ShutdownDown` | `copy_bidirectional` |
| `IoError` | every `?` on a socket that was reset |

A reset takes effect at the task's next read or write on that socket. Data that
was still readable before it corresponds to a behaviour in which the reset comes
later. The probe has its own socket. Only its outcome is kept, because failures
are ignored by the code.

### Server and Args

| Action | Code |
|---|---|
| `KeyValue`, `OptionThenValue`, `Ignored`, `Switch`, `HelpOrVersion` | the arms of the loop in `parse_from` |
| `Start` | `main` from the settings to `run_server`: the address, the configuration |
| `SpawnWorker`, `SpawnFails`, `JoinAll` | the two loops of `run_server` |
| `BuildRuntime`, `RuntimeFails`, `Listen`, `ListenFails` | `run_worker_listener` up to its accept loop |
| `Accept`, `AcceptFails` | one iteration of the accept loop |
| `Request`, `Lookup`, `QueryEnds`, `Dial`, `ConnectEnds`, `Hello`, `ProbeEnds`, `TaskEnds` | the spawned `handle_client`, by the descriptors it holds |

An argument is what `split_once('=')` makes of it. Spellings of an option are one
name, and a value is kept as the argument that gave it, so that parsing a number
is the question whether the word fits the option's width. `ParseMatchesReference`
compares the loop's result with a reading of the whole line.

`Held` is the set of open descriptors, each an owner and a role: a runtime has its
epoll, a worker its listener, a task the client's socket and at most the query's,
the remote's or, besides the remote's, the probe's. `Used` is its cardinality. Whatever needs one and finds the
table full takes the code's error path: accept logs and tries again, a lookup
without a socket ends in the 502, a probe is skipped. `taken` says that another
process holds the port.

### HttpRequest

A text is the sequence of lines that `split('\n')` gives, a line its words, and
white space counts only at the start of a line. The one test that wants more,
`starts_with("GET ")`, has `literal`: whether the client wrote the first word in
capitals and one space behind it. The stages are those of
`handle_client`: strip the listed headers, double the spaces, mix the case, choose
the handler, each with the loops' special cases (first line, first empty line,
trailing empty line). `DispatchedAsAsked` compares `HandlerOf` the rewritten text
with `HandlerOf` the client's own. They differ only behind a blank first line, where
the lines that are removed or cut decide which word comes first, and then only
between the 404 page and a 400. `OnlyListedHeadersGo` compares the header lines
before and after. `Connection` uses the result: which handler, which target.

`Sifted` keeps the elements of a sequence that pass a test. It stands for
`SelectSeq`, whose standard definition is recursive and opaque to the prover.

### VectoredWrite

Slices are laid end to end. `bound` lists where each one starts, so a list of any
shape, empty slices included, is a non-decreasing sequence. `idx` and `off` are
`current_slices` and `first_slice_offset`. A write takes any number of the bytes
offered by at most four slices. An open stream returns 0 only if it was offered
nothing.

### DnsResolver

A datagram is a port and a name. `Receive` takes any datagram for the lookup's
port, and its address is of the name in the datagram. `ServerAnswers` may answer
a query any number of times, `Lost` removes datagrams, and sets give reordering
and delay. `ReusePorts` says whether the kernel may hand out a port that an
earlier lookup used. `new` is modelled with every form of `--dns-addr` value.

### SniParser and DnsMessage

Each takes a buffer of bytes (for a query, a name given by its label lengths) and
has one action per field, extension, label, name byte or record. `touched` is the
set of indices the last step read or wrote. A read outside the buffer would
panic, so `InBounds` states that it never happens. `At` gives a value outside the
buffer so that a mutant can reach such a state.

What a well-formed input is, is said by predicates on bytes and offsets, and the
constants may hold any input that satisfies them. `ClientHello(h, exts, f)`: the
fields of `h` have the lengths it announces, extensions start exactly at the
offsets `exts`, and `f` names the server name among them. `WellFormed(m)`: the
entries of a reply follow one another, each name is a chain of labels that ends in
a zero or a pointer, and the counts in the header are those of the entries. A
network may cut either after any byte (`Cut`). For all other bytes (`"any"`,
`sound = FALSE`) only the properties about bounds and work are stated.

`HostsAssumption` bounds the names of decoys: the lengths in a decoy exceed the
name's by up to `FRAME`, and beyond 65 535 they would wrap in `as u16`. The name is
`--fake-sni`, which the program does not bound (section 5).

## 3. Runs

| Run | States | What it shows |
|---|---|---|
| `connection_requests` | 394 000 | `ResponseMatchesOutcome`, `GuardedDial`, `NothingAfterShutdown`, `RequestIsAnswered`, `TaskEnds`, `RelayProgress`, and `KeepsSession` (refinement of `Session`, liveness included): every kind of target, every class of address from both lookups, every outcome of the dial, segments ending inside method, line, header or after tunnel data |
| `connection_flights` | 2 428 000 | `TypeOK`, `TunnelFaithful`, `NameIsCut`, `EvasionOrder`, `CleanEndAccounted`: every shape of first flight, with every configuration, and tunnel data that comes with the request |
| `vectored_write` | 24 700 | all lists of up to five slices of up to two bytes, all patterns of partial writes |
| `dns_resolver` | 40 000 | `AnswerForName`, `KeepsPromise` (refinement of `Lookup`), `LookupEnds`: four concurrent lookups, ports used once |
| `sni_parser` | 9 400 | `InBounds`, `NameInside`, `FindsTheName`, `DecoyIsWhole`, `ScanIsBounded` |
| `dns_message` | 65 000 | `InBounds`, `QueryNamesDomain`, `FirstAddress`, `ReadingIsBounded` |
| `server` | 62 800 | `ParseMatchesReference`, `StartsAsTold`, `CleanExit`, `ServesOn`, `TasksKeepSession` (each task implements `Session`), `StartUpEnds`, `BacklogDrains`, `NoHoldAndWait` |
| `http_request` | 533 000 | `DispatchedAsAsked`, `OnlyListedHeadersGo`: 13 332 requests, both values of `literal`, all four settings, every stage |
| `meta_delay`, `trailing_lost`, `short_record`, `late_reply` | | claims the code does not meet, see section 5 |

Bounds and why they are enough:

* Connection: byte counts are the real ones (2048 and 4096 byte buffers, names of
  4, 7 and 11 bytes, records of 200 and 5000 bytes). Segment ends are chosen at
  each place where the code's behaviour changes: byte 5 and 6 (`is_client_hello`),
  the name's last byte and the one before it, one byte short of the record, its
  end, one past it, one past the buffer. A request that is sent together with tunnel
  data is read up to its end, inside the data, or with all of it. Name lengths 4, 7 and 11 are below, at
  and above the limits of the cut, with and without `www.`. Chunks of 80 and 256
  are the ends of the range drawn. One unit of downlink (`MaxDown = 1`) is enough
  because the two directions interact only through shutdown and reset.
* VectoredWrite: five slices are one more than a `writev` takes, so the list is
  refilled. With two bytes a write can end before, inside and after a slice.
* DnsResolver: two lookups that use the network are the smallest number that can
  be confused, and two more need no query.
* SniParser: ClientHellos with no, empty and misleading extensions before the
  name, cut after every byte behind the fixed part, and one with each byte of its
  variable part replaced by 0, 1, 5, 20 or 255.
* DnsMessage: label lengths around 100, 116 and 120, up to three labels; replies
  with up to two records of four kinds, cut after every byte, and one with each
  byte replaced by seven critical values.
* Server: all command lines of up to three of thirteen arguments. Three is the
  shortest line in which an option is swallowed as a value and another follows.
  The words are a number that fits 16 bits, one that fits only 32, an address with
  and one without the brackets `SocketAddr` wants. Two workers and two clients with
  six descriptors: two workers that listen hold four, so both clients can be
  accepted but then neither finds another, one tunnel leaves the other client in
  the backlog, and a worker that failed leaves room for both.
* HttpRequest: up to four lines, from twelve first lines and ten others. Two header
  lines and an empty one are what it takes for a listed header to stand first, last
  or behind the end of the block.

The inductive invariants are not checked by TLC again: they are proved, and the runs
check what follows from them. The type invariant of `Server` is proved too
(`TypeCorrect`) and is in no run.

**Deadlock** is checked in every run. A finished task stutters explicitly, and so
does a process that has exited or has no client left.

**Fairness.** `Connection` and `DnsResolver` assume weak fairness of the task's
own steps, and nothing of the peers or the network. The code justifies it as
follows: the wait for a DNS reply has a 2.5 s timeout, the system resolver and the
kernel's `connect` give up by themselves, timers fire, and a runtime thread polls
every ready task. Writes are assumed to finish, which holds for the little data of
a run because it fits the socket buffers. A peer that never reads is not modelled.
Reads from the client have no timeout in the code and none in the model: a silent
client keeps its task. The liveness properties speak only of data that has arrived
and peers that have left. `RelayProgress` says in particular that what the remote
sent before the client's first byte waits for that byte and is then delivered. A
client that waits for a greeting waits for good.

`Server` assumes weak fairness of `main`, of each worker's start-up, of `Accept` per
worker, and of the steps a task takes without a peer: lookup, dial, probe. Threads
are scheduled by the kernel. An accept loop that spins for want of descriptors runs
under tokio's cooperative budget, which makes it yield to the tasks of its runtime.
No fairness is assumed of `Request`, `Hello` and `TaskEnds`, which wait for a peer,
so `BacklogDrains` promises nothing while every descriptor is held by tunnels.

## 4. Proofs

Each `*Proofs` module proves an inductive invariant (`IInv`; in `ServerProofs`
`ServeInv` and `ParseInv`) and derives the properties from it.
`SessionProofs` builds on the invariant of `ConnectionProofs` and adds small ones of
its own. Every safety property that a passing run checks is a theorem. The proofs
hold for all values of the constants that satisfy the named assumptions:
`ConnectionAssumption`, `LayoutsAssumption`, `DnsAssumption`, `HostsAssumption`,
`InputsAssumption`, `MessagesAssumption`, `ArgsAssumption`, `ServerAssumption`,
`HttpRequestAssumption`. Most are type statements. The others say that a server name
lies behind the record header and a ClientHello record is not empty (flights), what
a well-formed ClientHello and DNS reply are, and that a decoy fits a record.

* **Connection**: `TypeCorrect`, `ResponsesMatch`, `RecognisedNeverDialled`,
  `NameAlwaysCut`, `StreamFaithful`. `RecognisedNeverDialled` is about the addresses
  the guard's tests recognise, and not about `mapped` ones. None is inductive alone. `ControlInv` says
  for each stage what was answered, dialled and resolved. `WireInv` lists the only
  five contents the remote's stream can have (nothing, part of the raw record, the
  raw record followed by relayed bytes, record 1, both records followed by
  relayed bytes) and ties them to `buf`, `done`, `split` and `upRead`. The
  stream properties are then read off these shapes. `CutInside` is the
  arithmetic of `calculate_sni_cut_offset`: for every name of more than four
  bytes, with or without `www.`, every value it can draw is inside the name.
* **Session** (`SessionProofs`): `SessionKept` proves that every step of
  `Connection` is a step of `Session` or leaves it as it is. The difficulty is that
  `Position` never falls. That follows from the shapes in `WireInv`: record 1
  reaches to the cut, record 2 or the relay to all that was read, and each chunk of
  the fallback further than the last. `QuietInv` (nothing goes to the client before
  the relay) is what allows the probe.
* **Tunnel** (`SessionProofs`): `ShutdownIsFinal`, `CleanEnd`, `EvasionOrdered`. The
  first two need `RelayEnds`: a direction is shut down only when drained and when
  its source has finished, which is then stable, and a task that ends without error
  has shut down both. `CleanEnd` says what such a task has and has not carried: all
  the remote sent, and of the client's stream everything from `RequestRead` on, but
  for the bytes behind the first record that the fallback drops. `RequestInv` adds
  that the request's read stayed within the request unless the client pipelined.
  The third needs `EvasionInv`, which follows `delayed` and `probe` through the
  stages of the first flight.
* **Server** (`ServerProofs`): `ExitIsClean`, `SessionsKept`, `ServingGoesOn` and
  `TypeCorrect`, for any number of workers, clients and descriptors. `ServeInv` says
  that a connection exists only with a listener and that workers not yet spawned do
  not run. `ServingGoesOn` says that nothing that fails after start-up takes a
  listener away; what may, during it, are a thread that cannot be spawned and a
  runtime that cannot be built.
* **Command line** (`ServerProofs`): `LineReadAsWhole` and `StartsByTheLine`, for
  command lines of any length. `ParseInv` says that the loop stands at an argument
  that is read for itself (`Heads`) and that the settings are what the line asks for
  up to there. That `Heads` is well defined, although an option may swallow the next
  argument, which might itself be an option, is `PairsExist`.
* **VectoredWrite**: `TypeCorrect`, `NoGapNoRepeat`, `OkIsComplete`, `WriteZeroMeansClosed`,
  `NeverSpins`. The invariant adds to `Cursor` that an exhausted list has offset
  0 and that nothing is unaccounted for outside the inner loop.
* **DnsResolver**: `TypeCorrect`, `AnswersMatch` and `Refines`, for `~ReusePorts`. The invariant
  is that a datagram's port was bound and that a lookup holding it asks for the
  datagram's name (`DatagramsMatch`), that no two sockets share a port (`Sockets`)
  and that a result is set exactly at the end (`ResultAtEnd`).
* **SniParser**: `NeverOutOfBounds`, `NameAlwaysInside`, `ScanEnds` for every
  buffer; `NameIsFound` for every ClientHello, cut after any byte; `DecoysAreWhole`
  for every host name a decoy can carry. `OnTrack` ties the cursor to the field the
  walk has come to and says that it has not passed the server name. That a decoy is
  a ClientHello at all is a lemma about `build_synthetic_client_hello`, read off its
  bytes one field at a time.
* **DnsMessage**: `NeverOutOfBounds`, `QueryIsComplete`, `ReadingEnds`, for every
  name and datagram; `AddressIsFirst` for every well-formed reply, cut after any
  byte. `BuildInv` is what makes the first two provable: the cursor
  is at most 12 past the offset in the name, so the limit of 100 on the name
  implies both the limit of 120 on a label and the size of the buffer. In `OnTrack`
  the count of iterations left gives the entry the walk is in, and none of the
  entries before it is an address.
* **HttpRequest**: `AnswersAsAsked` and `OnlyListedGo`, for requests of any length
  and every setting. The first keeps its exception: behind a blank first line the
  404 page and a 400 may change places. Neither is inductive. `FirstLineKept` says that of the first
  line everything that is looked at later survives each stage. `OnlyHeadersLeft`
  says that after the first stage the text is its first line, header lines, and at
  most one empty line. With it, each stage becomes a statement about one sequence
  of headers: mixing the case of a key, in which white space may hide before the
  colon, changes no key (`MixingKeys`), and sifting lines and sifting keys commute.

The installed provers cannot use the induction theorems of the library, which take a
predicate as an operator. Where a proof needs induction it takes a set in the place
of the predicate: `WFMin` gives a nonempty set of naturals its least element
(`LeastNat`), and from that follow induction on the naturals (`NatSetInduction`), on
the positions of a command line, and on sequences, one element appended at a time.

Only model-checked: liveness (`RequestIsAnswered`, `TaskEnds`, `RelayProgress`,
`LookupEnds`, `StartUpEnds`, `BacklogDrains`, `NoHoldAndWait`, and `NeverStuck` of
`Session`, that is the liveness half of `KeepsSession`), which the prover cannot
treat.

## 5. Where the code and its documents disagree

Shown by a run:

* `meta_delay`: the README says the delay is skipped for Meta's domains. The test
  is made on the host after the trailing dot was appended, which is the default,
  and `ends_with("instagram.com")` then fails.
* `trailing_lost`: the fallback writes only the first record. Bytes read behind it
  in the same read are dropped, although the comment promises to separate, not
  to discard, them.
* `short_record`: when the ClientHello is read before all of its record has
  arrived, the second header announces only the bytes read, and the rest follows
  without a header. `fragmenter.rs` promises two valid records.
* `late_reply`: a reply that arrives late at a port that another lookup has bound
  since is taken as that lookup's answer. With ports used once this cannot
  happen, and that is proved.

Met while modelling, not given a run:

* A CONNECT request whose first segment ends inside the method is answered with
  the 404 page.
* The guard on the resolved address (`proxy.rs:253`) asks `is_loopback()` and
  `is_unspecified()`, which are false for `::ffff:127.0.0.1`. When the system lookup
  brings that address the proxy connects to its own host. The guard's message
  (`proxy.rs:255`, "resolved to loopback/unspecified IP") is all the repository says
  of it. `GuardedDial` and `RecognisedNeverDialled` speak only of what the tests
  recognise.
* Tunnel bytes that are read together with the request (`proxy.rs:173`-`184`) are
  dropped, and a tunnel can end without error all the same. A client that waits for
  the 200 is not affected (`CleanEndAccounted`).
* If the request's header arrives in two segments, the second is read as the
  ClientHello and sent to the remote. The proofs therefore state the stream
  property from the place where the request read stopped.
* The README and the feature list speak of in-memory DNS caching with TTL. There
  is no cache in the code.
* `resolver.rs:97` says "Builds an RFC 1035 compliant binary DNS query packet for Type
  A IPv4 host lookup into a stack-allocated buffer." A label of 64 to 100 bytes is
  written with a length byte that DNS reserves, and empty labels vanish (`a..b` is
  asked for as `a.b`). `QueryNamesDomain` takes such a label as asked for.
* The rewritten request is never sent to anybody. It only chooses the handler and
  the target, so stripping, doubled spaces and mixed case change nothing on the
  wire. Behind a blank first line it can turn the 404 page into a 400 or back.
* A redirect for a request in origin form goes to `https://` with an empty host.
* `args.rs` promises `--option=value`, and for switches that form does nothing.
  Switches that are on by default cannot be turned off.
* A host name, or an IPv6 address without brackets, as `--bind` ends in an error.
* When no worker can bind, each failure is only logged and the process exits with 0.
* A worker whose runtime cannot be built, and a worker thread that cannot be
  spawned, take the workers that already serve with them.
* A `--fake-sni` of some 65 480 bytes and more gives a decoy whose 16-bit lengths have
  wrapped, so that it is no longer one record.
* `strip_alt_svc`, `filter_type65` and `fallback_target` are parsed and logged only.

## 6. Not modelled

* The log subscriber and the text of `--help`, pages and log lines: formatting.
* `strip_alt_svc_headers`, `find_extensions_length_offset`: marked dead code,
  never called.
* Time: a timeout or a delay is a step that may happen, without a length. How long
  a probe to a filtered port holds up the ClientHello is outside the model.
* Socket options (`nodelay`, keepalive, window size, TTL, source port rotation):
  their failures are ignored by the code and they change no state of the program.
* The ephemeral ports of `--port 0`: each worker gets its own, and the workers then
  share none.
* Scripts, container images and CI.

## 7. Plan

Done, in this order: `TlsSplit` and `Connection`; `VectoredWrite`; `Lookup` and
`DnsResolver`; `SniParser`; `DnsMessage`; `Session`, with the proof that
`Connection` implements it; `Args` and `Server`; `HttpRequest`; the proofs of
`EvasionOrder`, `CleanEndAccounted` and `NothingAfterShutdown`; the proofs about
whole inputs (command lines, ClientHellos, replies, requests) and about listeners
that stay.

Left: a composition of `Connection` and `DnsResolver` with two connections, in which
a late reply can send one client's tunnel to the other's host. `late_reply` shows
the resolver's half of it.
