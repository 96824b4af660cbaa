------------------------------- MODULE Server -------------------------------
(***************************************************************************)
(* The process: main, run_server and its worker threads, each with its own *)
(* listener on the shared port and its own runtime, and the connection     *)
(* tasks, all of which draw on one table of descriptors.  A task is seen   *)
(* here by the descriptors it holds and by what it answers; Connection has *)
(* the rest of it.                                                         *)
(***************************************************************************)
EXTENDS Args

CONSTANTS
    NumWorkers,       \* available_parallelism
    Clients,          \* connections that are made, each once
    Descriptors,      \* the process's descriptor limit
    Addresses         \* words that are an IP address as SocketAddr has it:
                      \* IPv4, or IPv6 in brackets

ASSUME ServerAssumption ==
    /\ NumWorkers \in Nat \ {0} /\ Descriptors \in Nat
    /\ Addresses \subseteq Words

Workers == 1 .. NumWorkers

VARIABLES
    bind_addr,    \* config.bind_addr
    spawned,      \* workers spawned so far
    worker,       \* none, runtime, socket, listening, gone
    owner,        \* listener the kernel chose for a connection, 0 before
    phase,        \* where a connection stands, see Phases
    left,         \* clients that closed their side
    answer,       \* status lines a client was sent
    taken         \* another process holds the port for itself

threads == <<bind_addr, spawned, worker>>
tasks   == <<owner, phase, left, answer>>
vars    == <<parseVars, threads, tasks, taken>>

Phases == {"idle", "backlog", "request", "lookup", "query", "dial",
           "connecting", "hello", "probe", "tunnel", "closed"}

Processes == {"parsing", "spawning", "joining", "exit_ok", "exit_err", "abort"}

Exited == process \in {"exit_ok", "exit_err", "abort"}

NoAddr == [ip |-> Default, port |-> Default]

Init ==
    /\ ArgsInit
    /\ bind_addr = NoAddr /\ spawned = 0
    /\ worker = [w \in Workers |-> "none"]
    /\ owner = [c \in Clients |-> 0]
    /\ phase = [c \in Clients |-> "idle"]
    /\ left = {}
    /\ answer = [c \in Clients |-> << >>]
    /\ taken \in BOOLEAN

-----------------------------------------------------------------------------
(* Descriptors that are open: a runtime's epoll and a worker's listener; a *)
(* task's client, the socket of its query or of its remote, and the probe's*)

Held ==
    {w \in Workers : worker[w] \in {"socket", "listening"}} \X {"epoll"}
    \cup {w \in Workers : worker[w] = "listening"} \X {"listener"}
    \cup {c \in Clients : phase[c] \notin {"idle", "backlog", "closed"}} \X {"client"}
    \cup {c \in Clients : phase[c] \in {"query", "connecting", "hello",
                                      "probe", "tunnel"}} \X {"peer"}
    \cup {c \in Clients : phase[c] = "probe"} \X {"probe"}

Used == Cardinality(Held)
Free == Used < Descriptors

-----------------------------------------------------------------------------
(* main and run_server.                                                    *)

Parse == ParseStep /\ UNCHANGED <<threads, tasks, taken>>

(* Mutant: bind may be a host name.                                        *)
NamesResolve(ip) == ~ip.eq

(* format!("{}:{}", bind, port) parses as a SocketAddr.                    *)
AddrParses(ip) == ip = Default \/ (~ip.eq /\ ip.left \in Addresses)

BindAddr(options) == [ip |-> options.bind, port |-> options.port]

(* The address and the configuration; args_vec and cli are gone then.      *)
Start ==
    /\ Parsed
    /\ IF AddrParses(cli.options.bind)
       THEN bind_addr' = BindAddr(cli.options) /\ process' = "spawning"
       ELSE process' = "exit_err" /\ UNCHANGED bind_addr
    /\ argv' = << >> /\ i' = 1
    /\ cli' = [options |-> [f \in ValueOptions |-> Default], switches |-> {}]
    /\ UNCHANGED <<spawned, worker, tasks, taken>>

SpawnWorker ==
    /\ process = "spawning"
    /\ spawned' = spawned + 1
    /\ worker' = [worker EXCEPT ![spawned'] = "runtime"]
    /\ process' = IF spawned' = NumWorkers THEN "joining" ELSE process
    /\ UNCHANGED <<argv, i, cli, bind_addr, tasks, taken>>

(* spawn()?: the error leaves main; workers that serve already go with it. *)
SpawnFails ==
    /\ process = "spawning"
    /\ process' = "exit_err"
    /\ UNCHANGED <<argv, i, cli, threads, tasks, taken>>

JoinAll ==
    /\ process = "joining"
    /\ \A w \in Workers : worker[w] = "gone"
    /\ process' = "exit_ok"
    /\ UNCHANGED <<argv, i, cli, threads, tasks, taken>>

-----------------------------------------------------------------------------
(* run_worker_listener.                                                    *)

BuildRuntime(w) ==
    /\ worker[w] = "runtime" /\ Free
    /\ worker' = [worker EXCEPT ![w] = "socket"]
    /\ UNCHANGED <<parseVars, bind_addr, spawned, tasks, taken>>

(* expect(): a panic ends the process where panics abort (release builds), *)
(* elsewhere the thread.                                                   *)
RuntimeFails(w) ==
    /\ worker[w] = "runtime"
    /\ \/ process' = "abort" /\ UNCHANGED worker
       \/ worker' = [worker EXCEPT ![w] = "gone"] /\ UNCHANGED process
    /\ UNCHANGED <<argv, i, cli, bind_addr, spawned, tasks, taken>>

Listen(w) ==
    /\ worker[w] = "socket" /\ Free /\ ~taken
    /\ worker' = [worker EXCEPT ![w] = "listening"]
    /\ UNCHANGED <<parseVars, bind_addr, spawned, tasks, taken>>

(* Mutant: a port that is in use is tried again.                           *)
ListenRetried(w) == worker[w] = "socket" /\ UNCHANGED vars

(* Mutant: a bind that fails panics as the runtime's expect() does.        *)
ListenPanics(w) ==
    /\ worker[w] = "socket"
    /\ process' = "abort"
    /\ UNCHANGED <<argv, i, cli, threads, tasks, taken>>

(* socket, bind, listen or from_std: logged by the thread, which ends.     *)
ListenFails(w) ==
    /\ worker[w] = "socket"
    /\ worker' = [worker EXCEPT ![w] = "gone"]
    /\ UNCHANGED <<parseVars, bind_addr, spawned, tasks, taken>>

(* Moves connection c from a phase to another.                             *)
Step(c, from, to) ==
    phase[c] = from /\ phase' = [phase EXCEPT ![c] = to]

Waiting(w) ==
    {c \in Clients : worker[w] = "listening" /\ phase[c] = "backlog" /\ owner[c] = w}

Accept(w) ==
    /\ Free
    /\ \E c \in Waiting(w) : Step(c, "backlog", "request")
    /\ UNCHANGED <<parseVars, threads, owner, left, answer, taken>>

(* Mutant: an accept error ends the loop.                                  *)
AcceptErrorEnds(w) ==
    /\ ~Free /\ Waiting(w) # {}
    /\ worker' = [worker EXCEPT ![w] = "gone"]
    /\ UNCHANGED <<parseVars, bind_addr, spawned, tasks, taken>>

(* accept without a free descriptor: logged, and tried again at once.      *)
AcceptFails(w) == ~Free /\ Waiting(w) # {} /\ UNCHANGED vars

-----------------------------------------------------------------------------
(* The connection tasks.                                                   *)

(* A task moves on; or writes its last word and returns.                   *)
Moves(c, from, to) ==
    /\ Step(c, from, to)
    /\ UNCHANGED <<parseVars, threads, owner, left, answer, taken>>

Returns(c, from, statuses) ==
    /\ Step(c, from, "closed")
    /\ \E s \in statuses : answer' = [answer EXCEPT ![c] = Append(@, s)]
    /\ UNCHANGED <<parseVars, threads, owner, left, taken>>

Request(c) ==
    Moves(c, "request", "lookup") \/ Returns(c, "request", {301, 400, 403, 404})

(* Mutant: a lookup that cannot open a socket is an error of the task.     *)
LookupOrError(c) ==
    \/ Free /\ Moves(c, "lookup", "query")
    \/ Moves(c, "lookup", "dial")
    \/ ~Free /\ Moves(c, "lookup", "closed")

(* An address needs no socket; a name needs one, and neither the query nor *)
(* the system's lookup gives an address without.                           *)
Lookup(c) ==
    \/ Free /\ Moves(c, "lookup", "query")
    \/ Moves(c, "lookup", "dial")
    \/ ~Free /\ Returns(c, "lookup", {502})

QueryEnds(c) ==
    Moves(c, "query", "dial") \/ Returns(c, "query", {403, 502})

(* Mutant: a task waits for a descriptor as for a permit of a pool.        *)
DialWaits(c) == Free /\ Moves(c, "dial", "connecting")

(* connect_remote_socket: creating the socket, then connect.               *)
Dial(c) ==
    \/ Free /\ Moves(c, "dial", "connecting")
    \/ ~Free /\ Returns(c, "dial", {502})

ConnectEnds(c) ==
    \/ /\ Step(c, "connecting", "hello")
       /\ answer' = [answer EXCEPT ![c] = <<200>>]
       /\ UNCHANGED <<parseVars, threads, owner, left, taken>>
    \/ Returns(c, "connecting", {502})

(* The first flight: with a probe if one is due and its socket can be had. *)
Hello(c) ==
    \/ Free /\ Moves(c, "hello", "probe")
    \/ Moves(c, "hello", "tunnel")

ProbeEnds(c) == Moves(c, "probe", "tunnel")

(* The relay ends, or a read or a write meets a client that has left.      *)
TaskEnds(c) ==
    /\ phase[c] \in {"request", "lookup", "query", "dial", "connecting", "hello"}
           => c \in left
    /\ phase[c] \notin {"idle", "backlog", "probe", "closed"}
    /\ Moves(c, phase[c], "closed")

-----------------------------------------------------------------------------
(* Environment.                                                            *)

(* The kernel gives a connection to one of the listeners.                  *)
ClientConnects(c) ==
    /\ \E w \in Workers : worker[w] = "listening" /\ owner' = [owner EXCEPT ![c] = w]
    /\ Step(c, "idle", "backlog")
    /\ UNCHANGED <<parseVars, threads, left, answer, taken>>

(* A client that leaves in the middle of a lookup or a dial is only noticed*)
(* afterwards.                                                             *)
ClientLeaves(c) ==
    /\ phase[c] \in {"request", "hello", "tunnel"} /\ c \notin left
    /\ left' = left \cup {c}
    /\ UNCHANGED <<parseVars, threads, owner, phase, answer, taken>>

MainStep == Parse \/ Start \/ SpawnWorker \/ SpawnFails \/ JoinAll

StartUp(w) == BuildRuntime(w) \/ RuntimeFails(w) \/ Listen(w) \/ ListenFails(w)

(* What a task does by itself, without a word from a peer.                 *)
OwnStep(c) ==
    Lookup(c) \/ QueryEnds(c) \/ Dial(c) \/ ConnectEnds(c) \/ ProbeEnds(c)

(* Nothing left to do: the process is over, or every worker waits in accept*)
(* and there are no more clients.                                          *)
Done == (Exited \/ \A c \in Clients : phase[c] = "closed") /\ UNCHANGED vars

Next ==
    \/ /\ ~Exited
       /\ \/ MainStep
          \/ \E w \in Workers : StartUp(w) \/ Accept(w) \/ AcceptFails(w)
          \/ \E c \in Clients :
                \/ ClientConnects(c) \/ ClientLeaves(c)
                \/ Request(c) \/ OwnStep(c) \/ Hello(c) \/ TaskEnds(c)
    \/ Done

(* Threads are scheduled; a runtime polls every task that is ready, also   *)
(* while its accept loop spins, for that loop runs under tokio's budget;   *)
(* lookups, connects and probes end by themselves.  Nothing obliges the    *)
(* clients.                                                                *)
Fairness ==
    /\ WF_vars(~Exited /\ MainStep)
    /\ \A w \in Workers : /\ WF_vars(~Exited /\ StartUp(w))
                          /\ WF_vars(~Exited /\ Accept(w))
    /\ \A c \in Clients : WF_vars(~Exited /\ OwnStep(c))

Spec == Init /\ [][Next]_vars /\ Fairness

-----------------------------------------------------------------------------
(* Properties.                                                             *)

(* Type invariant.                                                         *)
TypeOK ==
    /\ argv \in Seq(Argument) /\ i \in 1 .. Len(argv) + 1
    /\ cli \in Cli /\ process \in Processes
    /\ bind_addr.ip \in Argument \cup {Default}
    /\ bind_addr.port \in Argument \cup {Default}
    /\ spawned \in 0 .. NumWorkers
    /\ worker \in [Workers -> {"none", "runtime", "socket", "listening", "gone"}]
    /\ owner \in [Clients -> 0 .. NumWorkers]
    /\ phase \in [Clients -> Phases] /\ left \subseteq Clients
    /\ answer \in [Clients -> Seq({200, 301, 400, 403, 404, 502})]
    /\ taken \in BOOLEAN

(* From the command line to run_server: main listens at the address that   *)
(* the last well-formed --bind and --port ask for, or its defaults, exits  *)
(* with an error if that is no address, and with 0 for help and version.   *)
StartsAsTold ==
    [][process = "parsing" /\ process' # process =>
         LET ip == Asked(argv, "bind")
         IN  IF AsksForHelp(argv) THEN process' = "exit_ok"
             ELSE IF ip = Default \/ (~ip.eq /\ ip.left \in Addresses)
             THEN /\ process' = "spawning"
                  /\ bind_addr' = [ip |-> ip, port |-> Asked(argv, "port")]
             ELSE process' = "exit_err"]_vars

(* run_server returns Ok, and the process exits with 0, only if no worker  *)
(* could listen: it is never the end of a process that had clients.        *)
CleanExit == process = "exit_ok" => \A c \in Clients : phase[c] = "idle"

(* A process that serves goes on serving: a listener ends only with the    *)
(* process, and the process ends over it only while run_server still       *)
(* spawns workers (spawn()?, proxy.rs:103) or a worker builds its runtime  *)
(* (expect, proxy.rs:94).  No failing bind, accept or task, and nothing    *)
(* after start-up, ends it.                                                *)
ServesOn ==
    [][(\E w \in Workers : worker[w] = "listening") =>
         /\ \A w \in Workers : worker[w] = "listening" => worker'[w] = "listening"
         /\ \/ process' \in {process, "joining"}
            \/ process = "spawning" /\ process' = "exit_err"
            \/ process' = "abort" /\ \E v \in Workers : worker[v] = "runtime"]_vars

SessionPhase(c) ==
    CASE phase[c] \in {"idle", "backlog"} -> "request"
      [] phase[c] = "query"               -> "lookup"
      [] phase[c] = "connecting"          -> "dial"
      [] phase[c] = "hello"               -> "tunnel"
      [] OTHER                            -> phase[c]

Task(c) == INSTANCE Session WITH
    Up <- {0}, up <- 0, down <- 0, client <- c \notin left,
    answer <- answer[c], phase <- SessionPhase(c)

(* Each task keeps the promises of Session as long as the process lives,   *)
(* also when the descriptors run out: a client that stays is answered.     *)
TasksKeepSession ==
    [][\A c \in Clients : Task(c)!Next \/ UNCHANGED Task(c)!vars \/ Exited']_vars

(* Start-up ends: some worker listens, or the process is over.             *)
StartUpEnds == <>(Exited \/ \E w \in Workers : worker[w] = "listening")

(* No client waits for ever in front of a process that has a descriptor to *)
(* spare: accept errors never cost a listener.                             *)
BacklogDrains ==
    \A c \in Clients : []<>(phase[c] # "backlog" \/ ~Free \/ Exited)

(* A task that holds one descriptor and needs another never waits for it:  *)
(* lookups, dials and probes end although nothing may ever be given back.  *)
NoHoldAndWait ==
    \A c \in Clients :
        []<>(phase[c] \notin {"lookup", "query", "dial", "connecting", "probe"} \/ Exited)
=============================================================================
