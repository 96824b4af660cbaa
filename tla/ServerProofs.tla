---------------------------- MODULE ServerProofs ----------------------------
(* Proofs about the process, for every number of workers, clients and      *)
(* descriptors and every command line.                                     *)
EXTENDS Server, WellFoundedInduction, TLAPS

(* Clients reach tasks only through a listener, a listener is never given  *)
(* up, and there is none before the workers are spawned.                   *)
ServeInv ==
    /\ worker \in [Workers -> {"none", "runtime", "socket", "listening", "gone"}]
    /\ phase \in [Clients -> Phases]
    /\ answer \in [Clients -> Seq({200, 301, 400, 403, 404, 502})]
    /\ process \in Processes
    /\ spawned \in 0 .. NumWorkers
    /\ process = "parsing" => spawned = 0
    /\ process = "spawning" => spawned < NumWorkers
    /\ \A w \in Workers : w > spawned => worker[w] = "none"
    /\ (\E c \in Clients : phase[c] # "idle") =>
          \E w \in Workers : worker[w] = "listening"
    /\ CleanExit

(* What a connection does changes neither threads nor the process.         *)
LEMMA ClientSteps ==
    ASSUME NEW c \in Clients, ServeInv, ~Exited,
           \/ ClientConnects(c) \/ ClientLeaves(c)
           \/ Request(c) \/ OwnStep(c) \/ Hello(c) \/ TaskEnds(c)
    PROVE  /\ UNCHANGED <<process, worker, spawned>>
           /\ \/ phase' = phase
              \/ \E from, to \in Phases :
                    /\ phase[c] = from /\ phase' = [phase EXCEPT ![c] = to]
                    /\ from # "idle" \/ \E w \in Workers : worker[w] = "listening"
           /\ \/ answer' = answer
              \/ \E s \in {200, 301, 400, 403, 404, 502} :
                    answer' = [answer EXCEPT ![c] = Append(@, s)]
              \/ answer' = [answer EXCEPT ![c] = <<200>>]
  <1>1. CASE ClientConnects(c)
    BY <1>1 DEF ClientConnects, Step, parseVars, threads, Phases
  <1>2. CASE ClientLeaves(c) BY <1>2 DEF ClientLeaves, parseVars, threads
  <1>3. CASE Request(c)
    BY <1>3 DEF Request, Moves, Returns, Step, parseVars, threads, Phases
  <1>4. CASE Lookup(c)
    BY <1>4 DEF Lookup, Moves, Returns, Step, parseVars, threads, Phases
  <1>5. CASE QueryEnds(c)
    BY <1>5 DEF QueryEnds, Moves, Returns, Step, parseVars, threads, Phases
  <1>6. CASE Dial(c)
    BY <1>6 DEF Dial, Moves, Returns, Step, parseVars, threads, Phases
  <1>7. CASE ConnectEnds(c)
    BY <1>7 DEF ConnectEnds, Returns, Step, parseVars, threads, Phases
  <1>8. CASE Hello(c) \/ ProbeEnds(c)
    BY <1>8 DEF Hello, ProbeEnds, Moves, Step, parseVars, threads, Phases
  <1>9. CASE TaskEnds(c)
    <2>1. phase[c] \in Phases BY DEF ServeInv
    <2>2. QED
      BY <1>9, <2>1 DEF TaskEnds, Moves, Step, parseVars, threads, Phases
  <1>10. QED
    BY <1>1, <1>2, <1>3, <1>4, <1>5, <1>6, <1>7, <1>8, <1>9 DEF OwnStep

(* A worker that starts up has been spawned and does not listen yet.       *)
LEMMA StartUpSteps ==
    ASSUME NEW w \in Workers, ServeInv, StartUp(w)
    PROVE  /\ UNCHANGED <<spawned, phase, answer>>
           /\ process' \in {process, "abort"}
           /\ worker[w] \in {"runtime", "socket"}
           /\ \/ worker' = worker
              \/ \E s \in {"socket", "listening", "gone"} :
                    worker' = [worker EXCEPT ![w] = s]
  <1>1. CASE BuildRuntime(w)
    BY <1>1 DEF BuildRuntime, parseVars, tasks
  <1>2. CASE RuntimeFails(w)
    BY <1>2 DEF RuntimeFails, tasks
  <1>3. CASE Listen(w) BY <1>3 DEF Listen, parseVars, tasks
  <1>4. CASE ListenFails(w) BY <1>4 DEF ListenFails, parseVars, tasks
  <1>5. QED BY <1>1, <1>2, <1>3, <1>4 DEF StartUp

(* Nothing a connection does ends the process or a listener.               *)
LEMMA ClientServe ==
    ASSUME NEW c \in Clients, ServeInv, ~Exited,
           \/ ClientConnects(c) \/ ClientLeaves(c)
           \/ Request(c) \/ OwnStep(c) \/ Hello(c) \/ TaskEnds(c)
    PROVE  ServeInv'
  <1>1. UNCHANGED <<process, worker, spawned>> BY ClientSteps
  <1>2. phase' \in [Clients -> Phases]
    <2>1. phase \in [Clients -> Phases] BY DEF ServeInv
    <2>2. CASE phase' = phase BY <2>1, <2>2
    <2>3. ASSUME NEW to \in Phases, phase' = [phase EXCEPT ![c] = to]
          PROVE  phase' \in [Clients -> Phases]
      BY <2>1, <2>3
    <2>4. QED BY <2>2, <2>3, ClientSteps
  <1>3. answer' \in [Clients -> Seq({200, 301, 400, 403, 404, 502})]
    <2>1. answer \in [Clients -> Seq({200, 301, 400, 403, 404, 502})]
      BY DEF ServeInv
    <2>2. \A s \in {200, 301, 400, 403, 404, 502} :
             Append(answer[c], s) \in Seq({200, 301, 400, 403, 404, 502})
      BY <2>1
    <2>3. <<200>> \in Seq({200, 301, 400, 403, 404, 502}) OBVIOUS
    <2>4. CASE answer' = answer BY <2>1, <2>4
    <2>5. ASSUME NEW s \in {200, 301, 400, 403, 404, 502},
                 answer' = [answer EXCEPT ![c] = Append(@, s)]
          PROVE  answer' \in [Clients -> Seq({200, 301, 400, 403, 404, 502})]
      <3>1. Append(answer[c], s) \in Seq({200, 301, 400, 403, 404, 502})
        BY <2>2
      <3>2. QED BY <2>1, <2>5, <3>1
    <2>6. CASE answer' = [answer EXCEPT ![c] = <<200>>]
      BY <2>1, <2>3, <2>6
    <2>7. QED BY <2>4, <2>5, <2>6, ClientSteps
  <1>4. (\E d \in Clients : phase'[d] # "idle") =>
            \E w \in Workers : worker[w] = "listening"
    BY ClientSteps DEF ServeInv
  <1>5. process # "exit_ok" BY DEF Exited
  <1>6. QED BY <1>1, <1>2, <1>3, <1>4, <1>5 DEF ServeInv, CleanExit

(* Parsing, start, spawning and joining keep the listeners.                *)
LEMMA MainServe == ASSUME ServeInv, ~Exited, MainStep PROVE ServeInv'
  <1>1. UNCHANGED <<phase, answer>>
    BY DEF MainStep, Parse, Start, SpawnWorker, SpawnFails, JoinAll, tasks
  <1>2. CASE Parse
    <2>1. /\ process = "parsing" /\ process' \in {"parsing", "exit_ok"}
          /\ UNCHANGED <<worker, spawned>>
      BY <1>2 DEF Parse, ParseStep, KeyValue, OptionThenValue, Ignored, Switch,
                  HelpOrVersion, Looping, threads
    <2>2. \A c \in Clients : phase[c] = "idle"
      BY <2>1 DEF ServeInv, Workers
    <2>3. QED BY <1>1, <2>1, <2>2 DEF ServeInv, CleanExit, Processes
  <1>3. CASE Start
    <2>1. /\ process = "parsing" /\ process' \in {"spawning", "exit_err"}
          /\ UNCHANGED <<worker, spawned>>
      BY <1>3 DEF Start, Parsed
    <2>2. spawned = 0 /\ spawned < NumWorkers
      BY <2>1, ServerAssumption DEF ServeInv
    <2>3. QED BY <1>1, <2>1, <2>2 DEF ServeInv, CleanExit, Processes
  <1>4. CASE SpawnWorker
    <2>1. /\ process = "spawning" /\ spawned' = spawned + 1
          /\ worker' = [worker EXCEPT ![spawned'] = "runtime"]
          /\ process' = IF spawned' = NumWorkers THEN "joining" ELSE process
      BY <1>4 DEF SpawnWorker
    <2>2. spawned \in Nat /\ spawned < NumWorkers /\ NumWorkers \in Nat
      BY <2>1, ServerAssumption DEF ServeInv
    <2>3. spawned' \in Workers /\ worker[spawned'] = "none"
      BY <2>1, <2>2 DEF ServeInv, Workers
    <2>4. spawned' \in 0 .. NumWorkers /\ (process' = "spawning" => spawned' < NumWorkers)
      BY <2>1, <2>2
    <2>5. worker' \in [Workers -> {"none", "runtime", "socket", "listening", "gone"}]
      BY <2>1, <2>3 DEF ServeInv
    <2>6. \A w \in Workers : w > spawned' => worker'[w] = "none"
      BY <2>1, <2>2, <2>3 DEF ServeInv, Workers
    <2>7. \A w \in Workers : worker[w] = "listening" => worker'[w] = "listening"
      BY <2>1, <2>3 DEF ServeInv
    <2>8. process' \in {"spawning", "joining"} BY <2>1
    <2>9. QED
      BY <1>1, <2>4, <2>5, <2>6, <2>7, <2>8 DEF ServeInv, CleanExit, Processes
  <1>5. CASE SpawnFails
    BY <1>1, <1>5 DEF SpawnFails, ServeInv, CleanExit, Processes, threads
  <1>6. CASE JoinAll
    <2>1. /\ process' = "exit_ok" /\ UNCHANGED <<worker, spawned>>
          /\ \A w \in Workers : worker[w] = "gone"
      BY <1>6 DEF JoinAll, threads
    <2>2. \A c \in Clients : phase[c] = "idle" BY <2>1 DEF ServeInv
    <2>3. QED BY <1>1, <2>1, <2>2 DEF ServeInv, CleanExit, Processes
  <1>7. QED BY <1>2, <1>3, <1>4, <1>5, <1>6 DEF MainStep

(* A worker's steps: a listener accepts for good.                          *)
LEMMA WorkerServe ==
    ASSUME NEW w \in Workers, ServeInv, ~Exited, StartUp(w) \/ Accept(w)
    PROVE  ServeInv'
  <1>1. CASE StartUp(w)
    <2>1. \/ worker' = worker
          \/ \E s \in {"socket", "listening", "gone"} :
                worker' = [worker EXCEPT ![w] = s]
      BY <1>1, StartUpSteps
    <2>2. /\ UNCHANGED <<spawned, phase, answer>>
          /\ process' \in {process, "abort"}
          /\ worker[w] \in {"runtime", "socket"}
      BY <1>1, StartUpSteps
    <2>3. worker' \in [Workers -> {"none", "runtime", "socket", "listening", "gone"}]
      BY <2>1 DEF ServeInv
    <2>4. \A v \in Workers : v > spawned => worker'[v] = "none"
      BY <2>1, <2>2 DEF ServeInv
    <2>5. \A v \in Workers : worker[v] = "listening" => worker'[v] = "listening"
      BY <2>1, <2>2 DEF ServeInv
    <2>6. process' # "exit_ok" BY <2>2 DEF Exited
    <2>7. QED
      BY <2>2, <2>3, <2>4, <2>5, <2>6 DEF ServeInv, CleanExit, Processes
  <1>2. CASE Accept(w)
    <2>1. PICK c \in Waiting(w) : Step(c, "backlog", "request")
      BY <1>2 DEF Accept
    <2>2. c \in Clients /\ worker[w] = "listening" BY <2>1 DEF Waiting
    <2>3. phase' = [phase EXCEPT ![c] = "request"]
          /\ UNCHANGED <<process, worker, spawned, answer>>
      BY <1>2, <2>1 DEF Accept, Step, parseVars, threads
    <2>4. phase' \in [Clients -> Phases]
      BY <2>2, <2>3 DEF ServeInv, Phases
    <2>5. process # "exit_ok" BY DEF Exited
    <2>6. QED BY <2>2, <2>3, <2>4, <2>5 DEF ServeInv, CleanExit
  <1>3. QED BY <1>1, <1>2

(* ServeInv is kept by every step.                                         *)
LEMMA ServeStep == ServeInv /\ [Next]_vars => ServeInv'
  <1> SUFFICES ASSUME ServeInv, [Next]_vars PROVE ServeInv' OBVIOUS
  <1>1. CASE UNCHANGED vars
    BY <1>1 DEF vars, parseVars, threads, tasks, ServeInv, CleanExit
  <1>2. CASE ~Exited /\ Next
    <2>1. CASE MainStep BY <1>2, <2>1, MainServe
    <2>2. ASSUME NEW w \in Workers, StartUp(w) \/ Accept(w) PROVE ServeInv'
      BY <1>2, <2>2, WorkerServe
    <2>3. ASSUME NEW c \in Clients,
                 \/ ClientConnects(c) \/ ClientLeaves(c)
                 \/ Request(c) \/ OwnStep(c) \/ Hello(c) \/ TaskEnds(c)
          PROVE  ServeInv'
      BY <1>2, <2>3, ClientServe
    <2>4. QED
      BY <1>1, <1>2, <2>1, <2>2, <2>3 DEF Next, Done, AcceptFails
  <1>3. CASE Exited /\ Next BY <1>1, <1>3 DEF Next, Done
  <1>4. QED BY <1>1, <1>2, <1>3

(* No worker listens when main starts.                                     *)
LEMMA ServeInit == Init => ServeInv
  <1> SUFFICES ASSUME Init PROVE ServeInv OBVIOUS
  <1>1. << >> \in Seq({200, 301, 400, 403, 404, 502}) OBVIOUS
  <1>2. answer \in [Clients -> Seq({200, 301, 400, 403, 404, 502})]
    BY <1>1 DEF Init
  <1>3. QED
    BY <1>2, ServerAssumption
       DEF Init, ArgsInit, ServeInv, CleanExit, Phases, Processes, Workers

(* ServeInv holds in every reachable state.                                *)
THEOREM Inductive == Spec => []ServeInv
  BY ServeInit, ServeStep, PTL DEF Spec

(* run_server never returns Ok while it has, or had, clients: however the  *)
(* workers start and fail, a clean exit means that nobody was served.      *)
THEOREM ExitIsClean == Spec => []CleanExit
  <1>1. ServeInv => CleanExit BY DEF ServeInv
  <1>2. QED BY <1>1, Inductive, PTL

-----------------------------------------------------------------------------
(* Every task keeps the promises of Session.                               *)

(* What a step leaves alone it leaves alone in the session.                *)
LEMMA SessionStill ==
    ASSUME NEW c \in Clients, phase'[c] = phase[c], answer'[c] = answer[c],
           c \in left' <=> c \in left
    PROVE  UNCHANGED Task(c)!vars
  <1>1. SessionPhase(c)' = SessionPhase(c) BY DEF SessionPhase
  <1>2. (c \notin left)' = (c \notin left) OBVIOUS
  <1>3. QED BY <1>1, <1>2 DEF Task!vars

(* The session phase of each phase of a task.                              *)
LEMMA SessionPhases ==
    ASSUME NEW c \in Clients
    PROVE  /\ phase[c] \in {"idle", "backlog", "request"} => SessionPhase(c) = "request"
           /\ phase[c] \in {"lookup", "query"} => SessionPhase(c) = "lookup"
           /\ phase[c] \in {"dial", "connecting"} => SessionPhase(c) = "dial"
           /\ phase[c] \in {"hello", "tunnel"} => SessionPhase(c) = "tunnel"
           /\ phase[c] = "probe" => SessionPhase(c) = "probe"
           /\ phase[c] = "closed" => SessionPhase(c) = "closed"
  BY DEF SessionPhase

(* And after a step.                                                       *)
LEMMA SessionPhasesNext ==
    ASSUME NEW c \in Clients
    PROVE  /\ phase'[c] \in {"idle", "backlog", "request"} => SessionPhase(c)' = "request"
           /\ phase'[c] \in {"lookup", "query"} => SessionPhase(c)' = "lookup"
           /\ phase'[c] \in {"dial", "connecting"} => SessionPhase(c)' = "dial"
           /\ phase'[c] \in {"hello", "tunnel"} => SessionPhase(c)' = "tunnel"
           /\ phase'[c] = "probe" => SessionPhase(c)' = "probe"
           /\ phase'[c] = "closed" => SessionPhase(c)' = "closed"
  BY DEF SessionPhase

(* A step of a task from one phase to another of the session.              *)
LEMMA SessionMoves ==
    ASSUME NEW c \in Clients, ServeInv, NEW from, NEW to, Moves(c, from, to),
           \/ from = "request" /\ to = "lookup"
           \/ from = "lookup" /\ to \in {"query", "dial"}
           \/ from = "query" /\ to = "dial"
           \/ from = "dial" /\ to = "connecting"
           \/ from = "hello" /\ to \in {"probe", "tunnel"}
           \/ from = "probe" /\ to = "tunnel"
    PROVE  Task(c)!Next \/ UNCHANGED Task(c)!vars
  <1>1. /\ phase[c] = from /\ phase'[c] = to
        /\ left' = left /\ answer' = answer
    BY DEF Moves, Step, ServeInv
  <1>2. (c \notin left)' = (c \notin left) BY <1>1
  <1>3. QED
    BY <1>1, <1>2, SessionPhases, SessionPhasesNext
       DEF Task!Next, Task!Move, Task!Probe, Task!vars

(* A refusal with a status the session allows there.                       *)
LEMMA SessionReturns ==
    ASSUME NEW c \in Clients, ServeInv, NEW from, NEW statuses,
           Returns(c, from, statuses),
           \/ from = "request" /\ statuses = Task(c)!Refusals
           \/ from = "lookup" /\ statuses \subseteq {403, 502}
           \/ from = "query" /\ statuses \subseteq {403, 502}
           \/ from \in {"dial", "connecting"} /\ statuses = {502}
    PROVE  Task(c)!Next
  <1>1. /\ phase[c] = from /\ phase'[c] = "closed" /\ left' = left
        /\ \E s \in statuses : answer'[c] = Append(answer[c], s)
    BY DEF Returns, Step, ServeInv
  <1>2. (c \notin left)' = (c \notin left) BY <1>1
  <1>3. SessionPhase(c)' = "closed" BY <1>1, SessionPhasesNext
  <1>4. ASSUME NEW f \in {"request", "lookup", "dial"}, NEW S,
               SessionPhase(c) = f, statuses \subseteq S
        PROVE  Task(c)!Refuse(f, S)
    BY <1>1, <1>2, <1>3, <1>4 DEF Task!Refuse
  <1>5. CASE from = "request" /\ statuses = Task(c)!Refusals
    <2>1. Task(c)!Refuse("request", Task(c)!Refusals)
      BY <1>1, <1>4, <1>5, SessionPhases
    <2>2. QED BY <2>1 DEF Task!Next
  <1>6. CASE from \in {"lookup", "query"} /\ statuses \subseteq {403, 502}
    <2>1. Task(c)!Refuse("lookup", {403, 502})
      BY <1>1, <1>4, <1>6, SessionPhases
    <2>2. QED BY <2>1 DEF Task!Next
  <1>7. CASE from \in {"dial", "connecting"} /\ statuses = {502}
    <2>1. Task(c)!Refuse("dial", {502})
      BY <1>1, <1>4, <1>7, SessionPhases
    <2>2. QED BY <2>1 DEF Task!Next
  <1>8. QED BY <1>5, <1>6, <1>7

(* The 200, and the ends without a word.                                   *)
LEMMA SessionEnds ==
    ASSUME NEW c \in Clients, ServeInv,
           \/ ConnectEnds(c) /\ phase'[c] = "hello"
           \/ TaskEnds(c)
           \/ ClientLeaves(c)
           \/ ClientConnects(c)
    PROVE  Task(c)!Next \/ UNCHANGED Task(c)!vars
  <1>1. CASE ConnectEnds(c) /\ phase'[c] = "hello"
    <2>1. /\ phase[c] = "connecting" /\ phase'[c] = "hello"
          /\ answer'[c] = <<200>> /\ left' = left
      BY <1>1 DEF ConnectEnds, Returns, Step, ServeInv
    <2>2. SessionPhase(c) = "dial" /\ SessionPhase(c)' = "tunnel"
      BY <2>1, SessionPhases, SessionPhasesNext
    <2>3. (c \notin left)' = (c \notin left) BY <2>1
    <2>4. Task(c)!Established BY <2>1, <2>2, <2>3 DEF Task!Established
    <2>5. QED BY <2>4 DEF Task!Next
  <1>2. CASE TaskEnds(c)
    <2>1. /\ phase[c] \in Phases \ {"idle", "backlog", "probe", "closed"}
          /\ phase'[c] = "closed" /\ left' = left /\ answer' = answer
          /\ phase[c] # "tunnel" => c \in left
      BY <1>2 DEF TaskEnds, Moves, Step, ServeInv, Phases
    <2>2. /\ SessionPhase(c) \in {"request", "lookup", "dial", "tunnel"}
          /\ SessionPhase(c)' = "closed"
          /\ phase[c] \in {"tunnel", "hello"} <=> SessionPhase(c) = "tunnel"
      BY <2>1, SessionPhases, SessionPhasesNext DEF Phases
    <2>3. (c \notin left)' = (c \notin left) BY <2>1
    <2>4. Task(c)!Drop BY <2>1, <2>2, <2>3 DEF Task!Drop, Task!Move
    <2>5. QED BY <2>4 DEF Task!Next
  <1>3. CASE ClientLeaves(c)
    <2>1. /\ phase' = phase /\ answer' = answer /\ c \notin left /\ c \in left'
      BY <1>3 DEF ClientLeaves
    <2>2. SessionPhase(c)' = SessionPhase(c) BY <2>1 DEF SessionPhase
    <2>3. Task(c)!ClientLeaves BY <2>1, <2>2 DEF Task!ClientLeaves
    <2>4. QED BY <2>3 DEF Task!Next
  <1>4. CASE ClientConnects(c)
    <2>1. /\ phase[c] = "idle" /\ phase'[c] = "backlog"
          /\ left' = left /\ answer' = answer
      BY <1>4 DEF ClientConnects, Step, ServeInv
    <2>2. SessionPhase(c)' = SessionPhase(c)
      BY <2>1, SessionPhases, SessionPhasesNext
    <2>3. (c \notin left)' = (c \notin left) BY <2>1
    <2>4. QED BY <2>1, <2>2, <2>3 DEF Task!vars
  <1>5. QED BY <1>1, <1>2, <1>3, <1>4

(* Whatever a connection does is a step of its session.                    *)
LEMMA OwnSession ==
    ASSUME NEW c \in Clients, ServeInv,
           \/ ClientConnects(c) \/ ClientLeaves(c)
           \/ Request(c) \/ OwnStep(c) \/ Hello(c) \/ TaskEnds(c)
    PROVE  Task(c)!Next \/ UNCHANGED Task(c)!vars
  <1>1. CASE Request(c)
    BY <1>1, SessionMoves, SessionReturns DEF Request, Task!Refusals
  <1>2. CASE Lookup(c) BY <1>2, SessionMoves, SessionReturns DEF Lookup
  <1>3. CASE QueryEnds(c) BY <1>3, SessionMoves, SessionReturns DEF QueryEnds
  <1>4. CASE Dial(c) BY <1>4, SessionMoves, SessionReturns DEF Dial
  <1>5. CASE ConnectEnds(c)
    <2>1. CASE phase'[c] = "hello" BY <1>5, <2>1, SessionEnds
    <2>2. CASE phase'[c] # "hello"
      <3>1. Returns(c, "connecting", {502})
        BY <1>5, <2>2 DEF ConnectEnds, Step, ServeInv
      <3>2. QED BY <3>1, SessionReturns
    <2>3. QED BY <2>1, <2>2
  <1>6. CASE Hello(c) \/ ProbeEnds(c)
    BY <1>6, SessionMoves DEF Hello, ProbeEnds
  <1>7. QED
    BY <1>1, <1>2, <1>3, <1>4, <1>5, <1>6, SessionEnds DEF OwnStep

(* And nothing to another's.                                               *)
LEMMA OthersSession ==
    ASSUME NEW c \in Clients, NEW d \in Clients, c # d, ServeInv, ~Exited,
           \/ ClientConnects(c) \/ ClientLeaves(c)
           \/ Request(c) \/ OwnStep(c) \/ Hello(c) \/ TaskEnds(c)
    PROVE  UNCHANGED Task(d)!vars
  <1>1. phase'[d] = phase[d]
    BY ClientSteps DEF ServeInv
  <1>2. answer'[d] = answer[d]
    BY ClientSteps DEF ServeInv
  <1>3. d \in left' <=> d \in left
    <2>1. left' = left \/ left' = left \cup {c}
      BY DEF ClientConnects, ClientLeaves, Request, OwnStep, Hello, TaskEnds,
             Lookup, QueryEnds, Dial, ConnectEnds, ProbeEnds, Moves, Returns
    <2>2. QED BY <2>1
  <1>4. QED BY <1>1, <1>2, <1>3, SessionStill

(* Every task keeps the order of the phases, answers once and truthfully,  *)
(* and drops no client that stays, whatever the other tasks, the workers   *)
(* and the table of descriptors do.                                        *)
THEOREM SessionsKept == Spec => TasksKeepSession
  <1>1. ServeInv /\ [Next]_vars =>
          [\A c \in Clients : Task(c)!Next \/ UNCHANGED Task(c)!vars \/ Exited']_vars
    <2> SUFFICES ASSUME ServeInv, Next, vars' # vars, NEW c \in Clients
                 PROVE  Task(c)!Next \/ UNCHANGED Task(c)!vars
      OBVIOUS
    <2>1. ~Exited BY DEF Next, Done
    <2>2. ASSUME phase' = phase, answer' = answer, left' = left
          PROVE  UNCHANGED Task(c)!vars
      BY <2>2, SessionStill
    <2>3. CASE MainStep
      BY <2>2, <2>3
         DEF MainStep, Parse, Start, SpawnWorker, SpawnFails, JoinAll, tasks
    <2>4. ASSUME NEW w \in Workers, StartUp(w) PROVE UNCHANGED Task(c)!vars
      BY <2>2, <2>4
         DEF StartUp, BuildRuntime, RuntimeFails, Listen, ListenFails, tasks
    <2>5. ASSUME NEW w \in Workers, Accept(w) PROVE UNCHANGED Task(c)!vars
      <3>1. PICK d \in Waiting(w) : Step(d, "backlog", "request")
        BY <2>5 DEF Accept
      <3>2. /\ left' = left /\ answer' = answer
            /\ phase[d] = "backlog" /\ phase' = [phase EXCEPT ![d] = "request"]
        BY <2>5, <3>1 DEF Accept, Step
      <3>3. CASE c # d BY <3>2, <3>3, SessionStill DEF ServeInv
      <3>4. CASE c = d
        <4>1. phase[c] = "backlog" /\ phase'[c] = "request"
          BY <3>2, <3>4 DEF ServeInv
        <4>2. SessionPhase(c)' = SessionPhase(c)
          BY <4>1, SessionPhases, SessionPhasesNext
        <4>3. (c \notin left)' = (c \notin left) BY <3>2
        <4>4. QED BY <3>2, <4>2, <4>3 DEF Task!vars
      <3>5. QED BY <3>3, <3>4
    <2>6. ASSUME NEW d \in Clients,
                 \/ ClientConnects(d) \/ ClientLeaves(d)
                 \/ Request(d) \/ OwnStep(d) \/ Hello(d) \/ TaskEnds(d)
          PROVE  Task(c)!Next \/ UNCHANGED Task(c)!vars
      BY <2>1, <2>6, OwnSession, OthersSession
    <2>7. QED
      BY <2>3, <2>4, <2>5, <2>6 DEF Next, Done, AcceptFails
  <1>2. QED BY <1>1, Inductive, PTL DEF Spec, TasksKeepSession
-----------------------------------------------------------------------------
(* A process that serves goes on serving.                                  *)

(* Before the workers are spawned nobody listens; a step of main keeps all *)
(* listeners and ends the process only by a failing spawn.                 *)
LEMMA MainServesOn ==
    ASSUME ServeInv, MainStep, NEW w \in Workers, worker[w] = "listening"
    PROVE  /\ \A v \in Workers : worker[v] = "listening" => worker'[v] = "listening"
           /\ \/ process' \in {process, "joining"}
              \/ process = "spawning" /\ process' = "exit_err"
  <1>1. process # "parsing" BY DEF ServeInv, Workers
  <1>2. CASE Parse \/ Start
    BY <1>1, <1>2 DEF Parse, ParseStep, KeyValue, OptionThenValue, Ignored,
                      Switch, HelpOrVersion, Looping, Start, Parsed
  <1>3. CASE SpawnWorker
    <2>1. /\ process = "spawning" /\ spawned' = spawned + 1
          /\ worker' = [worker EXCEPT ![spawned'] = "runtime"]
          /\ process' \in {process, "joining"}
      BY <1>3 DEF SpawnWorker
    <2>2. spawned \in Nat /\ spawned < NumWorkers /\ NumWorkers \in Nat
      BY <2>1, ServerAssumption DEF ServeInv
    <2>3. spawned' \in Workers /\ worker[spawned'] = "none"
      BY <2>1, <2>2 DEF ServeInv, Workers
    <2>4. \A v \in Workers : worker[v] = "listening" => worker'[v] = "listening"
      BY <2>1, <2>3 DEF ServeInv
    <2>5. QED BY <2>1, <2>4
  <1>4. CASE SpawnFails BY <1>4 DEF SpawnFails, threads
  <1>5. CASE JoinAll BY <1>5 DEF JoinAll
  <1>6. QED BY <1>2, <1>3, <1>4, <1>5 DEF MainStep

(* A worker that starts up leaves the others' listeners alone; only one    *)
(* that builds its runtime can end the process.                            *)
LEMMA StartUpServesOn ==
    ASSUME ServeInv, NEW w \in Workers, StartUp(w)
    PROVE  /\ \A v \in Workers : worker[v] = "listening" => worker'[v] = "listening"
           /\ process' = process \/ (process' = "abort" /\ worker[w] = "runtime")
  <1>1. worker \in [Workers -> {"none", "runtime", "socket", "listening", "gone"}]
    BY DEF ServeInv
  <1>2. CASE BuildRuntime(w) BY <1>1, <1>2 DEF BuildRuntime, parseVars
  <1>3. CASE RuntimeFails(w) BY <1>1, <1>3 DEF RuntimeFails
  <1>4. CASE Listen(w) BY <1>1, <1>4 DEF Listen, parseVars
  <1>5. CASE ListenFails(w) BY <1>1, <1>5 DEF ListenFails, parseVars
  <1>6. QED BY <1>2, <1>3, <1>4, <1>5 DEF StartUp

(* However workers start and fail and descriptors run out, a listener goes *)
(* only with its process, and after start-up the process does not end.     *)
THEOREM ServingGoesOn == Spec => ServesOn
  <1> DEFINE Serves ==
         (\E w \in Workers : worker[w] = "listening") =>
           /\ \A w \in Workers : worker[w] = "listening" => worker'[w] = "listening"
           /\ \/ process' \in {process, "joining"}
              \/ process = "spawning" /\ process' = "exit_err"
              \/ process' = "abort" /\ \E v \in Workers : worker[v] = "runtime"
  <1>1. ServeInv /\ [Next]_vars => [Serves]_vars
    <2> SUFFICES ASSUME ServeInv, Next, vars' # vars PROVE Serves OBVIOUS
    <2>1. ~Exited BY DEF Next, Done
    <2>2. CASE MainStep BY <2>2, MainServesOn
    <2>3. ASSUME NEW w \in Workers, StartUp(w) PROVE Serves
      BY <2>3, StartUpServesOn
    <2>4. ASSUME NEW w \in Workers, Accept(w) PROVE Serves
      BY <2>4 DEF Accept, parseVars, threads
    <2>5. ASSUME NEW c \in Clients,
                 \/ ClientConnects(c) \/ ClientLeaves(c)
                 \/ Request(c) \/ OwnStep(c) \/ Hello(c) \/ TaskEnds(c)
          PROVE  Serves
      BY <2>1, <2>5, ClientSteps
    <2>6. QED
      BY <2>2, <2>3, <2>4, <2>5 DEF Next, Done, AcceptFails
  <1>2. QED BY <1>1, Inductive, PTL DEF Spec, ServesOn

-----------------------------------------------------------------------------
(* Reading the command line.                                               *)

(* A set of naturals has a least element; hence induction over the         *)
(* naturals, stated for sets.                                              *)
LEMMA LeastNat ==
    ASSUME NEW S \in SUBSET Nat, S # {}
    PROVE  \E m \in S : \A k \in S : m <= k
  <1> DEFINE R == OpToRel(<, Nat)
  <1>1. IsWellFoundedOn(R, Nat) BY NatLessThanWellFounded, Zenon
  <1>2. \A x, y \in Nat : x < y => <<x, y>> \in R BY DEF OpToRel
  <1> HIDE DEF R
  <1>3. PICK x \in S : \A y \in S : ~ (<<y, x>> \in R) BY <1>1, WFMin
  <1>4. \A y \in S : ~(y < x) BY <1>2, <1>3
  <1>5. QED BY <1>3, <1>4

(* Induction on the naturals, with a set for the predicate.                *)
LEMMA NatSetInduction ==
    ASSUME NEW S, 0 \in S, \A n \in Nat : n \in S => n + 1 \in S
    PROVE  Nat \subseteq S
  <1>1. SUFFICES ASSUME Nat \ S # {} PROVE FALSE OBVIOUS
  <1>2. PICK m \in Nat \ S : \A k \in Nat \ S : m <= k BY <1>1, LeastNat
  <1>3. m # 0 /\ m - 1 \in Nat BY <1>2
  <1>4. m - 1 \in S BY <1>2, <1>3
  <1>5. QED BY <1>2, <1>3, <1>4

(* Of positions that may open a pair, every second one in a row does.      *)
LEMMA PairsExist ==
    ASSUME NEW T, NEW m \in Nat
    PROVE  \E V : \A j \in 0 .. m : j \in V <=> j > 1 /\ j - 1 \in T /\ j - 1 \notin V
  <1> DEFINE Sol(n, V) ==
                \A j \in 0 .. n : j \in V <=> j > 1 /\ j - 1 \in T /\ j - 1 \notin V
             S == {n \in Nat : \E V \in SUBSET (0 .. n) : Sol(n, V)}
  <1>1. Sol(0, {}) OBVIOUS
  <1>2. ASSUME NEW n \in Nat, NEW V \in SUBSET (0 .. n), Sol(n, V)
        PROVE  \E W \in SUBSET (0 .. n + 1) : Sol(n + 1, W)
    <2>1. CASE n + 1 > 1 /\ n \in T /\ n \notin V
      <3>1. V \cup {n + 1} \in SUBSET (0 .. n + 1) OBVIOUS
      <3>2. Sol(n + 1, V \cup {n + 1}) BY <1>2, <2>1
      <3>3. QED BY <3>1, <3>2
    <2>2. CASE ~(n + 1 > 1 /\ n \in T /\ n \notin V)
      <3>1. V \in SUBSET (0 .. n + 1) OBVIOUS
      <3>2. Sol(n + 1, V) BY <1>2, <2>2
      <3>3. QED BY <3>1, <3>2
    <2>3. QED BY <2>1, <2>2
  <1> HIDE DEF Sol
  <1>3. 0 \in S
    <2>1. {} \in SUBSET (0 .. 0) OBVIOUS
    <2>2. QED BY <1>1, <2>1
  <1>4. \A n \in Nat : n \in S => n + 1 \in S BY <1>2
  <1> HIDE DEF S
  <1>5. m \in S BY <1>3, <1>4, NatSetInduction
  <1>6. QED BY <1>5 DEF S, Sol

(* So the equation that defines IsValue has a solution,                    *)
LEMMA IsValueExists ==
    ASSUME NEW line \in Seq(Argument)
    PROVE  \E v : v = [j \in 0 .. Len(line) |->
                         j > 1 /\ TakesNext(line[j - 1]) /\ ~v[j - 1]]
  <1>1. Len(line) \in Nat OBVIOUS
  <1> DEFINE T == {j \in 0 .. Len(line) : TakesNext(line[j])}
  <1>2. PICK V : \A j \in 0 .. Len(line) :
              j \in V <=> j > 1 /\ j - 1 \in T /\ j - 1 \notin V
    BY <1>1, PairsExist
  <1> DEFINE v == [j \in 0 .. Len(line) |-> j \in V]
  <1>3. ASSUME NEW j \in 0 .. Len(line)
        PROVE  (j \in V) = (j > 1 /\ TakesNext(line[j - 1]) /\ ~v[j - 1])
    <2>1. CASE j > 1
      <3>1. j - 1 \in 0 .. Len(line) BY <1>1, <2>1
      <3>2. v[j - 1] = (j - 1 \in V) BY <3>1, Zenon
      <3>3. (j \in V) <=> (TakesNext(line[j - 1]) /\ j - 1 \notin V) BY <1>2, <2>1, <3>1
      <3>4. v[j - 1] <=> j - 1 \in V BY <3>2, Zenon
      <3> HIDE DEF v
      <3>5. QED BY <2>1, <3>3, <3>4
    <2>2. CASE ~(j > 1) BY <1>2, <2>2
    <2>3. QED BY <2>1, <2>2
  <1>4. v = [j \in 0 .. Len(line) |-> j > 1 /\ TakesNext(line[j - 1]) /\ ~v[j - 1]]
    BY <1>3, Zenon
  <1>5. QED BY <1>4, Zenon

(* which IsValue is.                                                       *)
LEMMA IsValueDef ==
    ASSUME NEW line \in Seq(Argument)
    PROVE  IsValue(line) = [j \in 0 .. Len(line) |->
                         j > 1 /\ TakesNext(line[j - 1]) /\ ~IsValue(line)[j - 1]]
  BY IsValueExists DEF IsValue

(* An argument is read for itself unless the one before it takes it.       *)
LEMMA HeadsAt ==
    ASSUME NEW line \in Seq(Argument), NEW j \in 1 .. Len(line)
    PROVE  j \in Heads(line)
             <=> ~(j > 1 /\ TakesNext(line[j - 1]) /\ j - 1 \in Heads(line))
  <1>1. \A k \in 1 .. Len(line) : k \in Heads(line) <=> ~IsValue(line)[k]
    BY DEF Heads
  <1>2. j \in 0 .. Len(line) OBVIOUS
  <1>3. IsValue(line)[j] = (j > 1 /\ TakesNext(line[j - 1]) /\ ~IsValue(line)[j - 1])
    BY <1>2, IsValueDef, Zenon
  <1>4. j > 1 => j - 1 \in 1 .. Len(line) OBVIOUS
  <1>5. CASE j > 1
    <2>1. j - 1 \in Heads(line) <=> ~IsValue(line)[j - 1] BY <1>1, <1>4, <1>5
    <2>2. QED BY <1>1, <1>3, <1>5, <2>1, Zenon
  <1>6. CASE ~(j > 1) BY <1>1, <1>3, <1>6, Zenon
  <1>7. QED BY <1>5, <1>6

(* What the line gives for an option before position n, and the value that *)
(* stands at a place.                                                      *)
GivenBefore(line, option, n) == {j \in Given(line, option) : j < n}
ValueAt(line, j) == IF line[j].eq THEN Text(line[j].right) ELSE line[j + 1]

(* An option is as the last of the values before the loop's position left  *)
(* it.                                                                     *)
Latest(option, n, value) ==
    \/ GivenBefore(argv, option, n) = {} /\ value = Default
    \/ \E m \in GivenBefore(argv, option, n) :
          /\ \A j \in GivenBefore(argv, option, n) : j <= m
          /\ value = ValueAt(argv, m)

IsVerbose(a) == a.left = "verbose" /\ ~a.eq
IsHelp(a)    == ~a.eq /\ a.left \in {"help", "version"}

(* The loop stands at an argument that is read for itself, and the         *)
(* settings are what the line asks for up to there.                        *)
ParseInv ==
    /\ argv \in Argvs \cup {<< >>} /\ i \in 1 .. Len(argv) + 1 /\ cli \in Cli
    /\ process = "parsing" =>
          /\ i <= Len(argv) => i \in Heads(argv)
          /\ \A f \in ValueOptions : Latest(f, i, cli.options[f])
          /\ "verbose" \in cli.switches <=>
                 \E j \in Heads(argv) : j < i /\ IsVerbose(argv[j])
          /\ \A j \in Heads(argv) : j < i => ~IsHelp(argv[j])
    /\ process \in {"spawning", "joining"} => i > Len(argv)
    /\ process = "exit_ok" /\ i <= Len(argv) => AsksForHelp(argv)

(* The command line is a sequence of arguments.                            *)
LEMMA ArgvIsLine ==
    ASSUME ParseInv
    PROVE  /\ argv \in Seq(Argument) /\ Len(argv) \in Nat /\ i \in Nat
           /\ \A j \in 1 .. Len(argv) :
                 argv[j] \in Argument /\ (argv[j].eq => argv[j].right \in Words)
  <1>1. argv \in Seq(Argument)
    <2>1. << >> \in Seq(Argument) OBVIOUS
    <2>2. QED BY <2>1, ArgsAssumption DEF ParseInv
  <1>2. Len(argv) \in Nat /\ i \in Nat BY <1>1 DEF ParseInv
  <1>3. ASSUME NEW j \in 1 .. Len(argv)
        PROVE  argv[j] \in Argument /\ (argv[j].eq => argv[j].right \in Words)
    <2>1. argv \in Argvs /\ j \in DOMAIN argv BY <1>1, <1>3 DEF ParseInv
    <2>2. argv[j].eq = (argv[j].right # NoText) BY <2>1, ArgsAssumption, Zenon
    <2>3. argv[j] \in Argument BY <1>1, <1>3
    <2>4. argv[j].right \in Words \cup {NoText} BY <2>3 DEF Argument
    <2>5. argv[j].eq => argv[j].right \in Words BY <2>2, <2>4, Zenon
    <2>6. QED BY <2>3, <2>5
  <1>4. QED BY <1>1, <1>2, <1>3

(* From a head the loop moves to the next: past the value, if one follows. *)
LEMMA Advance ==
    ASSUME ParseInv, Looping, process' = "parsing", argv' = argv,
           \/ ~TakesNext(arg) /\ i' = i + 1
           \/ i = Len(argv) /\ i' = i + 1
           \/ TakesNext(arg) /\ i + 1 <= Len(argv) /\ i' = i + 2
    PROVE  /\ i \in Heads(argv) /\ i' \in 1 .. Len(argv) + 1
           /\ i' <= Len(argv) => i' \in Heads(argv)
           /\ \A j \in Heads(argv) : j < i' <=> j < i \/ j = i
           /\ Heads(argv) \subseteq Nat
  <1>1. /\ argv \in Seq(Argument) /\ Len(argv) \in Nat
        /\ i \in 1 .. Len(argv) /\ i \in Heads(argv)
    BY ArgvIsLine DEF ParseInv, Looping
  <1>2. \A j \in 1 .. Len(argv) : j \in Heads(argv)
             <=> ~(j > 1 /\ TakesNext(argv[j - 1]) /\ j - 1 \in Heads(argv))
    BY <1>1, HeadsAt
  <1>3. Heads(argv) \subseteq 1 .. Len(argv) BY DEF Heads
  <1>4. CASE ~TakesNext(arg) /\ i' = i + 1
    <2>1. i + 1 <= Len(argv) => i + 1 \in Heads(argv)
      BY <1>1, <1>2, <1>4 DEF arg
    <2>2. QED BY <1>1, <1>3, <1>4, <2>1
  <1>5. CASE i = Len(argv) /\ i' = i + 1 BY <1>1, <1>3, <1>5
  <1>6. CASE TakesNext(arg) /\ i + 1 <= Len(argv) /\ i' = i + 2
    <2>1. i + 1 \notin Heads(argv) BY <1>1, <1>2, <1>6 DEF arg
    <2>2. i + 2 <= Len(argv) => i + 2 \in Heads(argv)
      BY <1>1, <1>2, <2>1
    <2>3. QED BY <1>1, <1>3, <1>6, <2>1, <2>2
  <1>7. QED BY <1>4, <1>5, <1>6

(* An option keeps its value past an argument that gives it none,          *)
LEMMA LatestKept ==
    ASSUME NEW f, NEW n \in Nat, NEW k \in Nat, NEW value, Latest(f, k, value),
           k \notin Given(argv, f),
           \A j \in Heads(argv) : j < n <=> j < k \/ j = k
    PROVE  Latest(f, n, value)
  <1>1. Given(argv, f) \subseteq Heads(argv) BY DEF Given
  <1>2. GivenBefore(argv, f, n) = GivenBefore(argv, f, k)
    BY <1>1 DEF GivenBefore
  <1>3. QED BY <1>2 DEF Latest

(* and takes the value of one that gives it.                               *)
LEMMA LatestTaken ==
    ASSUME NEW f, NEW n \in Nat, NEW k \in Nat, k \in Given(argv, f),
           Heads(argv) \subseteq Nat,
           \A j \in Heads(argv) : j < n <=> j < k \/ j = k
    PROVE  Latest(f, n, ValueAt(argv, k))
  <1>1. Given(argv, f) \subseteq Heads(argv) BY DEF Given
  <1>2. k \in GivenBefore(argv, f, n) BY <1>1 DEF GivenBefore
  <1>3. \A j \in GivenBefore(argv, f, n) : j <= k
    BY <1>1 DEF GivenBefore
  <1>4. QED BY <1>2, <1>3 DEF Latest

(* Only an argument that names the option gives it a value.                *)
LEMMA GivenHere ==
    ASSUME NEW f, i \in Heads(argv), i \in 1 .. Len(argv), Len(argv) \in Nat
    PROVE  i \in Given(argv, f)
             <=> /\ arg.left = f
                 /\ arg.eq \/ i + 1 <= Len(argv)
                 /\ Fits(f, ValueAt(argv, i))
  <1>1. CASE arg.eq
    <2>1. ValueAt(argv, i) = Text(arg.right) BY <1>1 DEF ValueAt, arg
    <2>2. QED BY <1>1, <2>1 DEF Given, arg
  <1>2. CASE ~arg.eq
    <2>1. ValueAt(argv, i) = argv[i + 1] BY <1>2 DEF ValueAt, arg
    <2>2. i < Len(argv) <=> i + 1 <= Len(argv) OBVIOUS
    <2>3. QED BY <1>2, <2>1, <2>2 DEF Given, arg
  <1>3. QED BY <1>1, <1>2

(* Storing the value of the argument at hand.                              *)
LEMMA StoreStep ==
    ASSUME ParseInv, Looping, arg.left \in ValueOptions, NEW n \in Nat,
           ValueAt(argv, i) \in Argument,
           arg.eq \/ i + 1 <= Len(argv),
           Store(arg.left, ValueAt(argv, i)),
           i \in Heads(argv), Heads(argv) \subseteq Nat,
           \A j \in Heads(argv) : j < n <=> j < i \/ j = i
    PROVE  /\ cli' \in Cli /\ cli'.switches = cli.switches
           /\ \A f \in ValueOptions : Latest(f, n, cli'.options[f])
  <1>1. /\ cli \in Cli /\ i \in Nat /\ i \in 1 .. Len(argv) /\ Len(argv) \in Nat
        /\ \A f \in ValueOptions : Latest(f, i, cli.options[f])
    BY ArgvIsLine DEF ParseInv, Looping
  <1>2. CASE Fits(arg.left, ValueAt(argv, i))
    <2>1. cli' = [cli EXCEPT !.options[arg.left] = ValueAt(argv, i)]
      BY <1>2 DEF Store
    <2>2. /\ cli' \in Cli /\ cli'.switches = cli.switches
          /\ \A f \in ValueOptions :
                cli'.options[f] = IF f = arg.left THEN ValueAt(argv, i) ELSE cli.options[f]
      BY <1>1, <2>1 DEF Cli
    <2>3. i \in Given(argv, arg.left) BY <1>1, <1>2, GivenHere
    <2>4. Latest(arg.left, n, ValueAt(argv, i)) BY <1>1, <2>3, LatestTaken
    <2>5. ASSUME NEW f \in ValueOptions, f # arg.left
          PROVE  Latest(f, n, cli.options[f])
      <3>1. i \notin Given(argv, f) BY <1>1, <2>5, GivenHere
      <3>2. Latest(f, i, cli.options[f]) BY <1>1
      <3>3. QED BY <1>1, <3>1, <3>2, LatestKept
    <2>6. QED BY <2>2, <2>4, <2>5
  <1>3. CASE ~Fits(arg.left, ValueAt(argv, i))
    <2>1. cli' = cli BY <1>3 DEF Store
    <2>2. ASSUME NEW f \in ValueOptions PROVE Latest(f, n, cli.options[f])
      <3>1. i \notin Given(argv, f) BY <1>1, <1>3, GivenHere
      <3>2. Latest(f, i, cli.options[f]) BY <1>1
      <3>3. QED BY <1>1, <3>1, <3>2, LatestKept
    <2>3. QED BY <1>1, <2>1, <2>2
  <1>4. QED BY <1>2, <1>3

(* An iteration that reads one head as it should keeps the invariant.      *)
LEMMA HeadRead ==
    ASSUME ParseInv, Looping, process' = "parsing", argv' = argv,
           \/ ~TakesNext(arg) /\ i' = i + 1
           \/ i = Len(argv) /\ i' = i + 1
           \/ TakesNext(arg) /\ i + 1 <= Len(argv) /\ i' = i + 2,
           cli' \in Cli,
           \A f \in ValueOptions : Latest(f, i', cli'.options[f]),
           "verbose" \in cli'.switches <=> "verbose" \in cli.switches \/ IsVerbose(arg),
           ~IsHelp(arg)
    PROVE  ParseInv'
  <1>1. /\ i \in Heads(argv) /\ i' \in 1 .. Len(argv) + 1
        /\ i' <= Len(argv) => i' \in Heads(argv)
        /\ \A j \in Heads(argv) : j < i' <=> j < i \/ j = i
    BY Advance
  <1>2. "verbose" \in cli'.switches
           <=> \E j \in Heads(argv) : j < i' /\ IsVerbose(argv[j])
    <2>1. "verbose" \in cli.switches
           <=> \E j \in Heads(argv) : j < i /\ IsVerbose(argv[j])
      BY DEF ParseInv, Looping
    <2>2. QED BY <1>1, <2>1 DEF arg
  <1>3. \A j \in Heads(argv) : j < i' => ~IsHelp(argv[j])
    BY <1>1 DEF ParseInv, Looping, arg
  <1>4. \A f \in ValueOptions : Latest(f, i, cli.options[f])'
    BY DEF Latest, GivenBefore
  <1>5. QED BY <1>1, <1>2, <1>3, <1>4 DEF ParseInv

(* An argument that is no option's value leaves the settings' values.      *)
LEMMA OptionsKept ==
    ASSUME ParseInv, Looping, NEW n \in Nat, i \in Heads(argv),
           ~(arg.left \in ValueOptions /\ (arg.eq \/ i + 1 <= Len(argv))),
           \A j \in Heads(argv) : j < n <=> j < i \/ j = i
    PROVE  \A f \in ValueOptions : Latest(f, n, cli.options[f])
  <1> TAKE f \in ValueOptions
  <1>1. /\ i \in Nat /\ i \in 1 .. Len(argv) /\ Len(argv) \in Nat
        /\ Latest(f, i, cli.options[f])
    BY ArgvIsLine DEF ParseInv, Looping
  <1>2. i \notin Given(argv, f) BY <1>1, GivenHere
  <1>3. QED BY <1>1, <1>2, LatestKept

(* The names of the options are told apart.                                *)
LEMMA NamesDiffer ==
    /\ ValueOptions \cap Switches = {} /\ "verbose" \in Switches
    /\ "verbose" \notin ValueOptions
    /\ \A h \in {"help", "version"} : h \notin ValueOptions /\ h \notin Switches
    /\ "other" \notin ValueOptions \cup Switches
  BY DEF ValueOptions, TextOptions, NumberOptions, NumberBits, Switches

(* Every iteration keeps the invariant.                                    *)
LEMMA ParseKept == ASSUME ParseInv, ParseStep PROVE ParseInv'
  <1>1. ASSUME Looping
        PROVE  /\ i \in Nat /\ Len(argv) \in Nat /\ i \in 1 .. Len(argv) /\ cli \in Cli
               /\ arg \in Argument /\ (arg.eq => arg.right \in Words)
               /\ i + 1 <= Len(argv) => argv[i + 1] \in Argument
    <2>1. i \in 1 .. Len(argv) /\ Len(argv) \in Nat
      BY <1>1, ArgvIsLine DEF ParseInv, Looping
    <2>2. i + 1 <= Len(argv) => i + 1 \in 1 .. Len(argv) BY <2>1
    <2>3. QED BY <2>1, <2>2, ArgvIsLine DEF arg, ParseInv
  <1>2. CASE KeyValue
    <2>1. /\ Looping /\ arg.eq /\ i' = i + 1 /\ argv' = argv /\ process' = "parsing"
          /\ ~TakesNext(arg) /\ ~IsHelp(arg) /\ ~IsVerbose(arg)
      BY <1>2 DEF KeyValue, Looping, TakesNext, IsHelp, IsVerbose
    <2>2. /\ i \in Heads(argv) /\ Heads(argv) \subseteq Nat
          /\ i' \in Nat /\ \A j \in Heads(argv) : j < i' <=> j < i \/ j = i
      BY <1>1, <2>1, Advance
    <2>3. /\ cli' \in Cli /\ cli'.switches = cli.switches
          /\ \A f \in ValueOptions : Latest(f, i', cli'.options[f])
      <3>1. CASE arg.left \in ValueOptions
        <4>1. ValueAt(argv, i) = Text(arg.right) BY <2>1 DEF ValueAt, arg
        <4>2. Text(arg.right) \in Argument
          BY <1>1, <2>1 DEF Text, Argument, Names
        <4>3. Store(arg.left, ValueAt(argv, i)) BY <1>2, <3>1, <4>1 DEF KeyValue
        <4>4. QED BY <2>1, <2>2, <3>1, <4>1, <4>2, <4>3, StoreStep
      <3>2. CASE arg.left \notin ValueOptions
        <4>1. cli' = cli BY <1>2, <3>2 DEF KeyValue
        <4>2. QED BY <1>1, <2>1, <2>2, <3>2, <4>1, OptionsKept
      <3>3. QED BY <3>1, <3>2
    <2>4. QED BY <2>1, <2>3, HeadRead
  <1>3. CASE OptionThenValue
    <2>1. /\ Looping /\ ~arg.eq /\ i + 1 <= Len(argv) /\ i' = i + 2
          /\ argv' = argv /\ process' = "parsing" /\ arg.left \in ValueOptions
          /\ TakesNext(arg) /\ ~IsHelp(arg) /\ ~IsVerbose(arg)
      BY <1>3, NamesDiffer
         DEF OptionThenValue, Looping, TakesNext, IsHelp, IsVerbose
    <2>2. /\ i \in Heads(argv) /\ Heads(argv) \subseteq Nat
          /\ i' \in Nat /\ \A j \in Heads(argv) : j < i' <=> j < i \/ j = i
      BY <1>1, <2>1, Advance
    <2>3. ValueAt(argv, i) = argv[i + 1] BY <2>1 DEF ValueAt, arg
    <2>4. Store(arg.left, ValueAt(argv, i)) BY <1>3, <2>3 DEF OptionThenValue
    <2>5. /\ cli' \in Cli /\ cli'.switches = cli.switches
          /\ \A f \in ValueOptions : Latest(f, i', cli'.options[f])
      BY <1>1, <2>1, <2>2, <2>3, <2>4, StoreStep
    <2>6. QED BY <2>1, <2>5, HeadRead
  <1>4. CASE Ignored \/ Switch
    <2>1. /\ Looping /\ ~arg.eq /\ i' = i + 1 /\ argv' = argv /\ process' = "parsing"
          /\ i = Len(argv) \/ ~TakesNext(arg)
          /\ ~(arg.left \in ValueOptions /\ i + 1 <= Len(argv))
          /\ cli' \in Cli /\ cli'.options = cli.options
          /\ ~IsHelp(arg)
          /\ "verbose" \in cli'.switches
                <=> "verbose" \in cli.switches \/ IsVerbose(arg)
      <3>1. CASE Ignored
        <4>1. /\ Looping /\ ~arg.eq /\ i' = i + 1 /\ argv' = argv /\ cli' = cli
              /\ process' = process
              /\ \/ arg.left \in ValueOptions /\ i = Len(argv)
                 \/ arg.left \in Words \cup {"other"}
          BY <3>1 DEF Ignored
        <4>2. arg.left \in Words \cup {"other"} =>
                 /\ arg.left \notin ValueOptions /\ arg.left # "verbose"
                 /\ arg.left \notin {"help", "version"}
          BY ArgsAssumption, NamesDiffer
        <4>3. arg.left \in ValueOptions =>
                 arg.left # "verbose" /\ arg.left \notin {"help", "version"}
          BY NamesDiffer
        <4>4. QED
          BY <1>1, <4>1, <4>2, <4>3 DEF Looping, TakesNext, IsHelp, IsVerbose
      <3>2. CASE Switch
        <4>1. /\ Looping /\ ~arg.eq /\ arg.left \in Switches /\ i' = i + 1
              /\ argv' = argv /\ process' = process
              /\ cli' = [cli EXCEPT !.switches = @ \cup {arg.left}]
          BY <3>2 DEF Switch
        <4>2. arg.left \notin ValueOptions /\ arg.left \notin {"help", "version"}
          BY <4>1, NamesDiffer DEF ValueOptions, TextOptions, NumberOptions,
                                   NumberBits, Switches
        <4>3. /\ cli' \in Cli /\ cli'.options = cli.options
              /\ cli'.switches = cli.switches \cup {arg.left}
          BY <1>1, <4>1 DEF Cli
        <4>4. QED
          BY <4>1, <4>2, <4>3 DEF Looping, TakesNext, IsHelp, IsVerbose
      <3>3. QED BY <1>4, <3>1, <3>2
    <2>2. /\ i \in Heads(argv)
          /\ i' \in Nat /\ \A j \in Heads(argv) : j < i' <=> j < i \/ j = i
      BY <1>1, <2>1, Advance
    <2>3. \A f \in ValueOptions : Latest(f, i', cli'.options[f])
      BY <2>1, <2>2, OptionsKept
    <2>4. QED BY <2>1, <2>3, HeadRead
  <1>5. CASE HelpOrVersion
    <2>1. /\ Looping /\ process' = "exit_ok" /\ argv' = argv /\ i' = i /\ cli' = cli
          /\ ~arg.eq /\ arg.left \in {"help", "version"}
      BY <1>5 DEF HelpOrVersion
    <2>2. i \in Heads(argv) BY <1>1, <2>1 DEF ParseInv, Looping
    <2>3. AsksForHelp(argv) BY <2>1, <2>2 DEF AsksForHelp, arg
    <2>4. QED BY <2>1, <2>3 DEF ParseInv
  <1>6. QED BY <1>2, <1>3, <1>4, <1>5 DEF ParseStep

(* No other step of the process touches what was read.                     *)
LEMMA ParseFrame ==
    ASSUME ParseInv, UNCHANGED <<argv, i, cli>>,
           \/ process' \in {process, "exit_err", "abort"}
           \/ process = "spawning" /\ process' = "joining"
           \/ process = "joining" /\ process' = "exit_ok"
    PROVE  ParseInv'
  BY DEF ParseInv, Latest, GivenBefore

(* What main does after parsing keeps what was parsed.                     *)
LEMMA ParseStart == ASSUME ParseInv, Start PROVE ParseInv'
  <1>1. /\ argv' = << >> /\ i' = 1 /\ process' \in {"spawning", "exit_err"}
        /\ cli' = [options |-> [f \in ValueOptions |-> Default], switches |-> {}]
    BY DEF Start
  <1>2. Len(<< >>) = 0 OBVIOUS
  <1>3. cli' \in Cli BY <1>1 DEF Cli
  <1>4. QED BY <1>1, <1>2, <1>3 DEF ParseInv

(* ParseInv is inductive.                                                  *)
LEMMA ParseInvStep == ParseInv /\ [Next]_vars => ParseInv'
  <1> SUFFICES ASSUME ParseInv, [Next]_vars PROVE ParseInv' OBVIOUS
  <1> USE DEF parseVars
  <1>1. CASE UNCHANGED vars BY <1>1, ParseFrame DEF vars
  <1>2. CASE MainStep
    <2>1. CASE Parse BY <2>1, ParseKept DEF Parse
    <2>2. CASE Start BY <2>2, ParseStart
    <2>3. CASE SpawnWorker BY <2>3, ParseFrame DEF SpawnWorker
    <2>4. CASE SpawnFails BY <2>4, ParseFrame DEF SpawnFails
    <2>5. CASE JoinAll BY <2>5, ParseFrame DEF JoinAll
    <2>6. QED BY <1>2, <2>1, <2>2, <2>3, <2>4, <2>5 DEF MainStep
  <1>3. ASSUME NEW w \in Workers, StartUp(w) \/ Accept(w) PROVE ParseInv'
    BY <1>3, ParseFrame
       DEF StartUp, BuildRuntime, RuntimeFails, Listen, ListenFails, Accept
  <1>4. ASSUME NEW c \in Clients,
               \/ ClientConnects(c) \/ ClientLeaves(c)
               \/ Request(c) \/ OwnStep(c) \/ Hello(c) \/ TaskEnds(c)
        PROVE  ParseInv'
    BY <1>4, ParseFrame
       DEF ClientConnects, ClientLeaves, Request, OwnStep, Hello, TaskEnds, Lookup,
           QueryEnds, Dial, ConnectEnds, ProbeEnds, Moves, Returns
  <1>5. QED BY <1>1, <1>2, <1>3, <1>4 DEF Next, Done, AcceptFails

(* ParseInv holds before the first argument.                               *)
LEMMA ParseInit == Init => ParseInv
  <1> SUFFICES ASSUME Init PROVE ParseInv OBVIOUS
  <1>1. /\ argv \in Argvs /\ i = 1 /\ process = "parsing"
        /\ cli = [options |-> [f \in ValueOptions |-> Default],
                  switches |-> Switches \ {"verbose"}]
    BY DEF Init, ArgsInit
  <1>2. argv \in Seq(Argument) /\ Len(argv) \in Nat BY <1>1, ArgsAssumption
  <1>3. cli \in Cli BY <1>1 DEF Cli
  <1>4. 1 <= Len(argv) => 1 \in Heads(argv)
    <2>1. CASE 1 <= Len(argv)
      <3>1. 1 \in 1 .. Len(argv) BY <1>2, <2>1
      <3>2. QED BY <1>2, <3>1, HeadsAt
    <2>2. QED BY <2>1
  <1>5. \A line, j : j \in Heads(line) => j \in Nat /\ ~(j < 1) BY DEF Heads
  <1>6. \A f \in ValueOptions : Latest(f, 1, cli.options[f])
    BY <1>1, <1>5 DEF Latest, GivenBefore, Given
  <1>7. QED BY <1>1, <1>2, <1>3, <1>4, <1>5, <1>6 DEF ParseInv

(* ParseInv holds in every reachable state.                                *)
THEOREM ReadingInductive == Spec => []ParseInv
  BY ParseInit, ParseInvStep, PTL DEF Spec

(* At the end of the line, an option is what the whole line asks for.      *)
LEMMA LatestIsAsked ==
    ASSUME ParseInv, Parsed, NEW f \in ValueOptions
    PROVE  cli.options[f] = Asked(argv, f)
  <1>1. Len(argv) \in Nat /\ i = Len(argv) + 1 BY ArgvIsLine DEF ParseInv, Parsed
  <1>2. Given(argv, f) \subseteq 1 .. Len(argv) BY DEF Given, Heads
  <1>3. GivenBefore(argv, f, i) = Given(argv, f) BY <1>1, <1>2 DEF GivenBefore
  <1>4. Latest(f, i, cli.options[f]) BY DEF ParseInv, Parsed
  <1>5. CASE Given(argv, f) = {} BY <1>3, <1>4, <1>5 DEF Latest, Asked
  <1>6. CASE Given(argv, f) # {}
    <2>1. PICK m \in Given(argv, f) :
             /\ \A j \in Given(argv, f) : j <= m
             /\ cli.options[f] = ValueAt(argv, m)
      BY <1>3, <1>4, <1>6 DEF Latest
    <2>2. Max(Given(argv, f)) = m
      <3>1. \A j \in Given(argv, f) : (\A k \in Given(argv, f) : j >= k) <=> j = m
        BY <1>1, <1>2, <2>1
      <3>2. QED BY <2>1, <3>1 DEF Max
    <2>3. QED BY <1>6, <2>1, <2>2 DEF Asked, ValueAt
  <1>7. QED BY <1>5, <1>6

(* The command line means what a reading of it as a whole says: the loop   *)
(* with its skips agrees with the reference for lines of every length.     *)
THEOREM LineReadAsWhole == Spec => []ParseMatchesReference
  <1>1. ParseInv => ParseMatchesReference
    <2> SUFFICES ASSUME ParseInv PROVE ParseMatchesReference OBVIOUS
    <2>1. ASSUME Parsed
          PROVE  /\ "verbose" \in cli.switches <=>
                        \E j \in Heads(argv) : argv[j].left = "verbose" /\ ~argv[j].eq
                 /\ ~AsksForHelp(argv)
      <3>1. Len(argv) \in Nat /\ i = Len(argv) + 1
        BY <2>1, ArgvIsLine DEF ParseInv, Parsed
      <3>2. \A j \in Heads(argv) : j < i BY <3>1 DEF Heads
      <3>3. QED BY <2>1, <3>2 DEF ParseInv, Parsed, IsVerbose, IsHelp, AsksForHelp
    <2>2. QED BY <2>1, LatestIsAsked DEF ParseMatchesReference, ParseInv
  <1>2. QED BY <1>1, ReadingInductive, PTL

(* main leaves the parser with the address the line asks for, an error, or *)
(* a clean exit, exactly as the line says.                                 *)
THEOREM StartsByTheLine == Spec => StartsAsTold
  <1> DEFINE Told ==
         LET ip == Asked(argv, "bind")
         IN  IF AsksForHelp(argv) THEN process' = "exit_ok"
             ELSE IF ip = Default \/ (~ip.eq /\ ip.left \in Addresses)
             THEN /\ process' = "spawning"
                  /\ bind_addr' = [ip |-> ip, port |-> Asked(argv, "port")]
             ELSE process' = "exit_err"
  <1>1. ASSUME ParseInv, ParseInv', ServeInv, Next,
               process = "parsing", process' # process
        PROVE  Told
    <2>1. CASE Parse
      <3>1. process' = "exit_ok" /\ argv' = argv /\ i' = i /\ Looping
        BY <1>1, <2>1 DEF Parse, ParseStep, KeyValue, OptionThenValue, Ignored,
                          Switch, HelpOrVersion
      <3>2. AsksForHelp(argv) BY <1>1, <3>1 DEF ParseInv, Looping, AsksForHelp
      <3>3. QED BY <3>1, <3>2
    <2>2. CASE Start
      <3>1. /\ Parsed
            /\ IF AddrParses(cli.options.bind)
               THEN bind_addr' = BindAddr(cli.options) /\ process' = "spawning"
               ELSE process' = "exit_err"
        BY <2>2 DEF Start
      <3>2. "bind" \in ValueOptions /\ "port" \in ValueOptions
        BY DEF ValueOptions, TextOptions, NumberOptions, NumberBits
      <3>3. cli \in Cli BY <1>1 DEF ParseInv
      <3>4. /\ cli.options.bind = Asked(argv, "bind")
            /\ cli.options.port = Asked(argv, "port")
        BY <1>1, <3>1, <3>2, LatestIsAsked
      <3>5. ~AsksForHelp(argv)
        <4>1. Len(argv) \in Nat /\ i = Len(argv) + 1
          BY <1>1, <3>1, ArgvIsLine DEF ParseInv, Parsed
        <4>2. \A j \in Heads(argv) : j < i BY <4>1 DEF Heads
        <4>3. QED BY <1>1, <4>2 DEF ParseInv, AsksForHelp, IsHelp
      <3>6. QED BY <3>1, <3>4, <3>5 DEF AddrParses, BindAddr
    <2>3. CASE SpawnWorker \/ SpawnFails \/ JoinAll
      BY <1>1, <2>3 DEF SpawnWorker, SpawnFails, JoinAll
    <2>4. ASSUME NEW w \in Workers, StartUp(w) \/ Accept(w) PROVE FALSE
      <3>1. worker[w] # "none"
        BY <1>1, <2>4, StartUpSteps DEF Accept, Waiting
      <3>2. spawned = 0 BY <1>1 DEF ServeInv
      <3>3. QED BY <1>1, <3>1, <3>2 DEF ServeInv, Workers
    <2>5. ASSUME NEW c \in Clients,
                 \/ ClientConnects(c) \/ ClientLeaves(c)
                 \/ Request(c) \/ OwnStep(c) \/ Hello(c) \/ TaskEnds(c)
          PROVE  FALSE
      <3>1. ~Exited BY <1>1 DEF Exited
      <3>2. QED BY <1>1, <2>5, <3>1, ClientSteps
    <2>6. QED
      BY <1>1, <2>1, <2>2, <2>3, <2>4, <2>5
         DEF Next, MainStep, Done, AcceptFails, vars, parseVars
  <1>2. ParseInv /\ ParseInv' /\ ServeInv /\ [Next]_vars =>
           [process = "parsing" /\ process' # process => Told]_vars
    BY <1>1
  <1>3. QED BY <1>2, Inductive, ReadingInductive, PTL DEF Spec, StartsAsTold

-----------------------------------------------------------------------------
(* Type correctness.                                                       *)

(* The variables no other invariant speaks of.                             *)
RestTyped ==
    /\ bind_addr.ip \in Argument \cup {Default}
    /\ bind_addr.port \in Argument \cup {Default}
    /\ owner \in [Clients -> 0 .. NumWorkers]
    /\ left \subseteq Clients /\ taken \in BOOLEAN

(* The server's remaining variables keep their domains.                    *)
LEMMA RestStep == ParseInv /\ RestTyped /\ [Next]_vars => RestTyped'
  <1> SUFFICES ASSUME ParseInv, RestTyped, [Next]_vars PROVE RestTyped' OBVIOUS
  <1> USE DEF threads, tasks
  <1>1. CASE UNCHANGED <<bind_addr, owner, left, taken>> BY <1>1 DEF RestTyped
  <1>2. CASE Start
    <2>1. bind_addr' \in {bind_addr, [ip |-> cli.options.bind, port |-> cli.options.port]}
          /\ UNCHANGED <<owner, left, taken>>
      BY <1>2 DEF Start, BindAddr
    <2>2. "bind" \in ValueOptions /\ "port" \in ValueOptions
      BY DEF ValueOptions, TextOptions, NumberOptions, NumberBits
    <2>3. cli.options.bind \in Argument \cup {Default}
          /\ cli.options.port \in Argument \cup {Default}
      BY <2>2 DEF ParseInv, Cli
    <2>4. QED BY <2>1, <2>3 DEF RestTyped
  <1>3. ASSUME NEW c \in Clients, ClientConnects(c) \/ ClientLeaves(c)
        PROVE  RestTyped'
    BY <1>3, ServerAssumption DEF ClientConnects, ClientLeaves, RestTyped, Workers
  <1>4. CASE MainStep
    BY <1>1, <1>2, <1>4 DEF MainStep, Parse, SpawnWorker, SpawnFails, JoinAll
  <1>5. ASSUME NEW w \in Workers, StartUp(w) \/ Accept(w) PROVE RestTyped'
    BY <1>1, <1>5
       DEF StartUp, BuildRuntime, RuntimeFails, Listen, ListenFails, Accept
  <1>6. ASSUME NEW c \in Clients, Request(c) \/ OwnStep(c) \/ Hello(c) \/ TaskEnds(c)
        PROVE  RestTyped'
    BY <1>1, <1>6
       DEF Request, OwnStep, Hello, TaskEnds, Lookup, QueryEnds, Dial, ConnectEnds,
           ProbeEnds, Moves, Returns
  <1>7. QED BY <1>1, <1>3, <1>4, <1>5, <1>6 DEF Next, Done, AcceptFails, vars

(* In every reachable state the variables have their types.                *)
THEOREM TypeCorrect == Spec => []TypeOK
  <1>1. Init => RestTyped
    BY ServerAssumption DEF Init, RestTyped, NoAddr
  <1>2. ServeInv /\ ParseInv /\ RestTyped => TypeOK
    <2> SUFFICES ASSUME ServeInv, ParseInv, RestTyped PROVE TypeOK OBVIOUS
    <2>1. argv \in Seq(Argument) /\ i \in 1 .. Len(argv) + 1 /\ cli \in Cli
      BY ArgvIsLine DEF ParseInv
    <2>2. QED BY <2>1 DEF TypeOK, ServeInv, RestTyped
  <1>3. QED
    BY <1>1, <1>2, RestStep, Inductive, ReadingInductive, PTL DEF Spec
=============================================================================
