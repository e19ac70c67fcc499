# netSLS in TLA+

netSLS runs the Hadoop YARN Scheduler Load Simulator (SLS) against a network
emulator: the simulated containers of a MapReduce job transfer their input over
an emulated data-centre network instead of "instantly". This directory holds
TLA+ models of the program's own logic, the TLC configurations that check them
on small instances, and theorems about them that TLAPS checks.

## 1. Inventory

### Components, their state and their operations

| Component | Code (under `src/`) | State | Operations |
|---|---|---|---|
| RPC handlers of the network emulator | `network_emulator/network_emulator.py`, `rpc_server.py`, `main.py` | the experiment, the topology, the transport API | `start_emulation` (resets, builds, initialises), `transmit_n_bytes`, `register_coflow`, `unregister_coflow`, `stop` from the handler of a signal |
| Transport API | `network_emulator/transport_api.py` | nodes, receiver "pids" | `init`, `reset`, `transmit_n_bytes` |
| Process manager | `network_emulator/process_manager.py`, `process.py`, `ssh_tools.py` | `__running_processes`, stop event, polling thread | `start`, `stop`, `run`, `start_process`, `reset`, `kill` |
| Daemonized processes | `network_emulator/transport_bin/daemonize`, `tcp_send`, `tcp_receive` | the command, its log, the pid files of its worker | exit, append the pid to `pids_successful` or `pids_failed` |
| Publisher | `network_emulator/publisher.py` | a ZeroMQ socket and its lock | `publish` |
| Topologies | `network_emulator/topology.py`, `sls/.../networkemulator/Topology.java` | switches, hosts, links, counters of the constructors | `Topology`, `FatTree`, `Clos` |
| Task runner | `sls/.../scheduler/TaskRunner.java` | a delay queue of tasks, each with `nextRun` | first, middle and last step of every simulator |
| MapReduce application master | `sls/.../appmaster/AMSimulator.java`, `MRAMSimulator.java` | pending, scheduled, assigned and failed maps and reduces, finished counters, response queue | heartbeat: process responses, request containers, check the end; restart |
| Node manager | `sls/.../nodemanager/NMSimulator.java`, `scheduler/ContainerSimulator.java` | containers running, waiting for transmissions, in the delay queue, completed, released | heartbeat; `addNewContainer` and `cleanupContainer` from AM threads; ZeroMQ results |
| Scheduler wrapper | `sls/.../scheduler/ResourceSchedulerWrapper.java`, `RMNodeWrapper.java` | queue metrics, preempted containers, application map | `allocate`, `handle` |
| Simulation runner | `sls/.../SLSRunner.java` | `remainingApps`, node and AM maps | start-up, `decreaseRemainingApps`, exit |
| Statistics | `sls/.../statistics/CompletedTasksLogger.java` | a counter of completed tasks | count, periodic write |
| Metrics and web pages | `sls/.../scheduler/*Metrics.java`, `web/SLSWebApp.java`, `html/` | gauges | read only |
| Trace tools | `generator/`, `sls/.../RumenToSLSConverter.java`, `utils/SLSUtils.java` | none | file conversion |

### How they interact

* The Java simulator calls the emulator by JSON-RPC (`NetworkEmulatorClient`)
  and subscribes to its ZeroMQ publisher; results are published by the polling
  thread of the process manager, one topic per host.
* AM simulators call `allocate` of the resource manager, whose scheduler is
  wrapped by `ResourceSchedulerWrapper`, and put the answers in a queue of
  their own; they start containers by calling the node manager simulator of the
  container's host directly, on their own thread.
* Node manager simulators report completed containers in their heartbeat; the
  status reaches the AM in a later allocate response.
* All simulators are tasks of one `TaskRunner` pool: two tasks run at the same
  time on different threads, one task never runs twice at the same time.
* The last application that the scheduler removes ends the JVM.

### What is hard here

Concurrency without a common lock (polling thread against RPC thread; AM
threads against node manager threads; delay-queue items whose delay changes),
results that arrive before the id they belong to, files rotated while they are
written, processes of one emulation that end in the next, failing remote
commands in the middle of a reset, a signal whose handler resets the emulator in
the middle of another handler, an application master that is killed while
its tasks run, a task launched again while the node still cleans up after its
first container, counters of resources that are kept beside the scheduler they
count for, loops over racks with an odd one left, and an exit that races the last
step of the application it counts. `PROJECT.json` lists each of them at its line under "hazards".

### What makes each part correct

* **Process manager, RPC handlers.** A transmission is reported at most once,
  and as it ended. While the manager is reset nothing else touches its list and
  files, no process that is alive is forgotten, and the next polling thread is a
  fresh one. A complete pid line of a listed process is not lost while its worker can be
  reached; a process
  leaves the list by being reported or by a reset. The thread gets to the result
  it can see, and a reset gets past the join.
* **MapReduce application master.** Every task is in one place: to do, failed,
  requested, in a container, or finished; the counters count the last. The
  containers the resource manager owes or has answered with are as many as the
  tasks that wait for one. Reduces start after the maps. A job is finished when
  its tasks are, also across kills. A restart comes from a kill of the AM
  container, leaves no container with two occupants, and the job still ends.
* **Node manager.** A launched container is in the delay queue once, or on its
  way to a heartbeat, or reported; it is reported once, not before its work time
  is over, and in the end. Nothing depends on what the emulator leaves out.
* **Task runner and simulation runner.** One task has one step at a time, and
  its last step is the last. The count of applications reaches 0 when all are
  removed and not before; the program exits then, with all jobs done, and gets
  there.
* **Topologies.** A fat tree is a balanced tree. A Clos network connects the
  racks it is for and stays connected without any one switch. Two hosts never
  play the same host of the traffic generator.
* **Scheduler wrapper.** What is pending of a queue is what the scheduler owes or
  has allocated; what is allocated is what its applications hold, also after
  kills, and nothing of it is left when all is over. An application that ends
  leaves no other container behind.
* **Emulator under a signal.** A reset inside another handler keeps all that a
  reset promises, and clients still see the same service.

## 2. Plan

The order is that of the importance of the behaviour, and of what the later
modules need.

1. **The emulator**: `ProcessManager`, composed by `NetworkEmulator`;
   `TransmissionService` is what it promises, and `NetworkEmulator` implements
   it. Theorems in `NetworkEmulator_proofs`.
2. **The application master**: `MRAMSimulator`, one job against the resource
   manager as this class sees it. Theorems in `MRAMSimulator_proofs` and
   `MRAMSimulatorEnd_proofs`.
3. **The node manager**: `NMSimulator`, whose emulator is `TransmissionService`,
   with tasks that are launched a second time. Theorems in `NMSimulator_proofs`.
4. **Task runner and simulation**: `TaskRunner`, and `Simulation`, which
   composes it with coarse application masters, nodes and a resource manager.
   Theorems in `Simulation_proofs`.
5. **Topologies**: `Topology`, the constructors turn by turn, for a range of
   sizes. Theorems in `Topology_proofs`.
6. **Scheduler wrapper**: `SchedulerWrapper`, its counters over every step of
   `MRAMSimulator`. Theorems in `SchedulerWrapper_proofs`.
7. **A signal that interrupts a handler** of the emulator: `Signals`, on top of
   `NetworkEmulator`. Theorems in `Signals_proofs`.

All of it is done, and every safety property of the passing runs is also a theorem. What
the plan leaves: two AM threads that add to one `ArrayList` at once; several applications
in one queue.

Each question to the system has one run; a run for a component that is composed
with another (`Signals`, `SchedulerWrapper`) takes the place of the run of the
inner one, whose properties it checks too.

## 3. Modules and how they correspond to the code

| Module | Models | Uses |
|---|---|---|
| `ProcessManager` | polling thread, process list, wrappers, pid files, logs | |
| `NetworkEmulator` | RPC thread with its handlers, over the process manager | extends `ProcessManager`, instance of `TransmissionService` |
| `Signals` | a signal in the middle of a handler | extends `NetworkEmulator` |
| `TransmissionService` | what clients are promised about transmissions | |
| `MRAMSimulator` | the AM of one job, and the resource manager it sees | |
| `SchedulerWrapper` | the counters of a queue, from what passes through the wrapper | extends `MRAMSimulator` |
| `NMSimulator` | one node, its containers, and the threads that add them | instance of `TransmissionService` |
| `TaskRunner` | delay queue and threads of the simulator | |
| `Simulation` | count of applications, exit, who waits for whom | extends `TaskRunner` |
| `Topology` | constructors of the two topologies, numbers of hosts | |
| `..._proofs` | theorems | extend the module, TLAPS |
| `MC...` | instances for TLC | |

`PROJECT.json` gives, under "map", the lines of the source for every
definition. Definitions under a comment "Variant" (or "Variants") are not part
of the models: each is one mistake a change to the code could make, and shows
that the property named with it in `PROJECT.json` notices.

### Emulator

| Model | Code |
|---|---|
| `running`, `listed` | the dictionaries of `__running_processes` and its keys |
| `stop`, `pm` | the stop event; the program counter of `ProcessManager.run` (`new`: a `Thread` not started, `ended`/`crashed`: it returned or raised) |
| `file`, `logged` | the inode behind a wrapper's open pid file (`current`, `rotated`, `gone`), and the logs in the working directory |
| `reaped` | `successful_processes`, `failed_processes` of one iteration |
| `life`, `outcome` | the remote process and its `daemonize` wrapper |
| `rpc`, `caller`, `starting`, `nodesLeft`, `killsLeft` | program counter and locals of the handlers |
| `ClearStop` ... `Report` | one remote command, or one unlocked access, of `run` per action |
| `CommandFails`, `LogFails`, `Flaky` | a remote `mv` or `cat` that fails on a worker which ssh may not reach: `run` goes on with the next file; the `cat` of a log that fails ends the thread |
| `OpenPidFile`, `WritePid` | the wrapper's `>>`: the file is opened first and written later, so a rotation in between catches the line |
| `StartEmulation` ... `Reply`, `Shutdown` | `start_emulation`, `transmit_n_bytes`, `transport_api.init`, `__reset`, the signal handler |

The RPC server runs one handler at a time: no handler yields to gevent. All
interleaving is with the polling thread, the wrappers and the processes.
A process object stands for its pid.

### Emulator under a signal

Python runs the handler of SIGTERM in the main thread, which is the RPC thread,
between two steps of the handler it finds there. `Push` puts `stop` on top of
that handler and keeps in `saved` where it goes on; the steps of the nested reset
are those of `NetworkEmulator`; `Resume` is the rest of `stop` (server and workers
are gone) and the return. `locked` says that the interrupted handler holds
`__running_processes_lock`, which is not reentrant: then the nested reset waits for
ever, before it sets the stop event when a node has a receiver (`ProcessManager.kill` takes
the lock first; `ReachesStop` says when there is none), and at the join otherwise.
`PollNobody` is a thread that finds no workers.

### Application master

`pc` is where the AM is between two points at which the resource manager can be
seen to have moved: `first` (before the first step's allocate), `awaitAM` (its
polling loop), `middle` and the stages of `processResponseQueue`. The lists
`pending`, `pendingFailed`, `scheduled`, `assigned`, `finished` are functions of
the kind (`map`, `reduce`), where the code has a field for each. `demand`,
`allocated`, `held`, `ending`, `exited` are the resource manager and the nodes
as the AM can see them: `allocated` and `exited` are emptied by an allocate
call, which puts them in an answer. `RMKill` kills a container that was handed
out, the AM's or a task's. `Restart` is `restart()` line by line, with what it
forgets.

### Scheduler wrapper

`pendingMem` and `allocatedMem` are the counters `counter.queue.X.pending.memory`
and `...allocated.memory`; cores are counted by the same statements. Every step of
`MRAMSimulator` that calls `allocate` is taken with
`updateQueueWithAllocateRequest` (`Account`), a node's completion with
`updateQueueWithNodeUpdate` (`Succeeded`, `Aborted`), the last step with the
removal of the attempt (`RemoveAttempt`). `aborting` are the killed containers their
node has not reported, `leaked` those that ended without being subtracted; the
code has neither, the properties need both. A step of `SchedulerWrapper` is a step
of `MRAMSimulator` or leaves its variables alone, so what is proved of the latter
holds here.

### Node manager

The heartbeat (`Notify`, `Notified`, `Scan`, `RemoveDone`, `Poll`, `Beat`) is
split at every access to a list that AM threads also use. `cursor` and `stale`
are the iterator of the heartbeat over the plain `ArrayList`
`containersWaitingForTransmission`. `queue` is the array behind the
`DelayQueue`: the heap keeps its order by the end times at insertion, and the
end times of reduces change while they are in it, so sift-up and sift-down are
written out (for up to three containers, which is all a heap of this size can
do). A task is launched by a thread of its own in the steps of
`addNewContainer` (`AddWaiting`, `AddQueue`, `PutRunning`) and
`startTransmission` (`Input`, `Transmit`, `AddTransmission`, `SetDeadline`; `TransmitFails`
is an RPC that throws, before or after the emulator took the transmission). An AM
container leaves in the two locked blocks of `cleanupContainer` (`RemoveAM`,
`CompleteAM`). A task in
`Relaunched` may be launched a second time, after its first container was killed or
for a restarted job. It is the same `ContainerSimulator`: what `running` has for the
old container is then the task with its new container, its end time and its open
transmissions stay from the first launch, and `Release` of the old container
removes the first entry of the task from every list.

### Task runner and simulation

`where`, `delay`, `left`, `atStart` are the state of a task: in the queue, in a
step on a thread, over, or dead of an exception; `nextRun` and `endTime` relative
to now; whether `nextRun` is still the start time, which is how `run` tells the
first step from the others. `Take` is the pool: the head of the delay queue, when it is
due and a thread is free. `Simulation` puts the steps of application masters and
nodes into it. Its jobs are coarse (see section 6); what is kept from the
detailed modules is who waits for whom, and what `isFinished`, the end time and
the count of applications depend on.

### Topologies

One action is one turn of a loop: `AddRack` of the constructor of `Topology`;
`JoinPair`, `NextLayer` of `FatTree`; `AddCore`, `AddPod`, `WireCore` of `Clos`. Links
lead up. Integer division is Python 2's. `HostId` is the number that
`start_emulation` derives from an address.

### How the models fit together

`NetworkEmulator` implements `TransmissionService` (proved), also under signals
(proved, and checked by `emulator_signals`), and `NMSimulator` uses a service of that specification and no other
(proved, and checked by `node`: `UsesService`), so the node is verified against anything the
emulator can do towards it, results that never come included.
`MRAMSimulator` and `NMSimulator` meet in the container: the AM model lets a node
complete any container it holds, once (which `ReportedOnce` and `EndsUnlessDead`
say of the node). `Simulation` takes from both that a job whose tasks are
completed is finished (`FinishedMeansDone`).

## 4. What the runs show

| Run | Instance | Properties | What it shows |
|---|---|---|---|
| `emulator_signals` | 1 node, 1 worker, 2 receivers, 1 transmission, 2 starts, a signal anywhere | `SignalTypeOK`, `OneTrueReport`, `ResetInv`, `CrashNeedsRestart`, `ImplementsService` | across a restart with left-over processes, lines and logs, and with a reset in the middle of any handler: what is published is true and published once, a reset runs alone, the first emulation never loses its thread to a log |
| `emulator_workers` | 2 nodes on 2 workers, 1 receiver, 1 transmission, 2 starts; `w1` may not be reached, at any command | `TypeOK`, `DropsOnlyDead`, `NoLineDropped`, `LeavesByReport`, `FoundIsPublished`, `JoinEnds` | with two workers polled and killed in turn nothing is dropped while alive, no complete line is lost but in a `cat` that fails, and the thread gets to what it can see, also while the other worker is out of reach |
| `am_tasks` | 2 maps, 2 reduces, 2 kills of tasks, under the wrapper | `WrapperTypeOK`, `CountInv`, `OnePlace`, `RequestInv`, `ReducesAfterMaps`, `FinishedMeansDone`, `OneLiveAtEnd`, `JobEnds` | the AM without a restart: bookkeeping, requests, order, end, and nothing left behind |
| `am_restart` | 1 map, 1 reduce, a kill of a task and one of the AM, under the wrapper | `ContainerUsedOnce`, `EveryContainerHasTask`, `PendingIsOwed`, `AllocatedIsHeld` | what a restart leaves intact, in the AM and in the counters |
| `node` | a map launched twice, an AM container, 2 kills, RPCs that may fail | `TypeOK`, `ReportedOnce`, `Accounted`, `UsesService` | the lists under every interleaving of heartbeat, launches and relaunches |
| `node_live` | a map without a transfer, a reduce with one, 1 kill | `Accounted`, `NotTooEarly`, `EndsUnlessDead` | no container is early, and every one ends, unless an exception ended a task |
| `simulation` | 2 jobs of 1 task, 1 node, 3 threads, 1 step that throws | `TypeOK`, `CountInv`, `ExitIsEnd`, `LastMeansFinished`, `SimulationEnds` | the exit is right, and comes |
| `topology` | every request of up to 5 racks with 1 to 3 hosts, the hard-coded number of hosts per rack being 2 | `TypeOK`, `TreeIsBalanced`, `ClosCutsOddRack`, `ClosSurvivesSwitch`, `HostIdsDistinct` | who is connected to whom, over how many layers, and without one switch |
| `accepted_is_published` | 1 node, 1 receiver, 1 transmission, 1 start | `AcceptedIsPublished` | violated, see below |
| `stop_ends` | 1 node, 1 receiver, 1 start, a signal | `StopEnds` | violated |
| `am_restart_ends` | 1 map, 1 reduce, a kill of the AM | `JobEnds` | violated |
| `bandwidth_doubles` | up to 4 racks of 1 host | `BandwidthDoubles` | violated |

The passing runs reach between 11 thousand and 2.9 million distinct states.

### Disagreements between the code and what it says

Four properties state what a comment promises, and TLC refutes them with
behaviours the code allows:

* **A result may never be published** (`process_manager.py:141`). `start_process`
  lists the process after it was started. If it ends and the thread polls its
  pid in between, the pid is not that of a listed process and is dropped. A line
  that a wrapper writes to the rotated file after that was read is lost too, and so is
  a transmission that is listed before the new thread has made the list of its worker
  (`process_manager.py:67-68`), which drops it. `NoLineDropped` and `LeavesByReport` say
  how far the loss goes: once the lists are made a listed transmission stays listed, and
  a line that was complete is lost only when a `cat` fails after its `mv`.
* **A stop may never end** (`main.py:36`). A signal that arrives while
  `start_process` or `__kill_all_processes` holds the lock runs `stop` above it:
  its reset joins a thread that wants the lock, or wants the lock itself.
  `ResetInv` and `ImplementsService` say that nothing worse happens.
* **A job with a killed AM container never ends** (`MRAMSimulator.java:341`):
  `pendingReduces.addAll(pendingReduces)` after `pendingReduces.clear()`.
* **Every second link of a fat tree has no limit** (`topology.py:160`): its
  bandwidth is given under another keyword than that of the first. The limits that are
  given do double (`GivenLimitsDouble`, section 8).

### Known behaviour of the code that no run states

Some hazards go wrong in the code as it is, and in the models, which follow it. A
property that is to hold has to leave these cases out. `PROJECT.json` lists such a hazard without a
property for the case, and notes which one leaves it out.

* **Emulator.** `ProcessManager.kill` is called with what `start_process`
  returned, a Boolean, and never finds a process of that name: receivers survive
  until `__kill_all_processes`. The stop event is cleared by the new thread, so a
  stop that comes before it is lost (`JoinEnds` has this as a premise). A failing
  `kill` in a reset leaves the old list and no thread. A wrapper that writes its
  pid after `start_emulation` removed the logs makes the next thread look for a
  log that is not there, raise and die (`process_manager.py:107`);
  so does a log on a worker that cannot be reached, which ends the polling of all workers;
  `CrashNeedsRestart` says that the first emulation is safe from all else.
* **Emulator under a signal.** A process that the interrupted handler registers
  after the nested reset is never killed; a thread that it starts after the
  workers are gone never ends; a failing `kill` of the nested reset aborts both
  handlers.
* **Node.** A reduce's work phase can begin before all of its transmissions are
  made: `addTransmission` and the heartbeat's check race. An expired container
  can sit behind one that is not expired, as end times change inside the heap; it
  is reported later. The heartbeat iterates over a plain `ArrayList` to which AM
  threads add: the iterator throws and the task runner does not run the node's
  task again (`EndsUnlessDead` has this as a way out). A container whose work was
  over before it was put into `running` stays in there; when it is cleaned up later,
  that takes its task's second container out of the queue, which is then never
  reported (`CompletedAndKilled` in `Accounted`). A map of a restarted job that is
  launched while its first container still runs is reported twice in its second
  container and never in its first. A task that is launched a second time may
  complete at once, from the end time of its first launch.
* **Application master and wrapper.** After a restart requests of the old run
  stay open, and an application may end with containers it never picked up:
  `OneLiveAtEnd` ("have 0 or 1", `ResourceSchedulerWrapper.java:259`) holds without
  a restart only, and memory stays in the counters (`leaked`).
* **Simulation.** The first step of an AM holds its thread until a container is
  allocated, which needs a heartbeat of a node, which needs a thread of the same
  pool: with as many applications as threads nothing moves
  (`MRAMSimulator.java:234`; `simulation` has one thread more). A finished AM whose
  heartbeats lag more than an interval stays in its middle steps, since each moves
  the end time again; this is why `SimulationEnds` assumes that the machine keeps
  up. With as many AM containers as the cluster has room for, no task container
  fits and nothing ends: the instance of `simulation` has room for one more
  (`Slots = 3`; with 2 `SimulationEnds` fails). The row with the runtime of the last
  application may be lost, as the program exits while its last step goes on
  (`SLSRunner.java:542`).
* **Topologies.** The guard `end > len` of `Clos` never fires under Python 2: the
  number of pods is rounded down, and the last of an odd number of racks is left
  unlinked. `ClosCutsOddRack` states exactly who is cut off.

## 5. Bounds

| Bound | Value | Why it is enough |
|---|---|---|
| `MaxStarts` | 2 | what is carried from one emulation to another is already carried to the second |
| `Receivers`, `Transmissions` | 1 or 2, 0 or 1 | the properties speak of one process; the others matter as something else that is listed, alive, killed or in a pid file at that time. The theorems hold for any number |
| `Flaky` | none, or one of two workers | the other one shows that the thread gets past the one out of reach; the theorems hold for any set |
| `Workers` | 1 or 2 | two are needed for a thread that is at one worker while the other moves, and for a kill that fails on the second |
| `MaxTaskKills`, `MaxAMKills` | up to 2, up to 1 | a kill of each of two tasks, or of the same task again; a kill of a task before or after the restart |
| `allMaps`, `allReduces` | up to 2 each | a map unfinished while another is, which the order of maps and reduces needs |
| signals | one interrupts at a time, none after `stop` came to its end | one reset inside another handler is what is new; a second one finds it or waits like it |
| `Tasks` of a node | 1 launched twice and an AM, or 2 | one entry of the queue ahead of another, one on the iterator while another is added |
| `MaxAge` | 0 or `LifeTime` | ages matter to `NotTooEarly` only |
| `LifeTime`, `Patience` | 1, 2 | before, at and after each end; the code's factor of 50 only has to be above 1 |
| `MaxKills`, `MayFail` | 1 or 2, TRUE | a container has one kill at most that counts; a second one for a second container |
| `Far`, `MaxLag` | 4, 2 | a lag of more than an interval, which is what matters to the last step; a larger one counts as this one |
| `Threads` | 3 | one more than applications; with as many nothing moves (section 4) |
| `Slots`, `Work` | 3, 1 | both AM containers and one task |
| `MaxThrows` | 1 | the theorems hold for any number |
| `Mem` | 1, 5, 25 | no sum of up to four containers is that of others |
| `MaxRacks`, `MaxHosts`, `HostsPerRack` | 5 (4), 3 (1), 2 (1) | two full pods and an odd rack; three layers of a tree, with an odd one in each; a rack larger than the hard-coded number of hosts |

The receivers of `emulator_signals` are interchangeable (one node) and are the
symmetry set of that run, whose temporal property `ImplementsService` is one of safety and
symmetric in them. Deadlock is checked where the system has no end of its own
(`emulator_workers`, where a shut-down emulator stutters); under a signal, a job, a node,
a simulation and a constructor stop, by ending, by an exception or by waiting for a
lock, and those runs say so.

## 6. Abstractions

* **Emulator.** The pids of one worker are not reused while they matter. MaxiNet, the
  topology and the switches are one step that may fail (`Setup`). The removal of
  the working directory is one step over any subset of the workers. Receivers'
  results are not published under a key anyone listens to; they are in the model as processes
  that can be in the way. `register_coflow` and `unregister_coflow` keep no
  state. In `NetworkEmulator` a signal arrives between two handlers. A restart of the emulator itself,
  and lost ZeroMQ messages, are not modelled: towards the node a lost message is
  one that never comes, which `NMSimulator` allows.
* **Signals.** The signal is SIGTERM. SIGINT runs the same statements, but from a
  terminal it also reaches the remote commands under way. Python 2's `Thread.join` is not interrupted. Calls that clients queue at
  a stopped server are not served.
* **Application master.** A request for a kind replaces the earlier one, as in
  Hadoop's scheduler; nodes and racks of a request are left out. A kill only
  hits a container that was handed out. RPCs of the AM do not fail. The figures
  for progress and the metrics are left out.
* **Scheduler wrapper.** One application in the queue. Whether the scheduler
  announces a preemption in an answer before the node reports the container is
  left open. The wrapper finds a completed container among the live ones by `==` on
  their ids (`ResourceSchedulerWrapper.java:318`), which is taken to match: simulator and
  resource manager share one JVM and no id is serialised between them; were an id
  rebuilt, the memory of each success would stay in the counter. No caller releases containers in an allocate call. An exception of the
  scheduler that the accounting hides (`ResourceSchedulerWrapper.java:217`) is
  not modelled.
* **Node manager.** An addition to a list is one step. `Poll` is one step from the
  look at the head to the status list. A second launch is allowed as soon as the
  first container was killed, which is earlier than the AM can know of it.
  `nodeHeartbeat` (`NMSimulator.java:198`) is a call inside the process and is taken not
  to throw; an exception would end the node's task and lose the statuses just taken
  off the lists.
  Names of results are their transmission ids, which are unique.
* **Topologies.** Names, addresses and dpids are numbers here; names collide only
  from 100 racks or hosts on. The lookup of the class by name accepts the base class
  too, which is not modelled.
* **Simulation.** A job asks for all of its containers at once, and a container
  is over by the next heartbeat of its node. A task does not use up its
  1000000 rounds. Jobs have distinct ids (`DistinctIds`, an assumption: with two
  equal ids the count would start too low). Metrics are on, as in the
  configuration of the repository. The time between two steps is any number of
  ticks up to `MaxLag`.

## 7. Fairness

* **Emulator.** Weak fairness of the RPC thread inside a handler, of the polling
  thread, and of each wrapper: operating-system threads and processes, each
  remote command of which returns, be it with an error. No client has to call, and no process has to
  end.
* **Signals.** The same, with no fairness of signals.
* **Application master.** Weak fairness of its steps (the task runner repeats
  them), of the allocation for each kind that is asked for (the cluster has
  room, which is a premise of a job's end), and of the completion of some held
  container (its node reports it by its work time).
* **Node.** Weak fairness of the heartbeat, of each thread that adds, and of
  time. None of the emulator: results may stay out, which is what the deadline
  of a transmission is for.
* **Simulation.** Weak fairness of every thread, step and handler of the
  resource manager, and of time. The queue of tasks gives no more: which of two
  due tasks is taken first depends on their time only.

Liveness properties name what may end them instead of ruling it out: an
exception (`EndsUnlessDead`, `SimulationEnds`), a stop or a crash of the thread
(`FoundIsPublished`).

## 8. What is proved

All theorems hold for every value of the constants that fits the named
assumptions (`ProcessAssumption`, `PlacementAssumption`, `BoundAssumption`,
`SignalAssumption`; `TaskAssumption`, `DistinctAssumption`, `KillAssumption`,
`NoneAssumption`, `MemAssumption`;
`ContainerAssumption`, `TransferAssumption`, `TimeAssumption`, `SwitchAssumption`;
`RunnerAssumption`, `SimulationAssumption`, `DistinctIds`; `TopologyAssumption`),
which TLC evaluates on its instances. `DistinctAssumption` says that no task is twice
in the trace: each is an object of its own, created for its entry. `ContainerAssumption` says that
AM containers are not task containers, and allows at most three of the latter on a node, for
which its heap is written out: the proofs about the node's lists use it for
sift-up and sift-down, and depend on no other bound.

**Emulator** (`NetworkEmulator_proofs`), for any nodes, workers, processes and
number of starts:

* `TypeCorrect`: `TypeOK`. It carries the two facts that a handler that is about
  to register or to reply has a process in hand.
* `ReportsAreTrue`: `OneTrueReport`. It is not inductive: the thread publishes
  what it has in `reaped`, so that must be how the processes ended
  (`ReapedMatches`), which must be known once they ended (`EndedHasOutcome`); a
  second report is excluded because a reported process is off the list for good
  (`ReportedIsOff`), which needs that the one process about to be listed was
  never reported (`RegistersNew`), and a process that may still be launched is
  not on the list (`ListedIsStarted`). Their conjunction `ReportInv` is
  inductive (`ReportInvariant`).
* `ResetIsSafe`: `ResetRunsAlone`, `DropsOnlyDead`, `ThreadIsFresh`. The
  inductive `ResetInv` adds that during the kills every listed process that is
  alive is on a worker still to visit, and that every process's worker is a key
  of the list (`ResetInvariant`).
* `Refinement`: `ImplementsService`. The mapping reads a transmission's stage
  from the life of its process, its result from the outcome and its reports from
  what was published; every step maps to a step of the service or leaves all
  three alone, by `ReportInv`. A kill and an iteration of the thread move many
  transmissions at once, which is why a step of the service is one for each.
* `FirstThreadSurvives`: `CrashNeedsRestart`. The inductive `LogInv` follows the
  first start: before it nothing was ever launched, so its reset, which removes the
  logs, removes none that matters (`NothingRan`), and from then on every process
  that was started has its log, until a second start. What else ends the thread is a
  log on a worker that cannot be reached.
* `LeavingIsReported`: `LeavesByReport`, from the types alone, step by step.
* `NoLineIsDropped`: `NoLineDropped`. It needs `HandInv`: when the thread rotates a
  file it has nothing in hand from the turn before, which the next assignment would
  overwrite, and a reset removes files only when nothing is listed. Its one way out is a
  `cat` that fails after the `mv`.

**Emulator under signals** (`Signals_proofs`): `SignalTypeCorrect`,
`SignalReportsAreTrue`, `SignalResetIsSafe`, `SignalFirstThreadSurvives` and
`SignalRefinement`, the properties above with a signal at any point. Every step is one of
`NetworkEmulator` or one of a few of the signal's own (`StepKinds`), so the lemmas
above carry over; what is new is `SavedInv`, what the interrupted handler finds
when it goes on. It says that a handler that holds the lock never does, that the nested
reset has left no listed process and an unstarted thread, and that a process whose
registration was interrupted is still not listed and was never reported.

**Application master** (`MRAMSimulator_proofs`), for jobs of any size and any number
of kills and, where nothing else is said, of restarts:

* `TypeInvariant`, `TypeCorrect`: `TypeOK`, with `AnswerInv`: one answer is worked
  through at a time and none waits meanwhile, since a request is only sent when the
  queue of answers is empty.
* `ContainersFindTasks`: `EveryContainerHasTask`. The inductive `OwedInv` counts the
  containers that the resource manager owes, has allocated or has put in an answer:
  never more than the tasks that are scheduled, but for one while the AM waits for
  its own. A restart drops answers and requests and keeps the scheduled tasks, which
  only lowers the count.
* `HostsOneThing`: `ContainerUsedOnce`. The inductive `LineInv` puts all containers on
  their way in one line: those of the answer in work, of the queued one, of the one the
  AM waits with, and those not handed out, in rising order of their ids and never
  used. What the AM takes out of an answer is then new.
* `TasksAddUp`: `CountInv`, until a restart. Each step moves tasks of one kind between
  two places (`Moves`); a launch puts a task into a container that had none, by
  `LineInv`.
* `ReducesWait`: `ReducesAfterMaps`, until a restart. When all maps have finished no
  container can raise their count again, since by `CountInv` no map is anywhere else.

And until a restart (`MRAMSimulatorEnd_proofs`):

* `JobsAreDone`: `FinishedMeansDone`. An application is also taken for finished when a
  container succeeds that runs no task the AM knows, so the proof is about what a report
  can say. `StatusInv`: a container is handed out before it is held, held before it is
  reported, and reported once. `SuccessInv`: until the job is finished, what succeeded
  or is about to is a container of a task in `assigned`; the AM's own is only told to
  end after that. Afterwards, by `CountInv`, nothing is assigned whose success could be
  counted a second time.
* `RequestsAddUp`: `RequestInv`. The inductive `ExactInv` makes the count of `OwedInv`
  exact. A request replaces what is open for its kind, so it must find nothing open:
  pending tasks go before any of their kind is scheduled (`PendingFirst`), a request for
  failed tasks waits until none is, and the other kind has nothing scheduled either, by
  `ReducesAfterMaps` while maps run and by `CountInv` when they are done.
* `TasksStayApart`: `OnePlace`, from `PlaceInv`: the lists of a kind and the tasks in its
  containers are pairwise apart and repeat nothing. A request appends to an empty list,
  by `ExactInv`, and a launch takes a container that runs nothing, by `LineInv`.

**Scheduler wrapper** (`SchedulerWrapper_proofs`):

* `WrapperWatches`: every step through the wrapper is a step of `MRAMSimulator` or leaves
  its variables alone, so all of the above holds under the wrapper too.
* `WrapperTypeCorrect`: `WrapperTypeOK`. The inductive `SetsInv` adds that the sets the
  counters speak of are finite, and that a container that was killed or lost is
  neither held nor in line to be handed out.
* `PendingAddsUp`: `PendingIsOwed`. A request adds to the counter what it asks for and
  the answer subtracts what it brings, but the scheduler replaces a request by the next
  one: the two agree until a restart because a request finds nothing open for its kind
  (`RequestFindsNothing`, from `ExactInv`), and after one the counter is only too high.
* `AllocatedAddsUp`: `AllocatedIsHeld`. `AllocInv` has the counter as the memory of three
  sets: held, killed and not yet reported, lost. `UnharmedInv` says what is different
  without a kill (no failed report, so no restart, and nothing in the last two sets) and
  `RemovedInv` that what is subtracted at the end is all there is, by `OneLiveAtEnd`.
  The sum over a set is counted per kind of container (`Number`): its memory is
  one number for all maps and one for all reduces, so that sums are products.
* `EndsWithOneContainer`: `OneLiveAtEnd`. `HeldInv` says where the containers are that
  the AM holds: its own, one of a task, or in an answer still to be looked at. It needs
  that the answer that brings the AM's container brings no other (`ExactInv`), that a
  launch always finds a task (`OwedInv`) and that a reported container is not held
  (`StatusInv`). At the end there are no answers and no tasks left, by `JobsAreDone`.

**Node manager** (`NMSimulator_proofs`), for any tasks within `ContainerAssumption`, any AM
containers and transmissions and any number of kills:

* `UsesTheService`: `UsesService`. A task that is launched a second time must not send
  what it sent before: what a thread has to fetch is input of its own task and was
  never sent (`FetchInv`), the inputs of two tasks being apart.
* `NodeTypeCorrect`: `TypeOK`, with `NodeInv`: a task is in the queue, or about to be put
  there by its thread, at most once for each of its launches (`LaunchInv`); what was never
  launched has no end and waits for nothing (`WaitInv`); the heartbeat's iterator is
  inside its list unless the list changed under it (`IterationInv`). The bound on
  the entries also bounds the queue, by an injection of its positions into the
  containers, and so the cases of the heap that are written out.
* `ReportsComeOnce`, `NoContainerIsLost`: `ReportedOnce`, `Accounted`, from `BookInv`, for
  every interleaving of heartbeat, launches, relaunches and clean-ups. `KillInv`: a
  clean-up is commanded and followed once. `SuccessInv`: while the only entry of a task
  is in the queue its first container has not completed. `EntryInv`: a task without an
  entry was completed or cleaned up. The case that makes it intricate is a container that
  completes before its thread puts it into `running`: it stays there, and a clean-up
  of it later takes the entry of its task's second launch. `EntryInv` says
  that this, and no other course of events, loses an entry.
* `NothingIsTooEarly`: `NotTooEarly`, from `TimeInv`: the age of a container and what is
  left of it are together never less than the work time, whatever set its end last, its
  first entry, a transmission or the deadline. Its hypothesis `MaxAge = LifeTime` is the
  value of the run: ages are capped there, and with a lower cap they would
  not count far enough to say anything.

The lists are proved about through two of their operators: `Copies`, how often an
element is in a list, and `Without`, a list without its first copy of one; lemmas say what each
list operation of the code does to both.

**Topologies** (`Topology_proofs`), for any number of racks and hosts:

* `TypeCorrect`: `TypeOK`, which has the ends of each link among the nodes that were
  added; the inductive `Built` adds that the racks are numbered in order and that each
  loop stays inside its list (`BuiltInvariant`).
* `HostsAreDistinct`: `HostIdsDistinct`, for racks no larger than the hard-coded
  number of hosts: the rack and the place in it are what division by the size gives back.
* `TreesAreBalanced`: `TreeIsBalanced`. What is built is a forest at every turn
  (`ForestInv`): each node has one link up but the roots still to be joined, which have
  none. At the end one root is left, so links are as many as the other nodes. `LayerInv`
  has the layers: for some number d of them, every rack is d links below a root of
  the layer being joined, and meets no root before (`Climbs`); and d is the least
  number of layers that leaves so few roots of so many racks (`Fits`), which
  halving the roots, rounded up, keeps. That is where an odd root must not be
  carried over without a switch of its own.
* `GivenLimitsDouble`: what is left of `BandwidthDoubles`, which the code violates
  (section 4). Every switch is above a link with a limit, and above a link that has
  one a limit is twice as large (`LimitsDouble`, stated in `Topology_proofs`): the links
  without a limit are all that breaks the rule. `BandInv` has the limits of the links
  into the roots of the two layers at hand.
* `ClosCuts`: `ClosCutsOddRack`. `ClosInv` says which links there are (host to rack, rack
  to its pod, pod to core) and that those of the pods passed are all there. Nothing
  leads out of a rack that is in no pod, so it reaches itself alone and nobody reaches
  it; two hosts of wired racks are six links apart, and there are at least six nodes,
  which is how far `Reached` counts.
* `ClosSurvives`: `ClosSurvivesSwitch`. A pod has two switches and so has the core: one
  of each is left, and four links over these lead from any wired rack to any other.

What is n links away (`After`) and what d layers join (`Joined`) are functions by recursion
on the naturals. That such a function exists and what it is at n + 1 is proved
here (`Recursion`, `AfterIs`, `JoinedIs`), as is induction: a set of
naturals that has 0 and with n also n + 1 has them all (`NatAll`), because the least one missing
could not be missing (`NatMin`, from the library's well-founded minimum). The
library's own induction theorems take an operator, which the provers cannot instantiate;
a set does the same service.

**Simulation** (`Simulation_proofs`), for any jobs, nodes, threads, intervals
and slots:

* `Invariance`: `TypeOK /\ CountInv /\ JobInv` is inductive. Types need the rest:
  that the counter stays a natural number needs that it counts the applications
  not removed, as long as the one removed is one of them; that only
  unregistered applications are removed is the state of the resource manager.
* `TypeCorrect`, `CounterIsRight`, `FinishedStays`, `LastStepIsLast`,
  `ExitIsTheEnd`: `TypeOK`, `CountInv`, `JobInv`, `LastMeansFinished`,
  `ExitIsEnd`. `JobInv` has the end time in it: an unfinished job's is far away,
  and the runner takes a step for the last one only by the end time.

### Only model-checked

Liveness (`FoundIsPublished`, `JoinEnds`, `JobEnds`, `EndsUnlessDead`,
`SimulationEnds`), which the proof system does not cover with fairness. The four
properties that the code violates are refuted by TLC, which needs no proof.

## 9. Not modelled

* **JavaScript.** The only JavaScript in the repository is third-party: jQuery, flot, d3,
  prototype and the like, vendored for the web pages. The program is Java and Python;
  all models are of those.
* **Completed tasks logger**: its thread is never started (`SLSRunner.java:203`
  is a comment), so it is a sum that nobody reads.
* **Metrics, web pages, demonstration**: read the state of the others.
* **Trace tools and configuration**: file conversion.
* **Reading traces, start-up and printing** of the simulation runner: I/O.
* **Timers and histograms of the scheduler wrapper, and the applications it
  tracks**: measurements.
* **Two AM threads that add to one `ArrayList` at the same time**, and topics of the
  publisher that are prefixes of others (host1 and host10): not in the model of
  the node.
* **Failing RPCs of an application master** that end its task in the middle of a
  restart: not in the model of the AM; in that of the node they end a launch.
* **Hadoop, MaxiNet, Mininet, ZeroMQ, the JVM's collections**: external, modelled
  from how the code uses them where a component depends on it.

## 10. Running

    tlc -config MCSignals.cfg MCSignals
    tlapm NetworkEmulator_proofs.tla

and so on for the other configurations; `PROJECT.json` lists the runs with
their modules. Each run takes from a second to a few minutes.
