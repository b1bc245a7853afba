# kube-agent in TLA+

kube-agent watches `TCPServer` objects in a Kubernetes cluster, turns each of
them into a file of NGINX's stream configuration and has NGINX load it. This
directory holds TLA+ models of that program, the TLC runs that check them on
small instances, and TLAPS proofs of every safety property the passing runs check,
for instances of any size.

## 1. Inventory

| Component | Source | State | Operations | Module |
|---|---|---|---|---|
| Event handlers | `internal/k8s/controller.go:81-144, 308-352` | none of their own | add, update and delete of TCPServers; add, update and delete of endpoints | `Controller` |
| Workers | `controller.go:149-282` | the key and what was read for it | `Run`, `processNextWorkItem`, `syncTCPServers` | `Controller` |
| Rendering | `controller.go:284-306, 354-415`, `internal/k8s/utils.go`, `internal/configuration/tcpserver.go`, `version1/config.go`, `pkg/apis/k8snginx/validation` | none | validate, find the target port, find the addresses, resolve, generate | `Rendering`, `AddOrUpdate` |
| Configurer | `internal/configuration/configurer.go` | the map `tcpServersEx` | `AddOrUpdateTCPServer`, `DeleteTCPServer` | `Controller`, `NginxManager` |
| NGINX manager | `internal/nginx/manager.go`, `utils.go`, `verify.go` | `configVersion`, the files in `conf.d` | `CreateConfig`, `DeleteConfig`, `Reload`; `Start` and `Quit` | `NginxManager`, `Lifecycle` |
| Process | `cmd/kube-agent/main.go` | `stopCh`, `nginxDone`, `exitStatus` | `main`, `startSignalHandler` | `Lifecycle` |
| API server, informers, work queue (client-go) | outside the repository | objects, caches, notifications, dirty and processing keys | change, deliver, resync, relist; `Add`, `Get`, `Done`, `AddRateLimited` | `Controller` (external) |
| NGINX | outside, with `version1/nginx.conf` | master, workers, pending signals | check, load, answer the version, drain, exit | `NginxManager`, `Lifecycle` (external) |
| Informer factories | `pkg/client/informers/externalversions/factory.go`, `k8snginx/v1/tcpserver.go`; client-go's for the core types | the informers made and those started | `InformerFor`, `Start` | `InformerFactory`, `Lifecycle` |
| The agent as a whole | all of the above | | a TCPServer's way from the API server to NGINX | `Agent` |
| Metrics, fake manager, generated client, manifests; the manager's functions for secrets, DH parameters, NGINX Plus and OpenTracing | `internal/metrics`, `internal/nginx/fake_manager.go`, `pkg/client`, `deployments`, `examples`, `manager.go:139-177, 249-325` | | | not modelled: no behaviour, generated, or never called |

How they interact: each informer has a cache and calls the handlers in the
order of its changes; a handler adds keys to the work queue; two workers take
keys, read three caches one after the other, and call the Configurer, which
writes a file through the manager, writes its map and has the manager reload.
The workers share, without any lock, the files, the map, the version counter,
the version file and NGINX. `startSignalHandler` runs beside `main` and closes
the channel that stops both informers and controller.

What is hard in it, and what would be correct:

- **Handlers, queue and workers.** Notifications of two informers arrive in any
  order; keys are added while they are worked on; three caches are read at
  three moments. Correct: no key with two workers, no update or deletion lost,
  files that converge to what the API server holds.
- **Rendering.** Lists in which the first match wins. Correct: never an upstream
  without servers, nothing served but what the endpoints list, and all of it.
- **Reload.** Unlocked sharing between two callers, a signal that is
  asynchronous, a reload command or a load that fails, answers of old workers, a
  timeout. Correct: success means applied, and in the end nothing is forgotten
  but what failed last.
- **The whole.** Two workers reload for two TCPServers side by side, and an error
  of a reload is only logged. Correct: NGINX comes to serve what is declared.
- **Process.** `main`, the handler and NGINX end in any order. Correct: the
  process always ends when it should, after NGINX and with the right status.

`PROJECT.json` lists the hazards with their lines and the properties for them.

## 2. Modules

| Module | Models |
|---|---|
| `Rendering` | pure operators from a TCPServer, a service, endpoints and pods to the configuration |
| `AddOrUpdate`, `AddOrUpdateProps`, `MCAddOrUpdate` | the loops of `addOrUpdateTCPServerSync` and what they compute |
| `Controller`, `ControllerProps`, `MCController` | informers, handlers, queue, workers, Configurer |
| `Reconciler` | the abstract specification that `Controller` implements |
| `NginxManager`, `NginxManagerProps`, `MCNginxManager` | the manager's reload protocol and NGINX, for any number of callers |
| `ReloadHistory` | `NginxManager` with what has happened since a call began, and its promises that depend on it |
| `Reloader` | the abstract specification that `NginxManager` implements until two increments race |
| `Agent`, `AgentProps`, `MCAgent` | `Controller` and `NginxManager` composed |
| `InformerFactory` | the generated shared informer factory, as operators |
| `Lifecycle`, `LifecycleProps` | main, signal handler, NGINX's end, SIGTERM, the start of the informers |
| `ControllerProofs`, `ReconcilerProofs`, `NginxManagerProofs`, `RenderingProofs`, `AddOrUpdateProofs`, `AgentProofs`, `AgentManagerProofs`, `LifecycleProofs` | TLAPS proofs (section 4) |

A component's module has its state, its actions and its specification; the
module with `Props` states what it promises; the module with `MC` gives values
to the constants, and each `.cfg` is one question. Definitions named like
`GetAndDone` or `StopAtBadAddress`, which no action uses, are wrong
versions of the definition that follows them: each shows that a property would
notice that bug.

### Controller

`tcpApi`, `svcApi`, `eptApi` and `podApi` are the API server's objects and
`tcpCache`, `svcCache`, `eptCache` and `podCache` the informers' caches; `tcpEvents` and `eptEvents` are
the notifications the handlers have not seen. `dirty`, `processing` and
`waiting` are the work queue. A worker's `pc` names the next thing it does in
`syncTCPServers` and below:

    get -> tcpserver -> service -> endpoints -> create -> write -> store -> reload
                    \-> remove -> delete -> reload

`ReadTCPServer`, `ReadService` and `ReadEndpoints` are the three lister look-ups
with their NotFound branches and the validation; `Create` and `Write` are
`os.Create` and `w.Write` of `createFileAndWrite`; `Store` and `Delete` are the
two writes of the map; `Finish` is the return of `Reload`, with or without an
error, for the code does the same after both. `ListerFails` is any other error
of a lister.

Choices made:

- The queue is a set. client-go's queue is first in, first out; a set lets Get
  return any queued key, so every order is covered.
- A handler lists and enqueues in one step. What the TCPServer cache gains
  meanwhile is notified to the TCPServer handler anyway.
- An informer may skip versions of an object between two notifications, which
  is what a relist does; without relists client-go delivers more of them.
- A cache counts as synced (`HasSynced`) when it has equalled the API server
  once.
- Services and pods are cached from the start unless `"service"`, or `"pod"`, is
  in `Churn`; if it is, their informers fill the caches at any time, as `Run`
  awaits neither. A pod is there or not; its ports do not change.
- The pods are listed in the step of the endpoints' look-up: nothing is compared
  with what they were a moment before, and no step depends on both.
- A restart empties the files: the container's file system goes with it.
  `os.Remove` is taken to succeed, or to fail because there is no such file.
- The Go map is a set of names, and writing it is one step; that two workers
  may be about to write it is left as it is (section 6), and what the Go runtime
  does then is a `Restart`.

### AddOrUpdate

One step per iteration of the code's loops over service ports, subsets and
addresses; the inputs are a constant. `MCAddOrUpdate` makes them the way the
endpoints controller does: one subset for the ready pods with the same ports.
The pod that is listed first is any of the selected ones, as the lister returns
them in the order of a Go map.

### NginxManager

Each caller goes `create, write | delete`, then through `Reload`: `reload` and
`increment` (the two halves of `configVersion++`), `generate` and `rename` (the
version file), `signal` (`nginx -s reload`), `expect` (the third read of the
counter) and `poll`. NGINX's master takes the signal (`BeginLoad`), reading the
http block with the version, and then reads the stream block and starts workers
(`EndLoad`): the order in which `nginx.conf` includes them. Two files on one
listen port do not load. `Faults` are things outside the agent: the reload command
fails though the files load (`shellOut` returns an error for whatever reason it has),
the endpoint does not answer, an old worker answers, the master cannot load (a
port in use). `missed` is a history variable: a command or a load has failed in this
way, and nothing was tried after it. No step of the code depends on it.

That callers never have the same name at once is `OneWorkerPerKey` of the
controller. The outcome of a call, `ok` or `error`, takes the place of the caller's
next step until the Configurer returns (`Finish`).

Two workers always run (`main.go:86`), so `SuccessIsApplied` fails
(`reload_false_success`). `ReloadHistory` says what of it remains. `raced` records
that two callers have been between the read and the write of `configVersion++` at
once; until then a success means that the change is applied
(`SuccessUnlessRaced`), although NGINX's version may go back, a version file may be
overwritten by an older one, the counter that a caller reads again may have others'
increments in it, and signals and loads are shared. So one lock around the increment would do.

`Reloader` is the same without a protocol: files, the files NGINX runs, and callers
that are idle, busy, or have an outcome. `Load` takes over all the files there
are, and `Succeed` is only possible when NGINX runs all files as they are, but those that
other callers have changed since the call began (`touched`). `ImplementsReloader`
maps `running` to its files and every step of a call to `busy`, and asks for no more
once `raced`.

### Reconciler

For each TCPServer a set of wanted contents and the content there is, and the set
of TCPServers that are pending. `Change` may change what is wanted of those that
become (or are) pending and of no other; `Work` writes any content to a pending
one's file, a truncated one included; `Settle` needs the content to be wanted.
`ImplementsReconciler` maps `wanted` to `Wanted(k)` (the renderings of what is
cached, of any services or pods while those are disturbed) and `pending` to
`Pending(k)` (notified, queued, delayed, or in process). What `ExistingIsCurrent`
says of states, this says of steps: nothing becomes wanted without somebody being
told, and nobody lets go of a key too early.

### Agent

`Controller` and `NginxManager` share the files; the callers are the workers, the
name of a call is the worker's key and its content `cfg`. Of `NginxManager` the
steps of `Reload` and NGINX's own are used, of `Controller` all but that `Finish`
waits for the reload's outcome: `Look` begins a call, `CallReload` is the call of
`Reload` after the map was written, `call` is the worker's place in it.
`ImplementsManager` says that this is a legal use of the manager: with the
worker's place in the controller and in `Reload` put together, every step is one
of `NginxManager`, a stutter, or (`Restart`) its start. `MaxCalls` bounds the calls
in both: as a worker's `Look` is where a call begins, it is in its guard.

### InformerFactory

A factory is a record of the informers it has made and of those that run; the
operators are its methods. `Lifecycle` has main make two, hand `NewController` the
informers in the order of its requests (a lister's, an awaited one's or a
handler's informer), start the one, then the other, and wait for caches.

### Lifecycle

`main`, `handler` and `nginx` are where the three are; `nginxDone` is the channel
of capacity one, `term` the signal channel; `process` is the exit status once
there is one. `Fatal` is `glog.Fatalf`. SIGKILL after the grace period is left
out, so that the end of the process is its own doing.

## 3. Runs

| Run | Instance | Shows |
|---|---|---|
| `sync_safety` | 2 TCPServers, 1 service, 2 workers, 2 changes | `OneWorkerPerKey`, `TruncatedIsOwned`, `ExistingIsCurrent`, `DeletedIsRemoved`, `ImplementsReconciler` |
| `sync_churn` | 1 TCPServer valid or not, a service with a named port, 1 pod, 2 workers, 2 disturbances of all kinds | `TypeOK`, `ExistingIsCurrent`, `WorkIsCurrent`, `FilesChangeOnlyInProcess` |
| `render` | 5 services, any of 6 pods, any of them ready | `NeverEmptyUpstream`, `ServersAreListed`, `WholeSubsetServed`, `AgreesWithRendering` |
| `reload_two` | 2 callers, 2 files, 2 contents, 3 changes, all faults | `TypeOK`, `AppliedWhenQuiet`, `SuccessUnlessRaced`, `ImplementsReloader` |
| `agent_serves` | 2 TCPServers that ask for one port, 2 workers, 1 change, reload commands and loads that fail, fairness | `AgentTypeOK`, `ServedAtRest`, `ImplementsManager`, `EventuallyServed`, `ReloadsReturn` |
| `agent_converges` | 1 TCPServer, 1 service, 2 workers, 2 disturbances (changes, lister errors, restarts), loads and polls that fail, old workers that answer, fairness | `Converges` |
| `life_ends` | the process, fairness | `TypeOK`, `StopHasReason`, `SharedInformersRun`, `Terminates` |

The other runs end in a counterexample, each a disagreement between the code
and what the repository says of it (`findings` in `PROJECT.json`):

| Run | Property | What the code does |
|---|---|---|
| `sync_stale_service` | `Converges` | a service that comes after its TCPServer was synced is not taken over |
| `sync_tombstone` | `DeletedIsRemoved` | a deletion learnt from a new list leaves the file |
| `render_foreign_pod` | `TimeOnlyWithoutEndpoints` | a pod of another namespace decides a named port |
| `reload_false_success` | `SuccessIsApplied` | with two callers, success for a change that is not loaded |
| `life_failure` | `FailureIsReported` | NGINX's failure ends in status 0 |

Why the bounds are enough. A key concerns two workers at most when one has it
and the other takes it again, and one event of endpoints concerns two TCPServers
at least: two of each show every interference between them. A lost update needs
a change during a worker's reads and one after, or a change and a restart or an
error: two disturbances. (The first sync of everything there is comes before
them, or among them.) In the manager, three changes by
two callers let both reload at once and one of them again: a version used twice
or overwritten by an older one, two signals for one load, a change after one whose
reload failed, and an answer of old workers with a version that is expected; two
polls are one failed and one last. That the files do not load is in `agent_serves`
for as long as both TCPServers are there, and in `reload_two` whenever both files
have one content. What two callers do to each other's versions is proved in general
(`NothingIsForgotten`, `SuccessIsEarned`, `RestIsServed`). `MaxDisturbances`, `MaxCalls`
and `MaxRetries` (160 in the code) are the only bounds on what may grow; in
the runs of `Agent`, `MaxCalls` is more than the calls there can be, so that its
guard never holds a worker up.

Fairness. The informers' deliveries, the handlers, `Run` and the workers are
goroutines that nothing blocks for ever (a poll is answered or fails, and a reload
ends after its retries: `ReloadsReturn`); the rate limiter's delay elapses, and NGINX's
master sees a signal and ends a load. `FairAgent` assumes less than that of each of
them: as long as there is something to do for one of them, one of them does it
(`Proceed`), and the resync timer fires. `FairSpec` of `Controller` assumes it of
each, without NGINX. There is none for disturbances; that they are finitely many is
`MaxDisturbances`. `FairSpec` of `Lifecycle` has it for `main`, for
the handler and for the goroutine that waits for NGINX, and neither for NGINX nor
for the caches. Deadlock is not checked in any run: with the disturbances used
up, the calls made or the process ended, the system rests.

## 4. Proofs

For all values of the constants that satisfy the assumptions of the modules:

| Theorem | Module | Property | Provided that |
|---|---|---|---|
| `TypeCorrect` | `ControllerProofs` | `TypeOK` | |
| `MutualExclusion` | | `OneWorkerPerKey` | |
| `WorkInHandIsCurrent` | | `WorkIsCurrent` | |
| `NoLostUpdate` | | `ExistingIsCurrent` | |
| `NoFileLeftBehind` | | `DeletedIsRemoved` | `"relist" \notin Churn` |
| `NoTruncatedFileLeft` | | `TruncatedIsOwned` | |
| `FilesAreTheWorkers` | | `FilesChangeOnlyInProcess` | |
| `ReconcilerImplemented` | `ReconcilerProofs` | `ImplementsReconciler` | `"relist" \notin Churn` |
| `ManagerTypeCorrect` | `NginxManagerProofs` | `TypeOK` | |
| `NothingIsForgotten` | | `AppliedWhenQuiet` | |
| `SuccessIsEarned` | | `SuccessUnlessRaced` | |
| `ReloaderImplemented` | | `ImplementsReloader` | |
| `NoEmptyUpstream` | `AddOrUpdateProofs` | `NeverEmptyUpstream` | |
| `OnlyTheServiceIsServed` | | `ServersAreListed` | |
| `TheWholeSubsetIsServed` | | `WholeSubsetServed` | |
| `LoopsAgreeWithRendering` | | `AgreesWithRendering` | |
| `AgentIsController` | `AgentProofs` | `Controller`'s `Spec` | |
| `AgentTypeCorrect` | | `AgentTypeOK` | |
| `RestIsServed` | | `ServedAtRest` | `"relist" \notin Churn` |
| `AgentImplementsManager` | `AgentManagerProofs` | `ImplementsManager` | |
| `AgentImplementsReconciler` | | `ImplementsReconciler` | `"relist" \notin Churn` |
| `ProcessTypeCorrect` | `LifecycleProofs` | `TypeOK` | |
| `StopIsForAReason` | | `StopHasReason` | |
| `OneRunningInformerEach` | | `SharedInformersRun` | |

The condition is needed, and is what the code's surroundings may or may not
provide: with `"relist"` deletions may be learnt from a new list, which
`sync_tombstone` shows to leave files behind. The exceptions that the properties
themselves make are behaviours of the code: files that do not load together, a last
reload that failed (`missed`; nobody tries again, section 6), and increments that
have raced (`raced`), for which `reload_false_success` refutes the promise.

### The controller

The proofs use the assumptions of `Controller.tla`: the absent and the truncated file
are no configurations, and the service that a valid TCPServer names is one of
`ServiceKeys`.

There are two inductive invariants. `Basic` has the types, that workers hold
distinct keys which are the ones in process, and that a worker past its first
look-up has read a TCPServer that is served. `OneWorkerPerKey` alone is not
inductive without the types and without knowing that an idle worker has no key.
`Current` adds what relates files, hands and caches: `ExistingIsCurrent` says
nothing of a key that a worker has, so the induction needs, for every step of a
worker, what it has in hand (`WorkIsCurrent`): what was read is still cached, or
the key is coming again. A cache changes only together with a notification, a
notification goes only together with an addition to the queue, a key leaves the
queue only into a worker's hands, and the last step of a worker leaves a file
that `WorkIsCurrent` says is wanted. `SettledIsCurrent` is the invariant of keys
that no worker has, with the deletions learnt from a list left out, for which
`sync_tombstone` shows that it fails. `OthersKnown` says that services and pods are
cached when they are not disturbed. There is one lemma for each action, or for
a group of actions that change the same things.

`FilesChangeOnlyInProcess` adds `WorkAfterSync`: keys are in process only after
`Run` has started the workers, and it starts them after the caches have synced.

The refinement needs no further invariant. Every step outside the workers is
`Calm`: it leaves the files alone, takes no key out of `Pending`, and changes what
is wanted of a pending key only; that is `Change`. A worker's steps that touch a
file are `Work`, its last step is `Settle` by `WorkIsCurrent`, or nothing if its
key is coming again.

### The manager

`NothingIsForgotten` rests on who is to bring a change to NGINX while NGINX does
not run it: a caller between its edit and its signal, the signal, or a load,
which reads the files as it ends. A signal that is not sent is one whose check has
failed because the files do not load, and whoever makes them load is such a caller
again, or one whose command failed otherwise, which `missed` remembers until a load
begins or a caller tries again. Versions play no part in it: two workers may confuse
them as they like.

`ManagerTypeCorrect` has to bound the versions by `MaxCalls`, and the bound is not
inductive: a caller that has not incremented yet may do so. `VersionsWithin` holds
them below the calls less those that have yet to increment the counter
(`Incremented`); each of the others raised it by one at most, since unlocked
increments may be lost but are never doubled.

`SuccessIsEarned` and `ReloaderImplemented` rest on `HistoryInv`, about any number of
callers. While no two increments have raced, the counter only grows, and no version
anywhere is newer than it (`NoneIsNewer`): those of draining workers, of the running
ones, of a load, of the version file, and those that callers have read. So what an increment
makes (`Own`) is a version that nobody has had before, and whatever runs or drains with it
or a later one was loaded after the increment, when the caller's change was in its
file (`Brought`). The version that the caller expects is read after that, so it is no
less than its own, and an answer with it means that the change runs; whose version
that is, and who signalled the load, does not matter. What other callers change
meanwhile is in `touched`, and no call asks for it; that it is never the caller's own file
follows from the distinct names (`FilesOfCalls`). When two increments race, the later
write may take the counter back, and a caller then expects a version that was loaded
before its change: that is `reload_false_success`.

### The rendering

`IInv` follows the addresses: found ones and resolved ones are those of
the endpoints at the target port, and both lists are empty until the target is
known.

`LoopInv` says what each loop has passed and found. Of the ports: no port before
`i` has the TCPServer's number. Of the subsets: none before `i` has the target
port, and the target is one that `Rendering.tla` allows. Then: the addresses are
those of the first subset on the target, or there are none. Of the
addresses: the elements of `resolved` are those before `i` that resolve, and
they are as many, which gives `WholeSubsetServed`.

For `AgreesWithRendering`, `ResolvedAgrees` adds that `resolved` is `Resolved(adrs)`
at `i - 1`. `Resolved` is a recursive function, and a recursive function is only
known to be what it says once some function satisfies its recursion.
`ResolvedExists` shows that by induction over the length of the list; the induction
(`SetInduction`) takes a set where the library's takes an operator, and comes from
`WFMin` and the well-founded order of the naturals. The proofs use
`InputsAssumption`: ports, subsets and addresses are lists.

### The agent

Every step of the agent is one of the controller's or leaves its variables alone
(`AgentIsController`), so all of the controller's theorems hold of it, which is
most of the refinement of `Reconciler` too. `AgentTypes` adds the manager's types
and `Rendered`, that a worker has a configuration from its look-ups until its call
returns, and in no other step; `Counted` bounds the versions as in the manager.

`RestIsServed` joins the two halves of the agent. `Underwritten`: while NGINX does
not run the files there are, and they load, a worker has yet to signal, a
signal has yet to be seen, a load has yet to end, or the last try has failed
(`missed`). At rest there is none of the first three, so NGINX runs the files, or
`missed`, and by `Current` the files are what is wanted.

`AgentImplementsManager` maps a worker's place to that of a caller of
`NginxManager` (`"create"`, `"write"` and `"delete"` are the controller's,
everything after `CallReload` the manager's) and takes each step of `Agent` to one
of `NginxManager`. It needs from `OneWorkerPerKey` that no two callers have one name,
and from `Rendered` that a caller that removes has no content.

### The process

`IInv` has the types, `WellBuilt` and `Reasons`. `WellBuilt` is about the
factories: at most one informer of each type was made, those of the requests so
far are held, and once main has called `Start` what was made also runs.
`Reasons` says what is behind each channel: `nginxDone` is filled by the end of
NGINX only, the signal channel by a SIGTERM only, so the handler comes to close
`stopCh` for one of the two, and has closed it before it tells NGINX to quit.

### Only model-checked

- The liveness properties `Converges`, `EventuallyServed`, `ReloadsReturn` and
  `Terminates`: out of the prover's reach.
- The five runs that end in a counterexample.
- That the constants of the runs satisfy the assumptions: TLC evaluates them.

## 5. Not modelled, and the plan

Not modelled:

- recorder events, logging, metrics (main installs a fake collector, whose
  methods are empty), the text of the templates, the clients' construction;
- the functions of the manager that nothing calls (secrets, DH parameters, NGINX
  Plus, OpenTracing), the factory's options and its `WaitForCacheSync`, which
  nothing uses, the fake manager, a test double, and the generated clientset, deep
  copies and registration, which have no state;
- lister errors other than NotFound cannot come from client-go's in-memory
  indexer. `ListerFails` models the branches that the code has for them in
  `syncTCPServers`; the same branch of `getTCPServersInNamespace`, which would
  drop an event (`controller.go:344-347`), is left out;
- a poll of the version that never returns: the client has no timeout
  (`verify.go:26`);
- what the Go runtime does when two workers write the map at once, beyond ending
  the process.

Next: services with TCP and UDP ports of one number in `AddOrUpdate`
(`controller.go:359` looks at the number only).

## 6. Other behaviour worth knowing

Met while modelling; it follows from the models as they are, but no run is
devoted to it:

- `Run` awaits the TCPServer and endpoints caches only (`controller.go:158`), so
  a worker may take a service for missing that is not cached yet. Together with
  `sync_stale_service` this may last until the endpoints change.
- The Configurer stores under the file name and deletes under the key
  (`configurer.go:53, 63`), so its map only grows; two workers may write it at
  once (`Store` and `Delete` of two workers are enabled together), which the Go
  runtime may answer by ending the process.
- Of several subsets with the target port only the first is served
  (`controller.go:379`); an IPv6 address is joined to its port without brackets,
  does not resolve and is dropped, in the branch whose comment says "this case
  is impossible to happen" (`controller.go:298`).
- With two workers a reload may also report a timeout for a change that NGINX
  runs, under a later version (`verify.go:73` compares for equality).
- A reload that fails is not tried again: `syncTCPServers` returns nil
  (`controller.go:302-305`). Its file is live all the same after the next load, of
  any TCPServer (`ServedAtRest`); only if the reload command or the load failed for
  a reason of its own (a port in use, the shell not started) and nothing changes any
  more is it lost. Two valid TCPServers with one `listenPort` make every reload fail
  until one of them changes.
- With two workers NGINX's version may go back: each reads the counter for its
  version file and renames it into place later, in any order (`manager.go:246`).
- `nginx -s quit` also fails while NGINX is up, if the files do not load together:
  the process then ends in `glog.Fatalf` (`manager.go:231`) and not gracefully.
- After SIGTERM `main` may return, and with it the process end, before NGINX was
  told to quit (`main.go:86-89, 113-118`); a SIGTERM before the caches are synced
  ends in `glog.Fatalf` (`main.go:87`).
- A worker's load takes over the other one's file as it is at that moment. Between
  `os.Create` and the write it is empty (`utils.go:38-46`), so a TCPServer that was
  served may not be until the other worker's own reload.
- A named port is looked up in whatever pods are cached (`controller.go:398`): a
  TCPServer that was synced before the pods were cached serves the time server
  until its endpoints or itself change.
