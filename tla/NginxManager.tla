----------------------------- MODULE NginxManager -----------------------------
(***************************************************************************)
(* How a change reaches NGINX: the LocalManager of internal/nginx, called  *)
(* through the Configurer by the controller's workers, and NGINX itself.   *)
(*                                                                         *)
(* A caller writes or deletes the file of one TCPServer (no other caller   *)
(* has that TCPServer: OneWorkerPerKey of ControllerProps.tla) and calls   *)
(* Reload, which takes a new config version, writes it to a file of its    *)
(* own, signals NGINX and asks NGINX for its version until it is the       *)
(* expected one or the retries are spent.  The callers share the files,    *)
(* the counter and NGINX, without a lock: each read and each write of a    *)
(* shared thing is a step.                                                 *)
(*                                                                         *)
(* NGINX is external, modelled from its nginx.conf in this repository (the *)
(* version file is included before the files of conf.d/tcp) and from what  *)
(* the manager expects of it: a signal checks the configuration, the       *)
(* master loads it later, one load for any number of signals meanwhile,    *)
(* and starts new workers; the old ones answer until they quit.            *)
(***************************************************************************)
EXTENDS Integers, FiniteSets

CONSTANTS
    Callers,      \* the goroutines that call the Configurer
    Names,        \* the TCPServers' configuration files
    Contents,     \* what a file may hold
    ListenPort(_),  \* the port that a content listens on
    Absent,       \* no file, no value
    Truncated,    \* a file that was created and not written yet
    MaxRetries,   \* polls of the version endpoint in one Reload (160 in the code)
    Faults,       \* what may go wrong outside the agent
    MaxCalls      \* bound: changes applied by all callers together

PossibleFaults ==
    {"command",   \* the reload command fails though the files load
     "poll",      \* the version endpoint does not answer
     "oldWorker", \* a worker of an earlier configuration answers
     "bind"}      \* the master cannot load a correct configuration

File == Contents \union {Absent, Truncated}

ASSUME FaultsAssumption == Faults \subseteq PossibleFaults
ASSUME RetriesAssumption == MaxRetries \in Nat \ {0}
ASSUME CallsAssumption == MaxCalls \in Nat
ASSUME AbsentAssumption == Absent \notin Nat
ASSUME ContentsAssumption ==
    /\ Absent # Truncated
    /\ Absent \notin Contents /\ Truncated \notin Contents

VARIABLES
    files,          \* the files in conf.d/tcp
    versionFile,    \* the version in conf.d/config-version.conf
    configVersion,  \* the LocalManager's counter
    pc, name, content,        \* each caller's step, its file and what it puts there
    seen, expected, retries,  \* what its Reload has read, and its polls
    signalled,      \* NGINX has a reload signal that it has not seen yet
    loading,        \* the version the master has read while it loads, or Absent
    running,        \* the configuration of the newest workers
    draining,       \* the versions of older workers that still answer
    missed,         \* history: a reload command, or a load, has failed though
                    \* the files load, and nothing was tried after it
    calls           \* how many changes have begun

go    == <<configVersion, versionFile>>
local == <<name, content, seen, expected, retries>>
nginx == <<signalled, loading, running, draining, missed>>
vars  == <<files, go, pc, local, nginx, calls>>

(***************************************************************************)
(* A configuration loads if no two files listen on the same port.  An      *)
(* empty file is a correct one.                                            *)
(***************************************************************************)
Loads(f) ==
    LET full == {n \in Names : f[n] \notin {Absent, Truncated}}
    IN  \A m, n \in full : m # n => ListenPort(f[m]) # ListenPort(f[n])

NoFiles == [n \in Names |-> Absent]

\* After Start: NGINX runs version 0, with the empty conf.d/tcp of the image.
Init ==
    /\ files = NoFiles
    /\ versionFile = 0 /\ configVersion = 0
    /\ pc = [c \in Callers |-> "idle"]
    /\ name = [c \in Callers |-> Absent] /\ content = [c \in Callers |-> Absent]
    /\ seen = [c \in Callers |-> 0] /\ expected = [c \in Callers |-> 0]
    /\ retries = [c \in Callers |-> 0]
    /\ signalled = FALSE /\ loading = Absent
    /\ running = [version |-> 0, files |-> NoFiles]
    /\ draining = {} /\ missed = FALSE
    /\ calls = 0

Step(c, from, to) == pc[c] = from /\ pc' = [pc EXCEPT ![c] = to]

(***************************************************************************)
(* The Configurer's half of a change.                                      *)
(***************************************************************************)
Begin(c) ==
    /\ calls < MaxCalls
    /\ \E n \in Names, x \in Contents \union {Absent} :
        /\ \A d \in Callers : pc[d] # "idle" => name[d] # n
        /\ name' = [name EXCEPT ![c] = n]
        /\ content' = [content EXCEPT ![c] = x]
        /\ Step(c, "idle", IF x = Absent THEN "delete" ELSE "create")
    /\ calls' = calls + 1
    /\ UNCHANGED <<files, go, seen, expected, retries, nginx>>

CreateConfig(c) ==
    /\ \/ /\ Step(c, "create", "write")
          /\ files' = [files EXCEPT ![name[c]] = Truncated]
       \/ /\ Step(c, "write", "reload")
          /\ files' = [files EXCEPT ![name[c]] = content[c]]
    /\ UNCHANGED <<go, local, nginx, calls>>

DeleteConfig(c) ==
    /\ Step(c, "delete", "reload")
    /\ files' = [files EXCEPT ![name[c]] = Absent]
    /\ UNCHANGED <<go, local, nginx, calls>>

(***************************************************************************)
(* Reload.  The increment is a read and a write of the counter; the        *)
(* version file is generated from another read of it and renamed into      *)
(* place; the version to wait for is a third read.                         *)
(***************************************************************************)
ReadVersion(c) ==
    /\ Step(c, "reload", "increment")
    /\ seen' = [seen EXCEPT ![c] = configVersion]
    /\ UNCHANGED <<files, go, name, content, expected, retries, nginx, calls>>

IncrementForgotten(c) ==
    /\ Step(c, "increment", "generate")
    /\ UNCHANGED <<files, go, local, nginx, calls>>

IncrementTwice(c) ==
    /\ Step(c, "increment", "generate")
    /\ configVersion' = seen[c] + 2
    /\ UNCHANGED <<files, versionFile, local, nginx, calls>>

IncrementVersion(c) ==
    /\ Step(c, "increment", "generate")
    /\ configVersion' = seen[c] + 1
    /\ UNCHANGED <<files, versionFile, local, nginx, calls>>

GenerateVersionConfig(c) ==
    /\ Step(c, "generate", "rename")
    /\ seen' = [seen EXCEPT ![c] = configVersion]
    /\ UNCHANGED <<files, go, name, content, expected, retries, nginx, calls>>

RenameVersionFile(c) ==
    /\ Step(c, "rename", "signal")
    /\ versionFile' = seen[c]
    /\ UNCHANGED <<files, configVersion, local, nginx, calls>>

\* The outcome of a Reload takes the place of the caller's next step.
Outcomes == {"ok", "error"}

Return(c, outcome) ==
    /\ pc' = [pc EXCEPT ![c] = outcome]
    /\ seen' = [seen EXCEPT ![c] = 0]
    /\ expected' = [expected EXCEPT ![c] = 0]
    /\ retries' = [retries EXCEPT ![c] = 0]

SignalUnlessReloading(c) ==
    /\ Step(c, "signal", "expect")
    /\ signalled' = (signalled \/ (Loads(files) /\ \A d \in Callers : pc[d] # "poll"))
    /\ UNCHANGED <<files, go, local, loading, running, draining, missed, calls>>

\* nginx -s reload checks the configuration before it signals the master; the
\* shell command may also fail for any other reason.
Signal(c) ==
    /\ pc[c] = "signal"
    /\ \/ /\ Loads(files)
          /\ Step(c, "signal", "expect")
          /\ signalled' = TRUE
          /\ UNCHANGED <<seen, expected, retries, missed>>
       \/ /\ ~Loads(files) \/ "command" \in Faults
          /\ Return(c, "error")
          /\ missed' = Loads(files)
          /\ UNCHANGED signalled
    /\ UNCHANGED <<files, go, name, content, loading, running, draining, calls>>

ExpectVersion(c) ==
    /\ Step(c, "expect", "poll")
    /\ expected' = [expected EXCEPT ![c] = configVersion]
    /\ UNCHANGED <<files, go, name, content, seen, retries, nginx, calls>>

\* What GetConfigVersion may return: a version, or Absent for an error.
Answers ==
    {running.version}
        \union (IF "oldWorker" \in Faults THEN draining ELSE {})
        \union (IF "poll" \in Faults THEN {Absent} ELSE {})

PollAgain(c) ==
    /\ retries' = [retries EXCEPT ![c] = retries[c] + 1]
    /\ UNCHANGED <<pc, seen, expected>>

PollForever(c) ==
    /\ pc[c] = "poll"
    /\ expected[c] \in Answers
    /\ Return(c, "ok")
    /\ UNCHANGED <<files, go, name, content, nginx, calls>>

PollForAnyVersion(c) ==
    /\ pc[c] = "poll"
    /\ \E v \in Answers :
        IF v # Absent THEN Return(c, "ok")
        ELSE IF retries[c] + 1 = MaxRetries THEN Return(c, "error")
        ELSE PollAgain(c)
    /\ UNCHANGED <<files, go, name, content, nginx, calls>>

Poll(c) ==
    /\ pc[c] = "poll"
    /\ \E v \in Answers :
        IF v = expected[c] THEN Return(c, "ok")
        ELSE IF retries[c] + 1 = MaxRetries THEN Return(c, "error")
        ELSE PollAgain(c)
    /\ UNCHANGED <<files, go, name, content, nginx, calls>>

\* The Configurer returns; its caller logs an error and does no more about it.
Finish(c) ==
    /\ pc[c] \in Outcomes
    /\ pc' = [pc EXCEPT ![c] = "idle"]
    /\ name' = [name EXCEPT ![c] = Absent]
    /\ content' = [content EXCEPT ![c] = Absent]
    /\ UNCHANGED <<files, go, seen, expected, retries, nginx, calls>>

(***************************************************************************)
(* NGINX.                                                                  *)
(***************************************************************************)
\* The master sees the signal and reads the http block, with the version.
BeginLoad ==
    /\ signalled /\ loading = Absent
    /\ signalled' = FALSE
    /\ loading' = versionFile
    /\ missed' = FALSE
    /\ UNCHANGED <<files, go, pc, local, running, draining, calls>>

\* It reads the stream block and starts new workers, or keeps the old ones.
EndLoad ==
    /\ loading # Absent
    /\ loading' = Absent
    /\ \/ /\ Loads(files)
          /\ running' = [version |-> loading, files |-> files]
          /\ draining' = IF "oldWorker" \in Faults
                         THEN draining \union {running.version} ELSE {}
          /\ UNCHANGED missed
       \/ /\ ~Loads(files) \/ "bind" \in Faults
          /\ missed' = Loads(files)
          /\ UNCHANGED <<running, draining>>
    /\ UNCHANGED <<files, go, pc, local, signalled, calls>>

OldWorkersQuit ==
    /\ draining # {}
    /\ draining' = {}
    /\ UNCHANGED <<files, go, pc, local, signalled, loading, running, missed, calls>>

Reload(c) ==
    \/ ReadVersion(c) \/ IncrementVersion(c)
    \/ GenerateVersionConfig(c) \/ RenameVersionFile(c)
    \/ Signal(c) \/ ExpectVersion(c) \/ Poll(c)

Call(c) == CreateConfig(c) \/ DeleteConfig(c) \/ Reload(c) \/ Finish(c)

Next ==
    \/ \E c \in Callers : Begin(c) \/ Call(c)
    \/ BeginLoad \/ EndLoad \/ OldWorkersQuit

Spec == Init /\ [][Next]_vars
==============================================================================
