-------------------------- MODULE NginxManagerProofs --------------------------
(***************************************************************************)
(* Proofs about the manager, for any number of files, versions and polls.  *)
(*                                                                         *)
(* Of any number of callers: no change of the files is forgotten, whatever *)
(* two reloads do to each other's version.                                 *)
(*                                                                         *)
(* And until two of their increments race: a version answers for the       *)
(* change it was made for, whatever old workers answer, whatever loads     *)
(* fail, and whichever versions the callers overwrite with each other.     *)
(***************************************************************************)
EXTENDS ReloadHistory, FiniteSetTheorems, TLAPS

(***************************************************************************)
(* No change is forgotten.  The invariant says who is to bring a change to *)
(* NGINX as long as NGINX does not run it: a caller that has yet to        *)
(* signal, the signal, or the load that reads the files when it ends.      *)
(***************************************************************************)

ToSignal == {"write", "reload", "increment", "generate", "rename", "signal"}

VersionTypes ==
    /\ versionFile \in Nat /\ configVersion \in Nat
    /\ seen \in [Callers -> Nat]
    /\ pc \in [Callers -> Steps]

SomeoneWillSignal == \E c \in Callers : pc[c] \in ToSignal

Underway == SomeoneWillSignal \/ signalled \/ loading # Absent

Underwritten == Loads(files) /\ running.files # files => Underway \/ missed

IInv == VersionTypes /\ Underwritten

LEMMA LoadsType == \A f : Loads(f) \in BOOLEAN
  BY Zenon DEF Loads

LEMMA InitIInv == Init => IInv
  BY DEF Init, IInv, VersionTypes, Underwritten, Underway, Loads, Steps

LEMMA TypesOfCaller ==
    ASSUME VersionTypes, NEW c \in Callers, Begin(c) \/ Call(c)
    PROVE  VersionTypes'
  <1>1. CASE Begin(c) \/ CreateConfig(c) \/ DeleteConfig(c) \/ Finish(c)
    <2>1. UNCHANGED <<go, seen>>
      BY <1>1 DEF Begin, CreateConfig, DeleteConfig, Finish, local
    <2>2. \E step \in Steps : pc' = [pc EXCEPT ![c] = step]
      BY <1>1 DEF Begin, CreateConfig, DeleteConfig, Finish, Step, Steps
    <2>. QED
      BY <2>1, <2>2 DEF VersionTypes, go
  <1>2. CASE ReadVersion(c) \/ IncrementVersion(c) \/ GenerateVersionConfig(c)
             \/ RenameVersionFile(c) \/ ExpectVersion(c)
    BY <1>2
    DEF VersionTypes, ReadVersion, IncrementVersion, GenerateVersionConfig,
        RenameVersionFile, ExpectVersion, Step, Steps, go, local
  <1>3. CASE Signal(c) \/ Poll(c)
    BY <1>3 DEF VersionTypes, Signal, Step, Poll, PollAgain, Return, Steps, Outcomes, go
  <1>. QED
    BY <1>1, <1>2, <1>3 DEF Call, Reload

\* A caller that edits a file has yet to signal; one that signals has signalled,
\* or the files do not load.
LEMMA CallerKeepsUnderwritten ==
    ASSUME IInv, NEW c \in Callers, Begin(c) \/ Call(c)
    PROVE  Underwritten'
  <1>1. /\ UNCHANGED <<running, loading>> /\ (signalled => signalled')
        /\ ~Signal(c) => UNCHANGED missed
    BY DEF Begin, Call, CreateConfig, DeleteConfig, Finish, Reload, ReadVersion,
           IncrementVersion, GenerateVersionConfig, RenameVersionFile, Signal,
           ExpectVersion, Poll, nginx
  <1>2. \A d \in Callers \ {c} : pc'[d] = pc[d]
    BY DEF IInv, VersionTypes, Begin, Call, CreateConfig, DeleteConfig, Finish, Reload,
           ReadVersion, IncrementVersion, GenerateVersionConfig, RenameVersionFile, Signal,
           ExpectVersion, Poll, PollAgain, Return, Step
  <1>3. CASE pc'[c] \in ToSignal
    BY <1>3 DEF Underwritten, Underway, SomeoneWillSignal
  <1>4. CASE pc'[c] \notin ToSignal
    <2>1. CASE Signal(c)
      BY <2>1 DEF Signal, Underwritten, Underway
    <2>2. CASE ~Signal(c)
      <3>1. pc[c] \notin ToSignal /\ UNCHANGED files
        BY <1>4, <2>2
        DEF IInv, VersionTypes, ToSignal, Begin, Call, CreateConfig, DeleteConfig, Finish,
            Reload, ReadVersion, IncrementVersion, GenerateVersionConfig,
            RenameVersionFile, ExpectVersion, Poll, PollAgain, Return, Step, Outcomes
      <3>. QED
        BY <1>1, <1>2, <2>2, <3>1 DEF IInv, Underwritten, Underway, SomeoneWillSignal
    <2>. QED
      BY <2>1, <2>2
  <1>. QED
    BY <1>3, <1>4

\* A load reads the files as it ends, and a signal that comes while NGINX loads
\* is kept.
LEMMA NginxKeepsIInv ==
    ASSUME IInv, BeginLoad \/ EndLoad \/ OldWorkersQuit
    PROVE  IInv'
  <1>1. VersionTypes' /\ UNCHANGED <<files, pc>>
    BY DEF IInv, VersionTypes, BeginLoad, EndLoad, OldWorkersQuit, go, local
  <1>2. CASE BeginLoad
    <2>1. loading' # Absent
      BY <1>2, AbsentAssumption DEF BeginLoad, IInv, VersionTypes
    <2>. QED
      BY <1>1, <2>1 DEF IInv, Underwritten, Underway
  <1>3. CASE EndLoad
    BY <1>1, <1>3 DEF EndLoad, IInv, Underwritten
  <1>4. CASE OldWorkersQuit
    BY <1>1, <1>4
    DEF OldWorkersQuit, IInv, Underwritten, Underway, SomeoneWillSignal
  <1>. QED
    BY <1>2, <1>3, <1>4

\* Nothing is forgotten: with every call returned, every signal seen and no load
\* going on, NGINX runs the files there are, unless they do not load together, or
\* the reload command or the load that was the last has failed for a reason of its
\* own.  That is of Reload and of the unlocked counter, files and signals of any
\* number of workers.
THEOREM NothingIsForgotten == Spec => []AppliedWhenQuiet
  <1>1. IInv /\ [Next]_vars => IInv'
    <2>. SUFFICES ASSUME IInv, [Next]_vars PROVE IInv'
      OBVIOUS
    <2>1. ASSUME NEW c \in Callers, Begin(c) \/ Call(c) PROVE IInv'
      BY <2>1, TypesOfCaller, CallerKeepsUnderwritten DEF IInv
    <2>2. CASE BeginLoad \/ EndLoad \/ OldWorkersQuit
      BY <2>2, NginxKeepsIInv
    <2>3. CASE UNCHANGED vars
      BY <2>3
      DEF vars, go, local, nginx, IInv, VersionTypes, Underwritten, Underway,
          SomeoneWillSignal
    <2>. QED
      BY <2>1, <2>2, <2>3 DEF Next
  <1>2. IInv => AppliedWhenQuiet
    BY DEF IInv, Underwritten, Underway, SomeoneWillSignal, AppliedWhenQuiet, Quiet,
           Returned, Outcomes, ToSignal
  <1>. QED
    BY InitIInv, <1>1, <1>2, PTL DEF Spec

(***************************************************************************)
(* Types.  That no version is beyond MaxCalls is not a matter of types:    *)
(* the counter is read and written in two steps, so that two callers may   *)
(* write one value, or a late one may take it back.  It never exceeds the  *)
(* number of increments there have been, though, and there is one for each *)
(* call that has begun, but for those that are yet to do theirs.           *)
(***************************************************************************)
ChangeTypes ==
    /\ files \in [Names -> File]
    /\ name \in [Callers -> Names \union {Absent}]
    /\ content \in [Callers -> Contents \union {Absent}]
    /\ expected \in [Callers -> Nat]
    /\ running.version \in Nat /\ draining \subseteq Nat
    /\ loading \in Nat \union {Absent}

ToIncrement == {c \in Callers : pc[c] \in {"create", "write", "delete", "reload", "increment"}}

Incremented == calls - Cardinality(ToIncrement)

VersionsWithin(max) ==
    /\ versionFile <= max /\ configVersion <= max
    /\ \A c \in Callers : seen[c] <= max /\ expected[c] <= max
    /\ running.version <= max
    /\ loading # Absent => loading <= max
    /\ \A v \in draining : v <= max

CallTypes ==
    /\ \A c \in Callers : pc[c] \notin Outcomes \union {"idle"} => name[c] \in Names
    /\ retries \in [Callers -> 0..(MaxRetries - 1)]
    /\ running \in [version : Nat, files : [Names -> File]]
    /\ signalled \in BOOLEAN /\ missed \in BOOLEAN
    /\ calls \in 0..MaxCalls

TypeInv ==
    /\ VersionTypes /\ ChangeTypes /\ CallTypes
    /\ IsFiniteSet(ToIncrement) /\ Incremented \in Nat
    /\ VersionsWithin(Incremented)

LEMMA InitTypeInv == Init => TypeInv
  <1>. SUFFICES ASSUME Init PROVE TypeInv
    OBVIOUS
  <1>1. VersionTypes /\ ChangeTypes
    BY DEF Init, VersionTypes, ChangeTypes, NoFiles, File, Steps
  <1>2. CallTypes
    <2>1. 0 \in 0..(MaxRetries - 1) /\ 0 \in 0..MaxCalls
      BY RetriesAssumption, CallsAssumption
    <2>2. running \in [version : Nat, files : [Names -> File]]
      BY DEF Init, NoFiles, File
    <2>. QED
      BY <2>1, <2>2 DEF Init, CallTypes, Outcomes
  <1>3. ToIncrement = {}
    BY DEF Init, ToIncrement
  <1>4. IsFiniteSet(ToIncrement) /\ Incremented = 0
    BY <1>3, FS_EmptySet DEF Init, Incremented
  <1>. QED
    BY <1>1, <1>2, <1>4 DEF Init, TypeInv, VersionsWithin

\* A caller's steps, but the beginning of a call and the increment, leave the
\* number of increments as it is.
LEMMA SameIncrements ==
    ASSUME TypeInv, UNCHANGED calls, ToIncrement' = ToIncrement
    PROVE  Incremented' = Incremented /\ IsFiniteSet(ToIncrement')
  BY DEF TypeInv, Incremented

LEMMA BeginTypes == ASSUME TypeInv, NEW c \in Callers, Begin(c) PROVE TypeInv'
  <1>1. VersionTypes'
    BY TypesOfCaller DEF TypeInv
  <1>2. UNCHANGED <<files, go, seen, expected, retries, nginx>> /\ calls' = calls + 1
        /\ calls < MaxCalls
    BY DEF Begin
  <1>3. ChangeTypes'
    BY <1>2 DEF Begin, TypeInv, ChangeTypes, go, nginx
  <1>4. CallTypes'
    BY <1>2, CallsAssumption
    DEF Begin, Step, TypeInv, CallTypes, ChangeTypes, VersionTypes, nginx
  <1>5. c \notin ToIncrement /\ ToIncrement' = ToIncrement \union {c}
    BY DEF Begin, Step, ToIncrement, TypeInv, VersionTypes
  <1>6. IsFiniteSet(ToIncrement') /\ Cardinality(ToIncrement') = Cardinality(ToIncrement) + 1
        /\ Cardinality(ToIncrement) \in Nat
    BY <1>5, FS_AddElement, FS_CardinalityType DEF TypeInv
  <1>7. Incremented' = Incremented
    BY <1>2, <1>6 DEF Incremented, TypeInv, CallTypes
  <1>8. VersionsWithin(Incremented)'
    BY <1>2, <1>7 DEF TypeInv, VersionsWithin, go, nginx
  <1>. QED
    BY <1>1, <1>3, <1>4, <1>6, <1>7, <1>8 DEF TypeInv

LEMMA IncrementTypes == ASSUME TypeInv, NEW c \in Callers, IncrementVersion(c) PROVE TypeInv'
  <1>1. VersionTypes'
    BY TypesOfCaller DEF TypeInv, Call, Reload
  <1>2. UNCHANGED <<files, versionFile, local, nginx, calls>>
        /\ configVersion' = seen[c] + 1
    BY DEF IncrementVersion
  <1>3. ChangeTypes' /\ CallTypes'
    <2>1. ChangeTypes'
      BY <1>2 DEF TypeInv, ChangeTypes, local, nginx
    <2>2. CallTypes'
      BY <1>2
      DEF IncrementVersion, Step, TypeInv, CallTypes, VersionTypes, Outcomes, local, nginx
    <2>. QED
      BY <2>1, <2>2
  <1>4. c \in ToIncrement /\ ToIncrement' = ToIncrement \ {c}
    BY DEF IncrementVersion, Step, ToIncrement, TypeInv, VersionTypes
  <1>5. IsFiniteSet(ToIncrement') /\ Cardinality(ToIncrement') = Cardinality(ToIncrement) - 1
        /\ Cardinality(ToIncrement) \in Nat
    BY <1>4, FS_RemoveElement, FS_CardinalityType DEF TypeInv
  <1>6. Incremented' = Incremented + 1
    BY <1>2, <1>5 DEF Incremented, TypeInv, CallTypes
  <1>7. VersionsWithin(Incremented)'
    BY <1>2, <1>6 DEF TypeInv, VersionTypes, ChangeTypes, VersionsWithin, local, nginx
  <1>. QED
    BY <1>1, <1>3, <1>5, <1>6, <1>7 DEF TypeInv

LEMMA OtherCallTypes ==
    ASSUME TypeInv, NEW c \in Callers, Call(c), ~IncrementVersion(c)
    PROVE  TypeInv'
  <1>1. VersionTypes'
    BY TypesOfCaller DEF TypeInv
  <1>2. UNCHANGED <<configVersion, loading, running, draining, calls>>
    BY DEF Call, CreateConfig, DeleteConfig, Reload, ReadVersion, GenerateVersionConfig,
           RenameVersionFile, Signal, ExpectVersion, Poll, Finish, go, local, nginx
  <1>3. ChangeTypes'
    <2>1. CASE CreateConfig(c) \/ DeleteConfig(c) \/ Finish(c)
      BY <2>1
      DEF CreateConfig, DeleteConfig, Finish, Step, TypeInv, ChangeTypes, CallTypes,
          Outcomes, File, local, nginx
    <2>2. CASE Reload(c)
      <3>1. UNCHANGED <<files, name, content, running, draining, loading>>
        BY <2>2, ~IncrementVersion(c)
        DEF Reload, ReadVersion, GenerateVersionConfig, RenameVersionFile, Signal,
            ExpectVersion, Poll, local, nginx
      <3>2. expected' = expected
                \/ \E v \in {0, configVersion} : expected' = [expected EXCEPT ![c] = v]
        BY <2>2, ~IncrementVersion(c)
        DEF Reload, ReadVersion, GenerateVersionConfig, RenameVersionFile, Signal,
            ExpectVersion, Poll, PollAgain, Return, local
      <3>. QED
        BY <3>1, <3>2 DEF TypeInv, VersionTypes, ChangeTypes
    <2>. QED
      BY <2>1, <2>2 DEF Call
  <1>4. CallTypes'
    <2>1. CASE CreateConfig(c) \/ DeleteConfig(c) \/ Finish(c)
      BY <2>1
      DEF CreateConfig, DeleteConfig, Finish, Step, TypeInv, VersionTypes, ChangeTypes,
          CallTypes, Outcomes, local, nginx
    <2>2. CASE Signal(c) \/ Poll(c)
      <3>1. \E n \in 0..(MaxRetries - 1) :
              retries' = retries \/ retries' = [retries EXCEPT ![c] = n]
        BY <2>2, RetriesAssumption
        DEF Signal, Poll, PollAgain, Return, TypeInv, CallTypes
      <3>2. UNCHANGED <<name, running>> /\ signalled' \in {signalled, TRUE}
        BY <2>2 DEF Signal, Poll, nginx
      <3>3. \A d \in Callers : pc'[d] \notin Outcomes => pc'[d] = pc[d] \/ pc[d] = "signal"
        BY <2>2 DEF Signal, Step, Poll, PollAgain, Return, Outcomes, TypeInv, VersionTypes
      <3>4. missed' \in BOOLEAN
        <4>1. missed' = missed \/ missed' = Loads(files)
          BY <2>2 DEF Signal, Poll, nginx
        <4>. QED
          BY <4>1, LoadsType DEF TypeInv, CallTypes
      <3>. QED
        BY <1>2, <3>1, <3>2, <3>3, <3>4 DEF TypeInv, CallTypes, Outcomes
    <2>3. CASE ReadVersion(c) \/ GenerateVersionConfig(c) \/ RenameVersionFile(c)
               \/ ExpectVersion(c)
      BY <2>3
      DEF ReadVersion, GenerateVersionConfig, RenameVersionFile, ExpectVersion, Step,
          TypeInv, VersionTypes, ChangeTypes, CallTypes, Outcomes, local, nginx
    <2>. QED
      BY <2>1, <2>2, <2>3, ~IncrementVersion(c) DEF Call, Reload
  <1>5. ToIncrement' = ToIncrement
    BY ~IncrementVersion(c)
    DEF Call, CreateConfig, DeleteConfig, Reload, ReadVersion, GenerateVersionConfig,
        RenameVersionFile, Signal, ExpectVersion, Poll, PollAgain, Return, Finish, Step,
        TypeInv, VersionTypes, ToIncrement, Outcomes
  <1>6. VersionsWithin(Incremented)'
    <2>1. /\ versionFile' = versionFile \/ versionFile' = seen[c]
          /\ seen' = seen \/ \E v \in {0, configVersion} : seen' = [seen EXCEPT ![c] = v]
          /\ expected' = expected
                \/ \E v \in {0, configVersion} : expected' = [expected EXCEPT ![c] = v]
      BY ~IncrementVersion(c)
      DEF Call, CreateConfig, DeleteConfig, Reload, ReadVersion, GenerateVersionConfig,
          RenameVersionFile, Signal, ExpectVersion, Poll, PollAgain, Return, Finish, go, local
    <2>. QED
      BY <1>2, <1>5, <2>1, SameIncrements
      DEF TypeInv, VersionTypes, ChangeTypes, VersionsWithin
  <1>. QED
    BY <1>1, <1>2, <1>3, <1>4, <1>5, <1>6, SameIncrements DEF TypeInv

LEMMA NginxTypes ==
    ASSUME TypeInv, BeginLoad \/ EndLoad \/ OldWorkersQuit
    PROVE  TypeInv'
  <1>1. UNCHANGED <<files, go, pc, local, calls>>
    BY DEF BeginLoad, EndLoad, OldWorkersQuit
  <1>2. Incremented' = Incremented /\ IsFiniteSet(ToIncrement')
    BY <1>1, SameIncrements DEF ToIncrement
  <1>3. \/ UNCHANGED running
        \/ loading # Absent /\ running' = [version |-> loading, files |-> files]
    BY DEF BeginLoad, EndLoad, OldWorkersQuit
  <1>4. /\ draining' \subseteq draining \union {running.version}
        /\ loading' \in {loading, versionFile, Absent}
        /\ signalled' \in {signalled, FALSE}
        /\ missed' \in {missed, FALSE, Loads(files)}
    BY DEF BeginLoad, EndLoad, OldWorkersQuit
  <1>5. VersionTypes' /\ ChangeTypes' /\ CallTypes'
    <2>1. running' \in [version : Nat, files : [Names -> File]] /\ loading' \in Nat \union {Absent}
      BY <1>3, <1>4 DEF TypeInv, VersionTypes, ChangeTypes, CallTypes
    <2>. QED
      BY <1>1, <1>4, <2>1, LoadsType
      DEF TypeInv, VersionTypes, ChangeTypes, CallTypes, go, local
  <1>6. VersionsWithin(Incremented)'
    BY <1>1, <1>2, <1>3, <1>4
    DEF TypeInv, VersionTypes, ChangeTypes, VersionsWithin, go, local
  <1>. QED
    BY <1>2, <1>5, <1>6 DEF TypeInv

LEMMA TypeInvariant == Spec => []TypeInv
  <1>1. ASSUME TypeInv, UNCHANGED vars PROVE TypeInv'
    BY <1>1, SameIncrements
    DEF vars, go, local, nginx, TypeInv, VersionTypes, ChangeTypes, CallTypes, ToIncrement,
        VersionsWithin
  <1>2. TypeInv /\ [Next]_vars => TypeInv'
    BY <1>1, BeginTypes, IncrementTypes, OtherCallTypes, NginxTypes DEF Next
  <1>. QED
    BY InitTypeInv, <1>2, PTL DEF Spec

\* Every reachable state of the manager is of the declared types, and no version
\* is taken that is not of a call, however the unlocked increments of the callers
\* overwrite each other.
THEOREM ManagerTypeCorrect == Spec => []TypeOK
  <1>1. ASSUME TypeInv PROVE TypeOK
    <2>1. Cardinality(ToIncrement) \in Nat
      BY <1>1, FS_CardinalityType DEF TypeInv
    <2>2. Incremented <= MaxCalls
      BY <1>1, <2>1, CallsAssumption DEF TypeInv, CallTypes, Incremented
    <2>. QED
      BY <1>1, <2>2, CallsAssumption
      DEF TypeInv, VersionTypes, ChangeTypes, CallTypes, VersionsWithin, TypeOK, Versions
  <1>. QED
    BY TypeInvariant, <1>1, PTL

(***************************************************************************)
(* What a success means, of any number of callers.  As long as no two      *)
(* increments have raced, the counter only grows, and a caller's increment *)
(* makes a version (Own) that nobody has had before.  So whatever version  *)
(* the caller expects, and whoever wrote it to the version file or signals *)
(* it, an answer with it comes from workers that were started after the    *)
(* caller's change was in its file; and what runs later has it as well.    *)
(***************************************************************************)
Changed == {"reload", "increment", "generate", "rename", "signal", "expect", "poll"}

AfterIncrement == {"generate", "rename", "signal", "expect", "poll"}

\* A call's change is in its file, and no two calls have the same file.
FilesOfCalls ==
    /\ \A c \in Callers : /\ pc[c] = "delete" => content[c] = Absent
                          /\ pc[c] \in Changed => files[name[c]] = content[c]
    /\ \A c, d \in Callers :
            c # d /\ pc[c] # "idle" /\ pc[d] # "idle" => name[c] # name[d]

TouchedByOthers ==
    /\ touched \in [Callers -> SUBSET Names]
    /\ \A c \in Callers : /\ Returned(c) => touched[c] = {}
                          /\ name[c] \notin touched[c]

\* The version that the caller's increment has made, or a later one.
Own(c) == IF pc[c] = "generate" THEN seen[c] + 1 ELSE seen[c]

NoneIsNewer ==
    /\ versionFile <= configVersion
    /\ running.version <= configVersion
    /\ loading # Absent => loading <= configVersion
    /\ \A v \in draining : v <= configVersion
    /\ \A c \in Callers : seen[c] <= configVersion

\* What has the caller's version, or a later one, was loaded with its change.
Brought(c) ==
    \A v \in draining \union {running.version} :
        v >= Own(c) => \A n \in Names \ touched[c] : running.files[n] = files[n]

InTurn(c) ==
    /\ pc[c] = "increment" => seen[c] = configVersion
    /\ pc[c] \in AfterIncrement => Own(c) <= configVersion /\ Brought(c)
    /\ pc[c] = "poll" => Own(c) <= expected[c]

HistoryInv ==
    /\ FilesOfCalls /\ TouchedByOthers
    /\ raced \in BOOLEAN
    /\ ~raced => ~Racing /\ NoneIsNewer /\ \A c \in Callers : InTurn(c)

LEMMA InitHistoryInv == HistoryInit => HistoryInv
  <1>. SUFFICES ASSUME HistoryInit PROVE HistoryInv
    OBVIOUS
  <1>1. FilesOfCalls /\ raced = FALSE
    BY DEF HistoryInit, Init, FilesOfCalls, Changed
  <1>2. TouchedByOthers
    BY DEF HistoryInit, TouchedByOthers
  <1>3. ~Racing /\ NoneIsNewer /\ \A c \in Callers : InTurn(c)
    BY DEF HistoryInit, Init, Racing, NoneIsNewer, InTurn, AfterIncrement
  <1>. QED
    BY <1>1, <1>2, <1>3 DEF HistoryInv

\* Files are changed by their own calls only.
LEMMA OwnFiles ==
    ASSUME TypeInv, FilesOfCalls, NEW c \in Callers, Begin(c) \/ Call(c)
    PROVE  /\ FilesOfCalls'
           /\ \A d \in Callers \ {c} : pc'[d] = pc[d] /\ name'[d] = name[d]
           /\ \A n \in Names : files'[n] # files[n]
                    => n = name[c] /\ pc[c] \in {"create", "write", "delete"}
  <1>. USE DEF TypeInv, VersionTypes, ChangeTypes, CallTypes, FilesOfCalls
  <1>1. CASE Begin(c)
    BY <1>1 DEF Begin, Step, Changed, nginx
  <1>2. CASE CreateConfig(c)
    BY <1>2 DEF CreateConfig, Step, Changed, Outcomes, local
  <1>3. CASE DeleteConfig(c)
    BY <1>3 DEF DeleteConfig, Step, Changed, Outcomes, local
  <1>4. CASE Finish(c)
    BY <1>4 DEF Finish, Changed, Outcomes
  <1>5. CASE Reload(c)
    <2>1. UNCHANGED <<files, name, content>> /\ pc[c] \in Changed
      BY <1>5
      DEF Reload, ReadVersion, IncrementVersion, GenerateVersionConfig, RenameVersionFile,
          Signal, ExpectVersion, Poll, Step, Changed, local
    <2>2. \E step \in Steps : pc' = [pc EXCEPT ![c] = step] /\ step # "delete"
      BY <1>5
      DEF Reload, ReadVersion, IncrementVersion, GenerateVersionConfig, RenameVersionFile,
          Signal, ExpectVersion, Poll, PollAgain, Return, Step, Steps, Outcomes
    <2>. QED
      BY <2>1, <2>2 DEF Changed
  <1>. QED
    BY <1>1, <1>2, <1>3, <1>4, <1>5 DEF Call

LEMMA TouchedStaysTyped ==
    ASSUME TypeInv, HistoryInv, [Next]_vars, Recorded
    PROVE  TouchedByOthers'
  <1>1. touched' \in [Callers -> SUBSET Names]
    BY DEF HistoryInv, TouchedByOthers, Recorded
  <1>2. \A c \in Callers : Returned(c)' => touched'[c] = {}
    BY DEF Recorded
  <1>3. ASSUME NEW c \in Callers PROVE name'[c] \notin touched'[c]
    <2>1. CASE name'[c] = name[c]
      BY <2>1 DEF HistoryInv, TouchedByOthers, Recorded
    <2>2. CASE Returned(c)'
      BY <1>2, <2>2
    <2>3. CASE name'[c] # name[c] /\ ~Returned(c)'
      <3>1. Begin(c)
        BY <2>3
        DEF Next, vars, local, TypeInv, ChangeTypes, VersionTypes, Begin, Call, CreateConfig,
            DeleteConfig, Finish, Reload, ReadVersion, IncrementVersion,
            GenerateVersionConfig, RenameVersionFile, Signal, ExpectVersion, Poll, Returned,
            BeginLoad, EndLoad, OldWorkersQuit
      <3>2. touched[c] = {} /\ UNCHANGED files
        BY <3>1 DEF Begin, Step, HistoryInv, TouchedByOthers, Returned
      <3>. QED
        BY <3>2 DEF Recorded
    <2>. QED
      BY <2>1, <2>2, <2>3
  <1>. QED
    BY <1>1, <1>2, <1>3 DEF TouchedByOthers

\* A caller's change stays brought while nothing is loaded: its own file is left
\* alone after the increment, and of what others change no more is asked.
LEMMA StillBrought ==
    ASSUME TypeInv, TypeInv', HistoryInv, Recorded, NEW c \in Callers,
           pc[c] \in AfterIncrement, pc'[c] \in AfterIncrement,
           Brought(c), Own(c) <= Own(c)',
           UNCHANGED running, draining' \subseteq draining,
           files'[name[c]] = files[name[c]]
    PROVE  Brought(c)'
  <1>1. Own(c) \in Nat /\ Own(c)' \in Nat
    BY DEF TypeInv, VersionTypes, Own
  <1>2. ~Returned(c)'
    BY DEF AfterIncrement, Returned, Outcomes
  <1>3. ASSUME NEW n \in Names \ touched'[c]
        PROVE  n \in Names \ touched[c] /\ files'[n] = files[n]
    BY <1>2 DEF Recorded
  <1>4. ASSUME NEW v \in draining' \union {running'.version}, v >= Own(c)'
        PROVE  v \in draining \union {running.version} /\ v >= Own(c)
    <2>1. v \in draining \union {running.version} /\ v \in Nat
      BY DEF TypeInv, ChangeTypes
    <2>. QED
      BY <1>1, <1>4, <2>1 DEF Own
  <1>. QED
    BY <1>3, <1>4 DEF Brought

\* The Configurer's half of a change, and its return.
LEMMA InTurnEdits ==
    ASSUME TypeInv, TypeInv', HistoryInv, Recorded, ~raced, NEW c \in Callers,
           Begin(c) \/ CreateConfig(c) \/ DeleteConfig(c) \/ Finish(c)
    PROVE  NoneIsNewer' /\ \A d \in Callers : InTurn(d)'
  <1>1. UNCHANGED <<go, seen, expected, nginx>>
    BY DEF Begin, CreateConfig, DeleteConfig, Finish, local
  <1>2. NoneIsNewer'
    BY <1>1 DEF HistoryInv, NoneIsNewer, go, nginx
  <1>3. pc'[c] \notin AfterIncrement \union {"increment"}
    BY DEF Begin, CreateConfig, DeleteConfig, Finish, Step, TypeInv, VersionTypes,
           AfterIncrement
  <1>4. ASSUME NEW d \in Callers, d # c PROVE InTurn(d)'
    <2>1. pc'[d] = pc[d]
      BY <1>4, OwnFiles DEF Call, HistoryInv
    <2>2. Own(d)' = Own(d)
      BY <1>1, <2>1 DEF Own
    <2>3. ASSUME pc[d] \in AfterIncrement PROVE Brought(d)'
      <3>1. name[d] \in Names /\ pc[d] \in Changed
        BY <2>3 DEF TypeInv, CallTypes, AfterIncrement, Changed, Outcomes
      <3>2. files'[name[d]] = files[name[d]]
        BY <1>4, <2>3, <3>1, OwnFiles DEF Call, HistoryInv, FilesOfCalls, AfterIncrement
      <3>3. Own(d) \in Nat /\ Brought(d)
        BY <2>3 DEF HistoryInv, InTurn, Own, TypeInv, VersionTypes
      <3>. QED
        BY <1>1, <2>1, <2>2, <2>3, <3>2, <3>3, StillBrought DEF nginx
    <2>. QED
      BY <1>1, <2>1, <2>2, <2>3 DEF HistoryInv, InTurn, go
  <1>. QED
    BY <1>2, <1>3, <1>4 DEF InTurn, AfterIncrement

\* Reload before the signal: the counter grows by this caller's increment only,
\* and every other version is a copy of it.
LEMMA InTurnVersions ==
    ASSUME TypeInv, TypeInv', HistoryInv, Recorded, ~raced', NEW c \in Callers,
           \/ ReadVersion(c) \/ IncrementVersion(c) \/ GenerateVersionConfig(c)
           \/ RenameVersionFile(c)
    PROVE  NoneIsNewer' /\ \A d \in Callers : InTurn(d)'
  <1>1. /\ ~raced /\ ~Racing /\ ~Racing' /\ NoneIsNewer
        /\ \A d \in Callers : InTurn(d)
    BY DEF HistoryInv, Recorded
  <1>2. /\ UNCHANGED <<files, name, expected, loading, running, draining>>
        /\ \A d \in Callers \ {c} : pc'[d] = pc[d] /\ seen'[d] = seen[d]
    BY DEF ReadVersion, IncrementVersion, GenerateVersionConfig, RenameVersionFile, Step,
           TypeInv, VersionTypes, local, nginx
  <1>3. IF pc[c] = "increment" THEN configVersion' = configVersion + 1
                               ELSE UNCHANGED configVersion
    <2>1. CASE IncrementVersion(c)
      BY <1>1, <2>1 DEF IncrementVersion, Step, InTurn
    <2>2. CASE ReadVersion(c) \/ GenerateVersionConfig(c) \/ RenameVersionFile(c)
      BY <2>2 DEF ReadVersion, GenerateVersionConfig, RenameVersionFile, Step, go
    <2>. QED
      BY <2>1, <2>2
  <1>4. NoneIsNewer'
    <2>1. versionFile' \in {versionFile, seen[c]}
      BY DEF ReadVersion, IncrementVersion, GenerateVersionConfig, RenameVersionFile, go
    <2>2. seen' = seen \/ seen' = [seen EXCEPT ![c] = configVersion]
      BY DEF ReadVersion, IncrementVersion, GenerateVersionConfig, RenameVersionFile, local
    <2>. QED
      BY <1>1, <1>2, <1>3, <2>1, <2>2 DEF NoneIsNewer, TypeInv, VersionTypes, ChangeTypes
  <1>5. ASSUME NEW d \in Callers, d # c PROVE InTurn(d)'
    <2>1. pc'[d] = pc[d] /\ Own(d)' = Own(d) /\ Own(d) \in Nat
      BY <1>2, <1>5 DEF Own, TypeInv, VersionTypes
    <2>2. pc[d] = "increment" => UNCHANGED configVersion
      BY <1>1, <1>3, <1>5 DEF Racing
    <2>3. pc[d] \in AfterIncrement => Brought(d)'
      BY <1>1, <1>2, <2>1, StillBrought DEF InTurn
    <2>. QED
      BY <1>1, <1>2, <1>3, <1>5, <2>1, <2>2, <2>3 DEF InTurn, TypeInv, VersionTypes
  <1>6. InTurn(c)'
    <2>1. CASE ReadVersion(c)
      BY <2>1 DEF ReadVersion, Step, InTurn, AfterIncrement, TypeInv, VersionTypes, go
    <2>2. CASE IncrementVersion(c)
      <3>1. pc'[c] = "generate" /\ Own(c)' = configVersion + 1 /\ configVersion' = configVersion + 1
        BY <1>1, <2>2
        DEF IncrementVersion, Step, InTurn, Own, TypeInv, VersionTypes, local
      <3>2. \A v \in draining' \union {running'.version} : v \in Nat /\ v <= configVersion
        BY <1>1, <1>2 DEF NoneIsNewer, TypeInv, ChangeTypes
      <3>3. Brought(c)'
        BY <3>1, <3>2 DEF Brought, TypeInv, VersionTypes
      <3>. QED
        BY <3>1, <3>3 DEF InTurn, TypeInv, VersionTypes
    <2>3. CASE GenerateVersionConfig(c) \/ RenameVersionFile(c)
      <3>1. /\ pc[c] \in {"generate", "rename"} /\ pc'[c] \in {"rename", "signal"}
            /\ UNCHANGED configVersion
        BY <2>3
        DEF GenerateVersionConfig, RenameVersionFile, Step, TypeInv, VersionTypes, go
      <3>2. Own(c) <= Own(c)' /\ Own(c)' <= configVersion
        BY <1>1, <2>3
        DEF GenerateVersionConfig, RenameVersionFile, Step, InTurn, Own, AfterIncrement,
            TypeInv, VersionTypes, local
      <3>3. Brought(c)'
        BY <1>1, <1>2, <3>1, <3>2, StillBrought DEF InTurn, AfterIncrement
      <3>. QED
        BY <3>1, <3>2, <3>3 DEF InTurn
    <2>. QED
      BY <2>1, <2>2, <2>3
  <1>. QED
    BY <1>4, <1>5, <1>6

\* The signal, the third read, and the polls.
LEMMA InTurnWaits ==
    ASSUME TypeInv, TypeInv', HistoryInv, Recorded, ~raced, NEW c \in Callers,
           Signal(c) \/ ExpectVersion(c) \/ Poll(c)
    PROVE  NoneIsNewer' /\ \A d \in Callers : InTurn(d)'
  <1>1. NoneIsNewer /\ \A d \in Callers : InTurn(d)
    BY DEF HistoryInv
  <1>2. /\ UNCHANGED <<files, go, name, loading, running, draining>>
        /\ \A d \in Callers \ {c} :
                pc'[d] = pc[d] /\ seen'[d] = seen[d] /\ expected'[d] = expected[d]
        /\ seen'[c] = seen[c] \/ seen'[c] = 0
    BY DEF Signal, ExpectVersion, Poll, PollAgain, Return, Step, TypeInv, VersionTypes,
           ChangeTypes, nginx
  <1>3. NoneIsNewer'
    BY <1>1, <1>2 DEF NoneIsNewer, TypeInv, VersionTypes, ChangeTypes, go
  <1>4. ASSUME NEW d \in Callers, d # c PROVE InTurn(d)'
    <2>1. pc'[d] = pc[d] /\ Own(d)' = Own(d) /\ Own(d) \in Nat
      BY <1>2, <1>4 DEF Own, TypeInv, VersionTypes
    <2>2. pc[d] \in AfterIncrement => Brought(d)'
      BY <1>1, <1>2, <2>1, StillBrought DEF InTurn
    <2>. QED
      BY <1>1, <1>2, <1>4, <2>1, <2>2 DEF InTurn, go
  <1>5. InTurn(c)'
    <2>1. CASE pc'[c] \in Outcomes
      BY <2>1 DEF InTurn, Outcomes, AfterIncrement
    <2>2. CASE pc'[c] \notin Outcomes
      <3>1. /\ pc[c] \in AfterIncrement /\ pc'[c] \in {"expect", "poll"}
            /\ pc[c] # "generate" /\ seen'[c] = seen[c]
            /\ \/ pc'[c] = "expect"
               \/ expected'[c] = configVersion
               \/ pc[c] = "poll" /\ expected'[c] = expected[c]
        BY <2>2
        DEF Signal, ExpectVersion, Poll, PollAgain, Return, Step, Outcomes, AfterIncrement,
            TypeInv, VersionTypes, ChangeTypes
      <3>2. Own(c)' = Own(c) /\ Own(c) \in Nat
        BY <3>1 DEF Own, TypeInv, VersionTypes
      <3>3. Brought(c)'
        BY <1>1, <1>2, <3>1, <3>2, StillBrought DEF InTurn, AfterIncrement
      <3>. QED
        BY <1>1, <1>2, <3>1, <3>2, <3>3 DEF InTurn, go
    <2>. QED
      BY <2>1, <2>2
  <1>. QED
    BY <1>3, <1>4, <1>5

\* A load has the version of the version file, and brings all the files there are.
LEMMA InTurnLoads ==
    ASSUME TypeInv, TypeInv', HistoryInv, Recorded, ~raced,
           BeginLoad \/ EndLoad \/ OldWorkersQuit
    PROVE  NoneIsNewer' /\ \A c \in Callers : InTurn(c)'
  <1>1. NoneIsNewer /\ \A c \in Callers : InTurn(c)
    BY DEF HistoryInv
  <1>2. UNCHANGED <<files, go, pc, local>>
    BY DEF BeginLoad, EndLoad, OldWorkersQuit
  <1>3. \/ UNCHANGED running /\ draining' \subseteq draining
        \/ /\ loading # Absent /\ running' = [version |-> loading, files |-> files]
           /\ draining' \subseteq draining \union {running.version}
    BY DEF BeginLoad, EndLoad, OldWorkersQuit
  <1>4. loading' \in {loading, versionFile, Absent}
    BY DEF BeginLoad, EndLoad, OldWorkersQuit
  <1>5. NoneIsNewer'
    BY <1>1, <1>2, <1>3, <1>4 DEF NoneIsNewer, go, local
  <1>6. ASSUME NEW c \in Callers PROVE InTurn(c)'
    <2>1. Own(c)' = Own(c) /\ Own(c) \in Nat
      BY <1>2 DEF Own, TypeInv, VersionTypes, local
    <2>2. ASSUME pc[c] \in AfterIncrement PROVE Brought(c)'
      <3>1. CASE UNCHANGED running /\ draining' \subseteq draining
        BY <1>1, <1>2, <2>1, <2>2, <3>1, StillBrought DEF InTurn
      <3>2. CASE running' = [version |-> loading, files |-> files]
        BY <1>2, <3>2 DEF Brought
      <3>. QED
        BY <1>3, <3>1, <3>2
    <2>. QED
      BY <1>1, <1>2, <2>1, <2>2 DEF InTurn, go, local
  <1>. QED
    BY <1>5, <1>6

\* The history variables hold up no step.
LEMMA HistoryIsSpec == HistorySpec => Spec
  <1>1. HistoryInit => Init
    BY DEF HistoryInit
  <1>2. [Next /\ Recorded]_historyVars => [Next]_vars
    BY DEF historyVars
  <1>. QED
    BY <1>1, <1>2, PTL DEF HistorySpec, Spec

LEMMA HistoryInvariant == HistorySpec => []HistoryInv
  <1>1. HistorySpec => []TypeInv
    BY HistoryIsSpec, TypeInvariant, PTL
  <1>2. HistoryInv /\ TypeInv /\ TypeInv' /\ [Next /\ Recorded]_historyVars => HistoryInv'
    <2>. SUFFICES ASSUME HistoryInv, TypeInv, TypeInv', Next, Recorded PROVE HistoryInv'
      BY DEF historyVars, history, vars, go, local, nginx, HistoryInv, FilesOfCalls,
             TouchedByOthers, Racing, NoneIsNewer, InTurn, Own, Brought, Returned
    <2>1. FilesOfCalls'
      <3>1. CASE BeginLoad \/ EndLoad \/ OldWorkersQuit
        BY <3>1
        DEF BeginLoad, EndLoad, OldWorkersQuit, local, HistoryInv, FilesOfCalls
      <3>. QED
        BY <3>1, OwnFiles DEF Next, HistoryInv
    <2>2. TouchedByOthers' /\ raced' \in BOOLEAN
      BY TouchedStaysTyped DEF Recorded, HistoryInv, Racing
    <2>3. ASSUME ~raced' PROVE ~Racing' /\ NoneIsNewer' /\ \A c \in Callers : InTurn(c)'
      <3>1. ~raced /\ ~Racing'
        BY <2>3 DEF Recorded
      <3>. QED
        BY <2>3, <3>1, InTurnEdits, InTurnVersions, InTurnWaits, InTurnLoads
        DEF Next, Call, Reload
    <2>. QED
      BY <2>1, <2>2, <2>3 DEF HistoryInv
  <1>3. HistorySpec => HistoryInv
    BY InitHistoryInv DEF HistorySpec
  <1>. QED
    BY <1>1, <1>2, <1>3, PTL DEF HistorySpec

\* A caller that succeeds has seen a version that was loaded with its change.
LEMMA SuccessLemma ==
    ASSUME TypeInv, HistoryInv, [Next]_vars, ~raced,
           NEW c \in Callers, Returns(c, "ok")
    PROVE  /\ Poll(c)
           /\ \A n \in Names \ touched[c] : running.files[n] = files[n]
  <1>1. Poll(c) /\ expected[c] \in Answers
    <2>1. \E d \in Callers : Begin(d) \/ Call(d)
      BY DEF Returns, Next, vars, BeginLoad, EndLoad, OldWorkersQuit
    <2>2. PICK d \in Callers : Begin(d) \/ Call(d)
      BY <2>1
    <2>3. c = d
      BY <2>2, OwnFiles DEF Returns, HistoryInv
    <2>4. ~Begin(c) /\ ~CreateConfig(c) /\ ~DeleteConfig(c) /\ ~Finish(c) /\ Reload(c)
      BY <2>2, <2>3
      DEF Returns, Begin, Call, CreateConfig, DeleteConfig, Finish, Step, TypeInv,
          VersionTypes
    <2>5. Poll(c)
      BY <2>4
      DEF Returns, Reload, ReadVersion, IncrementVersion, GenerateVersionConfig,
          RenameVersionFile, Signal, ExpectVersion, Return, Step, TypeInv, VersionTypes
    <2>. QED
      BY <2>5 DEF Returns, Poll, PollAgain, Return, TypeInv, VersionTypes
  <1>2. expected[c] \in draining \union {running.version}
    BY <1>1, AbsentAssumption DEF Answers, TypeInv, ChangeTypes
  <1>3. pc[c] = "poll" /\ Own(c) <= expected[c] /\ Brought(c)
    BY <1>1 DEF Poll, HistoryInv, InTurn, AfterIncrement
  <1>4. Own(c) \in Nat /\ expected[c] \in Nat
    BY <1>3 DEF Own, TypeInv, VersionTypes, ChangeTypes
  <1>. QED
    BY <1>1, <1>2, <1>3, <1>4 DEF Brought

\* A call that succeeds has brought its change to NGINX, whatever any number of
\* other callers do at the same time with the files, the version file, the signal
\* and the counter, as long as no two of their increments have raced.
THEOREM SuccessIsEarned == HistorySpec => SuccessUnlessRaced
  <1>1. TypeInv /\ HistoryInv /\ [Next /\ Recorded]_historyVars
            => [\A c \in Callers : Returns(c, "ok") /\ ~raced
                    => running.files[name[c]] = content[c]]_historyVars
    <2>. SUFFICES ASSUME TypeInv, HistoryInv, Next,
                         NEW c \in Callers, Returns(c, "ok"), ~raced
                  PROVE  running.files[name[c]] = content[c]
      OBVIOUS
    <2>1. pc[c] = "poll" /\ \A n \in Names \ touched[c] : running.files[n] = files[n]
      BY SuccessLemma DEF Poll
    <2>2. name[c] \in Names \ touched[c] /\ files[name[c]] = content[c]
      BY <2>1
      DEF TypeInv, CallTypes, Outcomes, HistoryInv, TouchedByOthers, FilesOfCalls, Changed
    <2>. QED
      BY <2>1, <2>2
  <1>. QED
    BY <1>1, TypeInvariant, HistoryIsSpec, HistoryInvariant, PTL
    DEF HistorySpec, SuccessUnlessRaced

(***************************************************************************)
(* What the callers have of Reloader.tla, until two increments race.       *)
(***************************************************************************)
Phase == [c \in Callers |-> IF Returned(c) THEN pc[c] ELSE "busy"]

LEMMA InitReloads == HistoryInit => Promise!Init
  <1>. SUFFICES ASSUME HistoryInit PROVE Promise!Init
    OBVIOUS
  <1>. QED
    BY DEF HistoryInit, Init, Promise!Init, NoFiles, Returned, Outcomes

\* The promise's view of a step of one caller.
LEMMA OnePhase ==
    ASSUME TypeInv, NEW c \in Callers, Begin(c) \/ Call(c)
    PROVE  Phase' = [Phase EXCEPT ![c] = IF Returned(c)' THEN pc'[c] ELSE "busy"]
  <1>1. \E step : pc' = [pc EXCEPT ![c] = step]
    BY DEF Begin, Call, CreateConfig, DeleteConfig, Finish, Reload, ReadVersion,
           IncrementVersion, GenerateVersionConfig, RenameVersionFile, Signal,
           ExpectVersion, Poll, PollAgain, Return, Step, TypeInv, VersionTypes
  <1>2. \A d \in Callers \ {c} : Phase'[d] = Phase[d]
    BY <1>1 DEF Phase, Returned, TypeInv, VersionTypes
  <1>. QED
    BY <1>2 DEF Phase

\* A call that begins, one that edits its file, and one that is over.
LEMMA PromisedEdits ==
    ASSUME TypeInv, HistoryInv, Recorded, NEW c \in Callers,
           Begin(c) \/ CreateConfig(c) \/ DeleteConfig(c) \/ Finish(c)
    PROVE  Promise!Next \/ UNCHANGED Promise!vars
  <1>1. UNCHANGED running
    BY DEF Begin, CreateConfig, DeleteConfig, Finish, nginx
  <1>2. Phase' = [Phase EXCEPT ![c] = IF Returned(c)' THEN pc'[c] ELSE "busy"]
    BY OnePhase DEF Call
  <1>3. CASE Begin(c)
    <2>1. UNCHANGED files /\ Returned(c) /\ ~Returned(c)' /\ pc[c] = "idle"
      BY <1>3 DEF Begin, Step, TypeInv, VersionTypes, Returned, Outcomes
    <2>2. UNCHANGED touched
      <3>1. \A d \in Callers \ {c} : Returned(d)' <=> Returned(d)
        BY <1>3, OwnFiles DEF Returned, HistoryInv
      <3>2. touched[c] = {}
        BY <2>1 DEF HistoryInv, TouchedByOthers
      <3>3. \A d \in Callers : touched'[d] = touched[d]
        BY <2>1, <3>1, <3>2 DEF Recorded, HistoryInv, TouchedByOthers
      <3>. QED
        BY <3>3 DEF Recorded, HistoryInv, TouchedByOthers
    <2>3. Phase[c] = "idle" /\ Phase' = [Phase EXCEPT ![c] = "busy"]
      BY <1>2, <2>1 DEF Phase
    <2>4. PICK n \in Names : /\ \A d \in Callers : pc[d] # "idle" => name[d] # n
                             /\ name' = [name EXCEPT ![c] = n]
      BY <1>3 DEF Begin
    <2>5. \A d \in Callers : Phase[d] # "idle" => name[d] # n
      BY <2>4 DEF Phase, Returned, Outcomes
    <2>. QED
      BY <1>1, <2>1, <2>2, <2>3, <2>4, <2>5 DEF Promise!Next, Promise!Begin, Phase
  <1>4. CASE CreateConfig(c) \/ DeleteConfig(c)
    <2>1. /\ ~Returned(c) /\ ~Returned(c)' /\ UNCHANGED name /\ name[c] \in Names
          /\ \E x \in File : files' = [files EXCEPT ![name[c]] = x]
      BY <1>4
      DEF CreateConfig, DeleteConfig, Step, Returned, Outcomes, local, File, TypeInv,
          VersionTypes, ChangeTypes, CallTypes
    <2>2. Phase[c] = "busy" /\ UNCHANGED Phase
      BY <1>2, <2>1 DEF Phase
    <2>3. CASE UNCHANGED files
      <3>1. UNCHANGED touched
        BY <2>1, <2>2, <2>3, OwnFiles
        DEF Call, Recorded, HistoryInv, TouchedByOthers, Returned
      <3>. QED
        BY <1>1, <2>1, <2>2, <2>3, <3>1 DEF Promise!vars, Phase
    <2>4. CASE files' # files
      <3>1. \A n \in Names : files'[n] # files[n] <=> n = name[c]
        BY <2>1, <2>4 DEF TypeInv, ChangeTypes
      <3>2. ASSUME NEW d \in Callers
            PROVE  touched'[d] = IF d # c /\ Phase[d] = "busy"
                                 THEN touched[d] \union {name[c]} ELSE touched[d]
        <4>1. CASE Returned(d)
          <5>1. d # c /\ Returned(d)' /\ Phase[d] # "busy"
            BY <2>1, <2>2, <4>1 DEF Phase, Returned, Outcomes
          <5>. QED
            BY <4>1, <5>1 DEF Recorded, HistoryInv, TouchedByOthers
        <4>2. CASE ~Returned(d)
          <5>1. ~Returned(d)' /\ Phase[d] = "busy"
            BY <2>1, <4>2, OwnFiles DEF Phase, Returned, Call, HistoryInv
          <5>2. touched'[d] = touched[d] \union {n \in Names : n # name[d] /\ n = name[c]}
            BY <3>1, <5>1 DEF Recorded
          <5>3. d # c => name[d] # name[c]
            BY <2>1, <4>2 DEF HistoryInv, FilesOfCalls, Returned, Outcomes
          <5>. QED
            BY <2>1, <5>1, <5>2, <5>3
        <4>. QED
          BY <4>1, <4>2
      <3>3. touched' = [d \in Callers |-> IF d # c /\ Phase[d] = "busy"
                                          THEN touched[d] \union {name[c]} ELSE touched[d]]
        BY <3>2 DEF Recorded
      <3>. QED
        BY <1>1, <2>1, <2>2, <3>3 DEF Promise!Next, Promise!Edit, Phase
    <2>. QED
      BY <2>3, <2>4
  <1>5. CASE Finish(c)
    <2>1. /\ UNCHANGED files /\ pc[c] \in Outcomes /\ pc'[c] = "idle"
          /\ name' = [name EXCEPT ![c] = Absent]
      BY <1>5 DEF Finish, TypeInv, VersionTypes
    <2>2. Phase[c] \in {"ok", "error"} /\ Phase' = [Phase EXCEPT ![c] = "idle"]
      BY <1>2, <2>1 DEF Phase, Returned, Outcomes
    <2>3. \A d \in Callers : Returned(d)' <=> Returned(d)
      BY <2>1, <1>5, OwnFiles DEF Call, Returned, HistoryInv
    <2>4. UNCHANGED touched
      BY <2>1, <2>3 DEF Recorded, HistoryInv, TouchedByOthers
    <2>. QED
      BY <1>1, <2>1, <2>2, <2>4 DEF Promise!Next, Promise!Finish, Phase
  <1>. QED
    BY <1>3, <1>4, <1>5

\* Reload is of no interest to the promise but for its outcome.
LEMMA PromisedReloads ==
    ASSUME TypeInv, HistoryInv, Next, Recorded, ~raced, NEW c \in Callers, Reload(c)
    PROVE  Promise!Next \/ UNCHANGED Promise!vars
  <1>1. UNCHANGED <<files, name, running>> /\ ~Returned(c)
    BY DEF Reload, ReadVersion, IncrementVersion, GenerateVersionConfig, RenameVersionFile,
           Signal, ExpectVersion, Poll, Step, Returned, Outcomes, local, nginx
  <1>2. /\ Phase[c] = "busy"
        /\ Phase' = [Phase EXCEPT ![c] = IF Returned(c)' THEN pc'[c] ELSE "busy"]
    BY <1>1, OnePhase DEF Phase, Call
  <1>3. \A d \in Callers \ {c} : Returned(d)' <=> Returned(d)
    BY OwnFiles DEF Call, Returned, HistoryInv
  <1>4. CASE ~Returned(c)'
    <2>1. UNCHANGED touched
      BY <1>1, <1>3, <1>4 DEF Recorded, HistoryInv, TouchedByOthers
    <2>2. UNCHANGED Phase
      BY <1>2, <1>4 DEF Phase
    <2>. QED
      BY <1>1, <2>1, <2>2 DEF Promise!vars, Phase
  <1>5. CASE Returned(c)'
    <2>1. touched' = [touched EXCEPT ![c] = {}]
      BY <1>1, <1>3, <1>5 DEF Recorded, HistoryInv, TouchedByOthers
    <2>2. pc'[c] \in Outcomes
      BY <1>1, <1>5
      DEF Reload, ReadVersion, IncrementVersion, GenerateVersionConfig, RenameVersionFile,
          Signal, ExpectVersion, Poll, PollAgain, Return, Step, Returned, Outcomes, TypeInv,
          VersionTypes
    <2>3. \A outcome : pc'[c] = outcome => Promise!Return(c, outcome)
      BY <1>1, <1>2, <1>5, <2>1 DEF Promise!Return, Phase
    <2>4. CASE pc'[c] = "ok"
      <3>1. \A n \in Names \ touched[c] : running.files[n] = files[n]
        BY <1>1, <2>4, SuccessLemma DEF Returns, Returned, Outcomes
      <3>. QED
        BY <2>3, <2>4, <3>1 DEF Promise!Next, Promise!Succeed
    <2>5. CASE pc'[c] = "error"
      BY <2>3, <2>5 DEF Promise!Next, Promise!Fail
    <2>. QED
      BY <2>2, <2>4, <2>5 DEF Outcomes
  <1>. QED
    BY <1>4, <1>5

\* NGINX takes over all the files or none.
LEMMA PromisedLoads ==
    ASSUME TypeInv, HistoryInv, Recorded, BeginLoad \/ EndLoad \/ OldWorkersQuit
    PROVE  Promise!Next \/ UNCHANGED Promise!vars
  <1>1. UNCHANGED <<files, pc, name>>
    BY DEF BeginLoad, EndLoad, OldWorkersQuit, local
  <1>2. UNCHANGED touched
    BY <1>1 DEF Recorded, HistoryInv, TouchedByOthers, Returned
  <1>3. UNCHANGED Phase
    BY <1>1 DEF Phase, Returned
  <1>4. \/ UNCHANGED running
        \/ running' = [version |-> loading, files |-> files] /\ Loads(files)
    BY DEF BeginLoad, EndLoad, OldWorkersQuit
  <1>. QED
    BY <1>1, <1>2, <1>3, <1>4
    DEF Promise!vars, Promise!Next, Promise!Load, Phase, TypeInv, ChangeTypes

\* Any number of callers have what Reloader.tla promises until two increments
\* race: NGINX takes over all files or none of them, and a call that succeeds
\* returns when NGINX runs every file that others have not changed meanwhile.
THEOREM ReloaderImplemented == HistorySpec => ImplementsReloader
  <1>1. TypeInv /\ HistoryInv /\ [Next /\ Recorded]_historyVars
            => [raced' \/ Promise!Next]_(Promise!vars)
    <2>. SUFFICES ASSUME TypeInv, HistoryInv, [Next /\ Recorded]_historyVars, ~raced'
                  PROVE  Promise!Next \/ UNCHANGED Promise!vars
      OBVIOUS
    <2>1. CASE UNCHANGED historyVars
      BY <2>1 DEF historyVars, history, vars, local, nginx, Promise!vars, Returned
    <2>2. CASE Next /\ Recorded
      <3>1. ~raced
        BY <2>2 DEF Recorded
      <3>. QED
        BY <2>2, <3>1, PromisedEdits, PromisedReloads, PromisedLoads DEF Next, Call
    <2>. QED
      BY <2>1, <2>2
  <1>. QED
    BY <1>1, InitReloads, TypeInvariant, HistoryIsSpec, HistoryInvariant, PTL
    DEF HistorySpec, ImplementsReloader
==============================================================================
