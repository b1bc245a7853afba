------------------------------ MODULE AgentProps ------------------------------
(***************************************************************************)
(* What the agent promises to who declares a TCPServer: that NGINX serves  *)
(* it, though the workers reload NGINX side by side, and though a reload   *)
(* that fails is only logged.                                              *)
(***************************************************************************)
EXTENDS Agent, ControllerProps

\* Every variable that the composition adds holds a value of its kind.
AgentTypeOK ==
    /\ versionFile \in 0..calls /\ configVersion \in 0..calls
    /\ call \in [Workers -> {"idle", "reload", "increment", "generate", "rename",
                             "signal", "expect", "poll"} \union Manager!Outcomes]
    /\ \A w \in Workers : call[w] = "idle" <=> pc[w] # "reload"
    /\ seen \in [Workers -> 0..calls] /\ expected \in [Workers -> 0..calls]
    /\ retries \in [Workers -> 0..(MaxRetries - 1)]
    /\ signalled \in BOOLEAN /\ loading \in 0..calls \union {Absent}
    /\ running \in [version : 0..calls, files : [Keys -> Contents]]
    /\ missed \in BOOLEAN
    /\ calls \in 0..MaxCalls

(***************************************************************************)
(* The workers are callers as NginxManager.tla takes them to be: each step *)
(* of the agent is a step of the manager or none at all for it, and a      *)
(* restart is a new start of the manager.  In particular no two workers    *)
(* ever have a call for the same file.                                     *)
(***************************************************************************)
InCall(w) == pc[w] \in {"create", "write", "store", "remove", "delete", "reload"}

CallStep(w) ==
    CASE pc[w] \in {"create", "write"} -> pc[w]
      [] pc[w] = "remove"              -> "delete"
      [] pc[w] \in {"store", "delete"} -> "reload"
      [] pc[w] = "reload"              -> call[w]
      [] OTHER                         -> "idle"

Calls ==
    INSTANCE NginxManager WITH
        Callers <- Workers, Names <- Keys,
        Contents <- AllConfigs, ListenPort <- ListenPortOf,
        pc <- [w \in Workers |-> CallStep(w)],
        name <- [w \in Workers |-> IF InCall(w) THEN key[w] ELSE Absent],
        content <- cfg

ImplementsManager == Calls!Init /\ [][Calls!Next \/ Calls!Init']_(Calls!vars)

(***************************************************************************)
(* Nothing is left undone: when no key is on its way and NGINX has nothing *)
(* to load, it runs what every TCPServer asks for.  An update whose own    *)
(* reload failed is no exception if a later one, of any TCPServer, did     *)
(* not.  Excepted are files that do not load together, and a reload        *)
(* command or a load that failed for a reason of its own and has been the  *)
(* last: nobody tries it again.                                            *)
(***************************************************************************)
AtRest == (\A k \in Keys : ~Pending(k)) /\ ~signalled /\ loading = Absent

ServedAtRest ==
    AtRest /\ Manager!Loads(files) /\ ~missed
        => \A k \in Keys : running.files[k] \in Wanted(k)

(***************************************************************************)
(* Once nothing changes any more, NGINX comes to serve what is declared    *)
(* and goes on doing so, with the exceptions of ServedAtRest.              *)
(***************************************************************************)
EventuallyServed ==
    <>[](Manager!Loads(files) /\ ~missed
            => \A k \in Keys : running.files[k] \in Declared(k))

(***************************************************************************)
(* No worker is lost in a reload: it returns, though the reload command or *)
(* NGINX's loads fail, or only workers of earlier configurations answer.   *)
(***************************************************************************)
ReloadsReturn == \A w \in Workers : call[w] # "idle" ~> call[w] = "idle"
==============================================================================
