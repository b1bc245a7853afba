---------------------------- MODULE InformerFactory ----------------------------
(***************************************************************************)
(* The shared informer factory of pkg/client/informers/externalversions:   *)
(* one informer for each type of object, made when it is first asked for,  *)
(* and run once.  client-go has the same factory for the core types.       *)
(*                                                                         *)
(* A factory is a value: what its maps hold.  The n-th informer made for a *)
(* type is n, and 0 stands for none.                                       *)
(***************************************************************************)
EXTENDS Integers

NewSharedInformerFactory(types) ==
    [informers |-> [t \in types |-> 0], startedInformers |-> {}, running |-> {}]

MakeAnother(f, t) == [f EXCEPT !.informers[t] = f.informers[t] + 1]

\* Makes the informer of type t unless it exists; it is informers[t] after.
InformerFor(f, t) == IF f.informers[t] # 0 THEN f ELSE MakeAnother(f, t)

\* Runs the informers that were asked for and do not run yet.
Start(f) ==
    LET new == {t \in DOMAIN f.informers : f.informers[t] # 0 /\ t \notin f.startedInformers}
    IN  [f EXCEPT !.startedInformers = f.startedInformers \union new,
                  !.running = f.running \union {[type |-> t, n |-> f.informers[t]] : t \in new}]
==============================================================================
