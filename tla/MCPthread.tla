----------------------------- MODULE MCPthread ------------------------------
(***************************************************************************)
(* Instances of Pthread: applications with two mutexes, with a mutex and   *)
(* its attribute, with a condition, its mutex and its attribute, with a    *)
(* semaphore and with a rwlock.  Three pages: what one object gives back   *)
(* is handed out to another.                                               *)
(***************************************************************************)
EXTENDS Pthread, TLC

CONSTANTS t1, t2, t3, m1, m2, ma, cv, ca, se, rw, at, cl, p1, p2, p3

MCKind == m1 :> "normal" @@ m2 :> "recursive" @@ ma :> "mutexattr" @@ cv :> "cond" @@ ca :> "condattr"
          @@ se :> "sem" @@ rw :> "rwlock" @@ at :> "attr" @@ cl :> "cleanup"

Sym == Permutations(Threads) \cup Permutations(Pages)
=============================================================================
