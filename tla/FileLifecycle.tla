---------------------------- MODULE FileLifecycle ----------------------------
(***************************************************************************)
(* What the file routes promise of a file, as its owner sees it: it is     *)
(* new, then served, then perhaps broken (listed, its content removed),    *)
(* then gone, and it never goes back.  There are no stores, no workers and *)
(* no failures here.  FileStore implements this module.                    *)
(***************************************************************************)
CONSTANT Files

VARIABLES
    phase,      \* of each file: "new", "served", "broken" or "gone"
    asked,      \* files whose removal was begun
    promised,   \* files whose upload was acknowledged
    trail       \* what is recorded, as [action, file]

Init ==
    /\ phase = [f \in Files |-> "new"]
    /\ asked = {} /\ promised = {} /\ trail = {}

Enter(f, p) == phase' = [phase EXCEPT ![f] = p]

\* All at once: a listed file has its content and its key.
Publish(f) ==
    /\ phase[f] = "new" /\ Enter(f, "served")
    /\ UNCHANGED <<asked, promised, trail>>

\* Nothing but a removal breaks a file, and a removal may fail.
Erase(f) ==
    /\ phase[f] # "new"
    /\ asked' = asked \cup {f}
    /\ \/ phase[f] = "served" /\ Enter(f, "broken")
       \/ UNCHANGED phase
    /\ UNCHANGED <<promised, trail>>

\* The content goes first.
Unlist(f) ==
    /\ phase[f] = "broken" /\ Enter(f, "gone")
    /\ UNCHANGED <<asked, promised, trail>>

Promise(f) ==
    /\ phase[f] # "new" /\ promised' = promised \cup {f}
    /\ UNCHANGED <<phase, asked, trail>>

Record(a, f) ==
    /\ phase[f] # "new"
    /\ a = "FILE_DELETED" => phase[f] = "gone"
    /\ trail' = trail \cup {[action |-> a, file |-> f]}
    /\ UNCHANGED <<phase, asked, promised>>

Next ==
    \E f \in Files :
        \/ Publish(f) \/ Erase(f) \/ Unlist(f) \/ Promise(f)
        \/ \E a \in {"FILE_UPLOADED", "FILE_DOWNLOADED", "FILE_DELETED"} : Record(a, f)

Spec == Init /\ [][Next]_<<phase, asked, promised, trail>>
=============================================================================
