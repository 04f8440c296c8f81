--------------------------- MODULE HostGenerations ---------------------------
(***************************************************************************)
(* What the pool promises for one workspace: Hosts serve it one after the  *)
(* other.  A Host starts only when no other is starting, serving or being  *)
(* torn down, it never comes back once it was retired, and the next one    *)
(* starts only after its teardown ended.                                   *)
(***************************************************************************)
CONSTANTS Hosts, NoHost

VARIABLES gen,   \* the Host that occupies the workspace, or NoHost
          mode,  \* what it does: "none", "serving" or "retiring"
          past   \* the Hosts whose teardown ended

vars == <<gen, mode, past>>

Init == gen = NoHost /\ mode = "none" /\ past = {}

Start(h) ==
    /\ mode = "none" /\ h \notin past
    /\ gen' = h /\ mode' = "serving" /\ UNCHANGED past

Retire ==
    /\ mode = "serving"
    /\ mode' = "retiring" /\ UNCHANGED <<gen, past>>

End ==
    /\ mode = "retiring"
    /\ gen' = NoHost /\ mode' = "none" /\ past' = past \cup {gen}

Next == (\E h \in Hosts : Start(h)) \/ Retire \/ End

Spec == Init /\ [][Next]_vars
=============================================================================
