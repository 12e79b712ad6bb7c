--------------------------- MODULE DurableConfig ---------------------------
(***************************************************************************)
(* The promise of the configuration files, whatever the number of files    *)
(* and copies behind it: one register.  A save replaces the whole          *)
(* configuration or leaves it alone, a crash never changes it, and only a  *)
(* factory reset takes it back.                                            *)
(***************************************************************************)

CONSTANTS Config, Default, NoRequest

VARIABLES
    store,      \* the configuration the next start will load
    request,    \* the configuration a save in progress wants to store
    previous    \* what `store' held before the last completed save

vars == <<store, request, previous>>

Init ==
    /\ store = Default
    /\ request = NoRequest
    /\ previous = Default

\* A save is asked for, or the request of an abandoned one is replaced.
Request(c) ==
    /\ request = NoRequest
    /\ request' = c
    /\ UNCHANGED <<store, previous>>

\* The save takes effect, all at once.
Commit ==
    /\ request # NoRequest
    /\ store' = request
    /\ previous' = store
    /\ request' = NoRequest

\* The save fails or the process dies during it: nothing has changed.
Abandon ==
    /\ request # NoRequest
    /\ request' = NoRequest
    /\ UNCHANGED <<store, previous>>

\* A factory reset.  One that is cut short may leave the previous
\* configuration in force instead of the factory default.
Reset ==
    /\ request = NoRequest
    /\ store' \in {previous, Default}
    /\ UNCHANGED <<request, previous>>

Next == (\E c \in Config : Request(c)) \/ Commit \/ Abandon \/ Reset

Spec == Init /\ [][Next]_vars

=============================================================================
