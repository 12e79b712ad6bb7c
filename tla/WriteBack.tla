----------------------------- MODULE WriteBack -----------------------------
(***************************************************************************)
(* The promise of a running PSM about one setting, whatever the threads,   *)
(* locks, flags and files behind it: clients see a value that only they    *)
(* change, the store follows it with a lag but never goes back to an       *)
(* earlier one, and the next start serves what is stored.  The promise has *)
(* two holes: a PSM that is terminated during its start may lose the       *)
(* setting, and from a factory reset until the next start nothing is       *)
(* promised.                                                               *)
(***************************************************************************)

CONSTANTS Clients, Settings, Default, Nothing

VARIABLES
    value,      \* the setting that clients see
    stored,     \* the setting that the next start will load
    changing,   \* the client whose change is under way
    life,       \* the life of the process
    since,      \* what was the value since PSM was told to terminate
    unsettled   \* is a factory reset, or what it left, still to settle?

vars == <<value, stored, changing, life, since, unsettled>>

Lives == {"down", "starting", "serving", "closing", "aborted"}

Init ==
    /\ value = Nothing /\ stored = Default /\ changing = {}
    /\ life = "down" /\ since = {} /\ unsettled = FALSE

Becomes(from, to) == life = from /\ life' = to

-----------------------------------------------------------------------------
(* The start: a value is served only when it is the stored one             *)

Begin == Becomes("down", "starting") /\ UNCHANGED <<value, stored, changing, since>>

Load == life = "starting" /\ value' = stored /\ UNCHANGED <<stored, changing, life, since>>

Serve == Becomes("starting", "serving") /\ value = stored /\ UNCHANGED <<value, stored, changing, since>>

-----------------------------------------------------------------------------
(* PSM serves, also while it terminates                                    *)

Serves == life \in {"serving", "closing"}

\* One client at a time sets it, or deletes it.
Change(c, v) ==
    /\ Serves /\ changing = {} /\ changing' = {c}
    /\ value' = v
    /\ since' = IF since = {} THEN {} ELSE since \cup {v}
    /\ UNCHANGED <<stored, life>>

Changed == changing # {} /\ changing' = {} /\ UNCHANGED <<value, stored, life, since>>

\* The timer, or a reload.
Flush == Serves /\ stored' = value /\ UNCHANGED <<value, changing, life, since>>

-----------------------------------------------------------------------------
(* The end                                                                 *)

Terminate == Becomes("serving", "closing") /\ since' = {value} /\ UNCHANGED <<value, stored, changing>>

\* The last save takes no part in the locks of the clients.
LastFlush == life = "closing" /\ stored' \in since /\ UNCHANGED <<value, changing, life, since>>

Abort == Becomes("starting", "aborted") /\ UNCHANGED <<value, stored, changing, since>>

AbortFlush == life = "aborted" /\ stored' \in {value, Default} /\ UNCHANGED <<value, changing, life, since>>

\* Told to or not, and at any moment.
Stop ==
    /\ life # "down" /\ life' = "down"
    /\ value' = Nothing /\ changing' = {} /\ since' = {}
    /\ UNCHANGED stored

-----------------------------------------------------------------------------
(* A factory reset                                                         *)

BeginReset == Serves /\ unsettled' = TRUE /\ UNCHANGED <<value, stored, changing, life, since>>

\* Saves that were under way or follow may undo it in part.  It is settled no
\* later than a new process loads.
Unsettled ==
    /\ unsettled
    /\ value' \in Settings /\ stored' \in Settings /\ changing' \subseteq Clients
    /\ life' \in Lives /\ since' \subseteq Settings
    /\ unsettled' \in BOOLEAN
    /\ unsettled' \/ life' \notin {"serving", "closing"}

-----------------------------------------------------------------------------

Settled ==
    \/ Begin \/ Load \/ Serve
    \/ (\E c \in Clients, v \in Settings : Change(c, v)) \/ Changed \/ Flush
    \/ Terminate \/ LastFlush \/ Abort \/ AbortFlush \/ Stop

Next ==
    \/ ~unsettled /\ Settled /\ UNCHANGED unsettled
    \/ ~unsettled /\ BeginReset
    \/ Unsettled

Spec == Init /\ [][Next]_vars

=============================================================================
