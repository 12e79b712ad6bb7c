---------------------------- MODULE RecordStore ----------------------------
(***************************************************************************)
(* The promise of the bus interface, whatever the locks and loops behind   *)
(* it: a store of named records that changes one record at a time, whose   *)
(* reads see all their records at one moment, and of which the files keep  *)
(* what it was at some moment, or a part of that if a save failed.         *)
(***************************************************************************)
EXTENDS Naturals, Sequences, Functions

CONSTANTS
    Clients, Calls,
    Names, Records,     \* what the tree can hold: Records are [val, type]
    Answered,           \* PSM's own parameters: answered without the tree
    Convertible,        \* the records that RBus can carry
    Defaults,           \* factory records, a function from Names
    Faults,             \* may a save or the reading of the defaults fail?
    Absent

VARIABLES
    tree,       \* the records now
    saved,      \* the records in the files
    special,    \* the value of each of PSM's own parameters
    serving,    \* is PSM ready?
    answer      \* what each client was told and has not taken yet: {} or one reply

vars == <<tree, saved, special, serving, answer>>

Nothing == [n \in Names |-> Absent]

\* The records of f over those of g.
Over(f, g) == [n \in Names |-> IF f[n] # Absent THEN f[n] ELSE g[n]]

Init ==
    /\ tree = Nothing /\ saved = Nothing /\ serving = FALSE
    /\ DOMAIN special = Answered
    /\ answer = [c \in Clients |-> {}]

-----------------------------------------------------------------------------
(* Answers                                                                 *)

Reply(q, status, found) == [call |-> q, status |-> status, found |-> found]

\* PSM's own parameters are never missing, and told even if they are empty.
Lookup(n) == IF n \in Answered THEN special[n] ELSE tree[n]
Missing(n) == n \notin Answered /\ tree[n] = Absent
Told(n) == n \in Answered \/ tree[n].val # ""

\* The places of the names that are told, in their order.
Places(ns) ==
    {at \in UNION {[1..k -> DOMAIN ns] : k \in 0..Len(ns)} :
        /\ Range(at) = {i \in DOMAIN ns : Told(ns[i])}
        /\ \A i, j \in DOMAIN at : i < j => at[i] < at[j]}

Entry(n) == [name |-> n, rec |-> Lookup(n)]

Carried(q, list) ==
    IF q.via = "dbus" THEN list ELSE SelectSeq(list, LAMBDA f : f.rec \in Convertible)

\* One missing name spoils a D-Bus answer, and leaves an RBus answer empty.
GetAnswer(q, a) ==
    IF \E i \in DOMAIN q.names : Missing(q.names[i])
    THEN a = Reply(q, IF q.via = "dbus" THEN "failure" ELSE "success", <<>>)
    ELSE \E at \in Places(q.names) :
            a = Reply(q, "success", Carried(q, [i \in DOMAIN at |-> Entry(q.names[at[i]])]))

Begins(n, prefix) == Len(prefix) <= Len(n) /\ SubSeq(n, 1, Len(prefix)) = prefix

\* m is the next level of n below the prefix: n itself, or n up to and with
\* the first dot behind the prefix.
IsChild(m, n, prefix) ==
    /\ Begins(n, m) /\ Begins(m, prefix) /\ Len(m) > Len(prefix)
    /\ \A i \in Len(prefix) + 1 .. Len(m) - 1 : m[i] # "."
    /\ m = n \/ m[Len(m)] = "."

NamesBelow(q) ==
    LET below == {n \in Names : tree[n] # Absent /\ Begins(n, q.prefix)}
    IN  IF q.nextLevel
        THEN UNION {{m \in {SubSeq(n, 1, k) : k \in 1..Len(n)} : IsChild(m, n, q.prefix)} : n \in below}
        ELSE below

\* Each name once, in any order.
NamesAnswer(q, a) ==
    /\ a = Reply(q, "success", a.found)
    /\ Range(a.found) = NamesBelow(q) /\ IsInjective(a.found)

\* Sets and deletes report no more than that they were carried out.
Right(q, a) ==
    CASE q.op = "get" -> GetAnswer(q, a)
      [] q.op = "names" -> NamesAnswer(q, a)
      [] q.op \in {"set", "del"} -> a = Reply(q, "success", <<>>)

-----------------------------------------------------------------------------
Answer(c, a) ==
    /\ answer[c] = {} /\ answer' = [answer EXCEPT ![c] = {a}]
    /\ IF serving THEN Right(a.call, a) ELSE a = Reply(a.call, "failure", <<>>)
    /\ a.call \in Calls
    /\ UNCHANGED <<tree, saved, special, serving>>

Take(c) ==
    /\ answer[c] # {} /\ answer' = [answer EXCEPT ![c] = {}]
    /\ UNCHANGED <<tree, saved, special, serving>>

Change(n) ==
    /\ serving
    /\ \E r \in Records \cup {Absent} : tree' = [tree EXCEPT ![n] = r]
    /\ UNCHANGED <<saved, special, serving, answer>>

Switch(n) ==
    /\ serving
    /\ special' = [special EXCEPT ![n] = special'[n]]
    /\ UNCHANGED <<tree, saved, serving, answer>>

\* A part of the records f.
Cuts(f) == {[n \in Names |-> IF n \in N THEN f[n] ELSE Absent] : N \in SUBSET Names}

\* What the files may keep of f when they had the records before.
LeftBy(f, before) == IF Faults THEN {before} \cup Cuts(f) ELSE {}

Keep ==
    /\ saved' \in {tree} \cup LeftBy(tree, saved)
    /\ UNCHANGED <<tree, special, serving, answer>>

\* Kept records come back over those of the tree, with the defaults below
\* them, and are kept so; or nothing comes back.
Load(kept) ==
    \E d \in {Defaults} \cup (IF Faults THEN {Nothing} ELSE {}) :
        LET merged == Over(kept, d)
        IN  \/ saved' = merged /\ tree' = Over(merged, tree)
            \/ saved' \in LeftBy(merged, kept) /\ UNCHANGED tree

Start ==
    /\ ~serving /\ UNCHANGED <<special, serving, answer>>
    /\ Load(saved)

\* On demand, the tree is saved first: what does not come back from the files
\* as it was is what that save lost.
Reload ==
    /\ UNCHANGED <<special, serving, answer>>
    /\ \E kept \in {tree} \cup LeftBy(tree, saved) : Load(kept)

Reset == saved' = Nothing /\ UNCHANGED <<tree, special, serving, answer>>

Serve == serving' = TRUE /\ UNCHANGED <<tree, saved, special, answer>>

\* The process ends: only the files are left, with or without a last save.
End ==
    /\ tree' = Nothing /\ DOMAIN special' = Answered /\ serving' = FALSE
    /\ answer' = [c \in Clients |-> {}]
    /\ saved' \in {saved, tree} \cup LeftBy(tree, saved)

Next ==
    \/ \E c \in Clients : Take(c) \/ \E a \in answer'[c] : Answer(c, a)
    \/ \E n \in Names : Change(n)
    \/ \E n \in Answered : Switch(n)
    \/ Keep \/ Start \/ Reload \/ Reset \/ Serve \/ End

Spec == Init /\ [][Next]_vars

=============================================================================
