------------------------------- MODULE BusApi -------------------------------
(***************************************************************************)
(* The handlers of ssp_dbus.c and ssp_rbus.c for whole requests: lists of  *)
(* parameters worked through one by one under the thread lock, what each   *)
(* does to the registry tree and to PSM's own parameters, what the caller  *)
(* is told, and how the handlers come up.                                  *)
(*                                                                         *)
(* A name is a sequence of tokens, "." among them.  Files are read and     *)
(* written in one step and merged with the factory records as in the HAL   *)
(* build; a save that fails leaves what was there or a part of what it     *)
(* wrote.  (CfmSsp has the files step by step, with the backup and stops   *)
(* in between; when the timer flushes is SysRegistry's.)                   *)
(***************************************************************************)
EXTENDS Naturals, Sequences, Functions, FiniteSets

CONSTANTS
    Clients,        \* the threads that the two buses call the handlers on
    Calls,          \* the requests they bring
    Names,          \* names of records
    Types, Values,  \* of records: Values are texts
    Convertible,    \* the records that RBus can carry (external)
    Defaults,       \* factory records, a function from Names
    RefModulus,     \* FileSyncRefCount is unsigned: 2^w
    Faults,         \* may AddRecord2, DelRecord, a save or a read fail?
    ForeignUnlock,  \* does RelThreadLock unlock another thread's lock?
    Absent, None, Free

VARIABLES
    stage,          \* how far cmd_dispatch('e') is
    tree, saved,    \* the records in memory and in the current file
    FileSyncRefCount,
    knobs,          \* g_bLogEnable, g_iTraceLevel, g_NewConfigPath
    resetAsked,     \* a factory reset task was spawned
    ThreadLock,
    pc, call,       \* where each handler is, and its request
    items, pos,     \* its list, and the next member
    out,            \* the list of results: the last one comes first
    lost,           \* history: members of the list whose change did not last
    answer          \* what its caller was told and has not taken yet: {} or one reply

store == <<tree, saved>>
own == <<FileSyncRefCount, knobs, resetAsked>>
work == <<call, items, pos, out, lost>>
vars == <<stage, store, own, ThreadLock, pc, work, answer>>

Records == [val : Values, type : Types]
Nothing == [n \in Names |-> Absent]
Over(f, g) == [n \in Names |-> IF f[n] # Absent THEN f[n] ELSE g[n]]

\* What a failed save of f leaves: the file that could not be opened, or the
\* truncated file with the records that were written before the fault.
Cuts(f) == {[n \in Names |-> IF n \in N THEN f[n] ELSE Absent] : N \in SUBSET Names}
LeftBy(f, before) == IF Faults THEN {before} \cup Cuts(f) ELSE {}

At(c, l) == pc[c] = l
Goto(c, l) == pc' = [pc EXCEPT ![c] = l]

-----------------------------------------------------------------------------
(* PSM's own parameters (NamespacePsm)                                     *)

FactoryReset == <<"FactoryReset">>
DisableWriting == <<"DisableWriting">>
ReloadConfig == <<"ReloadConfig">>
UpdateConfigs == <<"UpdateConfigs">>
LoggingEnable == <<"LoggingEnable">>
LogLevel == <<"LogLevel">>
NewConfigPath == <<"NewConfigPath">>
Health == <<"Health">>      \* stands for the parameters that are only read

Knobs == {LoggingEnable, LogLevel, NewConfigPath}
Commands == {FactoryReset, ReloadConfig, UpdateConfigs}
Handled == Knobs \cup Commands \cup {DisableWriting}

\* getParameterValues answers them all; setParameterValues falls through to
\* the tree with those that are only read.
Answered == Handled \cup {Health}

\* getCompareValue
IsTrue(v) == v \in {"1", "true", "TRUE"}

Truth(b) == IF b THEN "true" ELSE "false"

\* What is kept of a text: a truth value, a number (strtol), or the text.
Kept(n, v) ==
    CASE n = LoggingEnable -> Truth(IsTrue(v))
      [] n = LogLevel -> IF v \in {"1", "2"} THEN v ELSE "0"
      [] n = NewConfigPath -> v

\* getCommParam
CommParam(n) ==
    CASE n \in Commands -> [val |-> "false", type |-> "boolean"]
      [] n = DisableWriting -> [val |-> Truth(FileSyncRefCount > 0), type |-> "boolean"]
      [] n = LoggingEnable -> [val |-> knobs[n], type |-> "boolean"]
      [] n = LogLevel -> [val |-> knobs[n], type |-> "unsignedInt"]
      [] n = NewConfigPath -> [val |-> knobs[n], type |-> "string"]
      [] n = Health -> [val |-> "Green", type |-> "string"]

KnobsAtStart == [n \in Knobs |-> Kept(n, "")]

-----------------------------------------------------------------------------
(* What the buses bring                                                    *)

Buses == {"dbus", "rbus"}
SetItems == [name : Names, val : Values, type : Types]
            \cup [name : Handled, val : STRING, type : STRING]

Requests ==
    [via : Buses, op : {"set"}, vals : Seq(SetItems) \ {<<>>}]
    \cup [via : Buses, op : {"get"}, names : Seq(Names \cup Answered)]
    \cup [via : Buses, op : {"del"}, names : Seq(Names)]
    \cup [via : Buses, op : {"names"}, prefix : Seq(STRING), nextLevel : BOOLEAN]

ASSUME BusApiAssumption ==
    /\ Calls \subseteq Requests /\ None \notin Calls
    /\ Absent \notin Records /\ Defaults \in [Names -> Records \cup {Absent}]
    /\ Names \subseteq Seq(STRING) /\ IsFiniteSet(Names) /\ RefModulus \in Nat \ {0}
    /\ Free \notin Clients

-----------------------------------------------------------------------------
(* cmd_dispatch('e'): Engage, PsmDbusInit, PsmRbusInit                     *)

Init ==
    /\ stage = "off" /\ tree = Nothing /\ saved = Nothing
    /\ FileSyncRefCount = 0 /\ knobs = KnobsAtStart /\ resetAsked = FALSE
    /\ ThreadLock = Free
    /\ pc = [c \in Clients |-> "idle"] /\ call = [c \in Clients |-> None]
    /\ items = [c \in Clients |-> <<>>] /\ pos = [c \in Clients |-> 1]
    /\ out = [c \in Clients |-> <<>>] /\ lost = [c \in Clients |-> {}]
    /\ answer = [c \in Clients |-> {}]

\* ReadCurConfig on a file with these records: they are merged with the factory
\* records, if these can be read, saved, and put over what is in the tree only
\* if the save succeeds.
Load(kept) ==
    \E d \in {Defaults} \cup (IF Faults THEN {Nothing} ELSE {}) :
        LET merged == Over(kept, d)
        IN  \/ saved' = merged /\ tree' = Over(merged, tree)
            \/ saved' \in LeftBy(merged, kept) /\ UNCHANGED tree

Engage ==
    /\ stage = "off" /\ stage' = "engaged"
    /\ Load(saved)
    /\ UNCHANGED <<own, ThreadLock, pc, work, answer>>

\* CCSP_Message_Bus_Init and waitConditionReady, CcspBaseIf_SetCallback,
\* registerCapabilities (tried until it succeeds), PsmRbusInit.
Advances(from, to) ==
    /\ stage = from /\ stage' = to
    /\ UNCHANGED <<store, own, ThreadLock, pc, work, answer>>

PsmDbusInit ==
    Advances("engaged", "waiting") \/ Advances("waiting", "registering")
    \/ Advances("registering", "green")

PsmRbusInit == Advances("green", "all")

g_psmHealth == IF stage \in {"off", "engaged"} THEN "Red"
               ELSE IF stage \in {"waiting", "registering"} THEN "Yellow" ELSE "Green"

Delivered(q) == stage \in {"registering", "green", "all"} /\ (q.via = "rbus" => stage = "all")

-----------------------------------------------------------------------------
(* A request comes in                                                      *)

Reply(q, status, found) == [call |-> q, status |-> status, found |-> found]

\* setParameterValues_rbus counts its properties and hands on the first one.
\* getParameterNames finds its list in the tree, when it has the lock.
Given(q) ==
    CASE q.op = "set" -> IF q.via = "rbus" THEN <<Head(q.vals)>> ELSE q.vals
      [] q.op \in {"get", "del"} -> q.names
      [] q.op = "names" -> <<>>

Receive(c) ==
    \E q \in Calls :
        /\ At(c, "idle") /\ answer[c] = {} /\ Delivered(q)
        /\ IF g_psmHealth = "Green"
           THEN /\ Goto(c, "acquire") /\ call' = [call EXCEPT ![c] = q]
                /\ items' = [items EXCEPT ![c] = Given(q)]
                /\ UNCHANGED answer
           ELSE /\ answer' = [answer EXCEPT ![c] = {Reply(q, "failure", <<>>)}]
                /\ UNCHANGED <<pc, call, items>>
        /\ UNCHANGED <<stage, store, own, ThreadLock, pos, out, lost>>

\* The caller has its answer.
Taken(c) ==
    /\ answer[c] # {} /\ answer' = [answer EXCEPT ![c] = {}]
    /\ UNCHANGED <<stage, store, own, ThreadLock, pc, work>>

\* The records in the order in which EnumRecord delivers them.
Enumerations(S) == {s \in [1..Cardinality(S) -> S] : IsInjective(s)}

Listed(c) ==
    IF call[c].op = "names"
    THEN items' \in {[items EXCEPT ![c] = s] :
                        s \in Enumerations({n \in Names : tree[n] # Absent})}
    ELSE UNCHANGED items

\* A slip: the handler does not wait for the lock.
BargesIn(c) ==
    /\ At(c, "acquire") /\ Goto(c, "work")
    /\ ThreadLock' = c
    /\ Listed(c)
    /\ UNCHANGED <<stage, store, own, call, pos, out, lost, answer>>

AcqThreadLock(c) ==
    /\ At(c, "acquire") /\ Goto(c, "work")
    /\ ThreadLock = Free /\ ThreadLock' = c
    /\ Listed(c)
    /\ UNCHANGED <<stage, store, own, call, pos, out, lost, answer>>

RelThreadLock(c) == ThreadLock' = IF ThreadLock = c \/ ForeignUnlock THEN Free ELSE ThreadLock

\* Handler c is at a member of its list.
AtItem(c, op) == At(c, "work") /\ call[c].op = op /\ pos[c] <= Len(items[c])

Item(c) == items[c][pos[c]]

Past(c) == pos' = [pos EXCEPT ![c] = @ + 1]

-----------------------------------------------------------------------------
(* setParameterValues                                                      *)

AtCommand(c, n) == AtItem(c, "set") /\ Item(c).name = n /\ IsTrue(Item(c).val)

\* A command that is told anything but "true".
SetIdle(c) ==
    /\ AtItem(c, "set") /\ Item(c).name \in Commands /\ ~IsTrue(Item(c).val)
    /\ Past(c)
    /\ UNCHANGED <<stage, store, own, ThreadLock, pc, call, items, out, lost, answer>>

SetKnob(c) ==
    /\ AtItem(c, "set") /\ Item(c).name \in Knobs
    /\ knobs' = [knobs EXCEPT ![Item(c).name] = Kept(Item(c).name, Item(c).val)]
    /\ Past(c)
    /\ UNCHANGED <<stage, store, FileSyncRefCount, resetAsked, ThreadLock, pc, call, items,
                   out, lost, answer>>

\* A slip: a count that does not wrap.
SetSyncWide(c) ==
    /\ AtItem(c, "set") /\ Item(c).name = DisableWriting
    /\ FileSyncRefCount' = FileSyncRefCount + IF IsTrue(Item(c).val) THEN RefModulus - 1 ELSE 1
    /\ Past(c)
    /\ UNCHANGED <<stage, store, knobs, resetAsked, ThreadLock, pc, call, items, out, lost,
                   answer>>

\* SysRamEnableFileSync(TRUE) takes one from the count.
SetSync(c) ==
    /\ AtItem(c, "set") /\ Item(c).name = DisableWriting
    /\ FileSyncRefCount' =
            (FileSyncRefCount + IF IsTrue(Item(c).val) THEN RefModulus - 1 ELSE 1) % RefModulus
    /\ Past(c)
    /\ UNCHANGED <<stage, store, knobs, resetAsked, ThreadLock, pc, call, items, out, lost,
                   answer>>

\* doFactoryReset spawns the task and goes on.
SpawnReset(c) ==
    /\ AtCommand(c, FactoryReset)
    /\ resetAsked' = TRUE
    /\ Past(c)
    /\ UNCHANGED <<stage, store, FileSyncRefCount, knobs, ThreadLock, pc, call, items, out,
                   lost, answer>>

\* The result of UpdateConfigs is not looked at; it changes no record.
Update(c) ==
    /\ AtCommand(c, UpdateConfigs)
    /\ Past(c)
    /\ UNCHANGED <<stage, store, own, ThreadLock, pc, call, items, out, lost, answer>>

\* A slip: the files are loaded as they are.
ReloadUnsaved(c) ==
    /\ AtCommand(c, ReloadConfig)
    /\ Load(saved)
    /\ UNCHANGED lost
    /\ Past(c)
    /\ UNCHANGED <<stage, own, ThreadLock, pc, call, items, out, answer>>

\* SaveConfigToFlash and LoadRegFile, whatever becomes of the first.  What the
\* list set before and a failed save did not store may be taken back by the
\* load.
Reload(c) ==
    /\ AtCommand(c, ReloadConfig)
    /\ \/ Load(tree) /\ UNCHANGED lost
       \/ /\ \E kept \in LeftBy(tree, saved) : Load(kept)
          /\ lost' = [lost EXCEPT ![c] = @ \cup {i \in 1..pos[c] - 1 :
                          LET n == items[c][i].name IN n \in Names /\ tree'[n] # tree[n]}]
    /\ Past(c)
    /\ UNCHANGED <<stage, own, ThreadLock, pc, call, items, out, answer>>

AtRecord(c) == AtItem(c, "set") /\ Item(c).name \notin Handled

\* The value is there already, and GetRecord was given enough room (its size
\* was never set) to say so.  A new type is passed over with it.
SetSame(c) ==
    /\ AtRecord(c)
    /\ tree[Item(c).name] # Absent /\ tree[Item(c).name].val = Item(c).val
    /\ Past(c)
    /\ UNCHANGED <<stage, store, own, ThreadLock, pc, call, items, out, lost, answer>>

AddRecord2(c) ==
    /\ AtRecord(c)
    /\ tree' = [tree EXCEPT ![Item(c).name] = [val |-> Item(c).val, type |-> Item(c).type]]
    /\ Past(c)
    /\ UNCHANGED <<stage, saved, own, ThreadLock, pc, call, items, out, lost, answer>>

\* Only logged: the list goes on and the answer is success.
AddRecord2Fails(c) ==
    /\ AtRecord(c) /\ Faults
    /\ lost' = [lost EXCEPT ![c] = @ \cup {pos[c]}]
    /\ Past(c)
    /\ UNCHANGED <<stage, store, own, ThreadLock, pc, call, items, out, answer>>

SetStep(c) ==
    \/ SetIdle(c) \/ SetKnob(c) \/ SetSync(c) \/ SpawnReset(c) \/ Update(c) \/ Reload(c)
    \/ SetSame(c) \/ AddRecord2(c) \/ AddRecord2Fails(c)

-----------------------------------------------------------------------------
(* setParameterAttributes deletes.  delParameterValues_rbus calls it for   *)
(* each name, so that the lock is free in between.                         *)

AfterDel(c) == Goto(c, IF call[c].via = "rbus" THEN "between" ELSE "work")

DelRecord(c) ==
    /\ AtItem(c, "del")
    /\ tree' = [tree EXCEPT ![Item(c)] = Absent]
    /\ Past(c) /\ AfterDel(c)
    /\ UNCHANGED <<stage, saved, own, ThreadLock, call, items, out, lost, answer>>

DelRecordFails(c) ==
    /\ AtItem(c, "del") /\ Faults
    /\ lost' = [lost EXCEPT ![c] = @ \cup {pos[c]}]
    /\ Past(c) /\ AfterDel(c)
    /\ UNCHANGED <<stage, store, own, ThreadLock, call, items, out, answer>>

DelAgain(c) ==
    /\ At(c, "between") /\ pos[c] <= Len(items[c])
    /\ Goto(c, "acquire")
    /\ RelThreadLock(c)
    /\ UNCHANGED <<stage, store, own, work, answer>>

DelStep(c) == DelRecord(c) \/ DelRecordFails(c) \/ DelAgain(c)

-----------------------------------------------------------------------------
(* getParameterValues                                                      *)

\* AnscSListPushEntry
Pushed(c, x) == out' = [out EXCEPT ![c] = <<x>> \o @]

GetOwn(c) ==
    /\ AtItem(c, "get") /\ Item(c) \in Answered
    /\ Pushed(c, [name |-> Item(c), rec |-> CommParam(Item(c))])
    /\ Past(c)
    /\ UNCHANGED <<stage, store, own, ThreadLock, pc, call, items, lost, answer>>

\* A record without a value has the size that was asked with (none): there is
\* no BAD_SIZE, and it is passed over.
GetRecord(c) ==
    /\ AtItem(c, "get") /\ Item(c) \notin Answered /\ tree[Item(c)] # Absent
    /\ IF tree[Item(c)].val = "" THEN UNCHANGED out
       ELSE Pushed(c, [name |-> Item(c), rec |-> tree[Item(c)]])
    /\ Past(c)
    /\ UNCHANGED <<stage, store, own, ThreadLock, pc, call, items, lost, answer>>

\* The first of the two releases.  The result that was pushed last is freed
\* although it is still in the list.
GetFails(c) ==
    /\ AtItem(c, "get") /\ Item(c) \notin Answered /\ tree[Item(c)] = Absent
    /\ Goto(c, "failed")
    /\ RelThreadLock(c)
    /\ UNCHANGED <<stage, store, own, work, answer>>

GetStep(c) == GetOwn(c) \/ GetRecord(c) \/ GetFails(c)

-----------------------------------------------------------------------------
(* getParameterNames                                                       *)

\* The name up to and with the first dot behind the prefix.
UpToDot(n, prefix) ==
    LET dots == {i \in Len(prefix) + 1 .. Len(n) : n[i] = "."}
    IN  IF dots = {} THEN n ELSE SubSeq(n, 1, CHOOSE i \in dots : \A j \in dots : i <= j)

\* What a record of name n adds to the list: nothing, or one name.
Entry(q, n) ==
    IF Len(n) < Len(q.prefix) \/ SubSeq(n, 1, Len(q.prefix)) # q.prefix THEN {}
    ELSE IF ~q.nextLevel THEN {n}
    ELSE IF Len(n) > Len(q.prefix) THEN {UpToDot(n, q.prefix)} ELSE {}

ListName(c) ==
    /\ AtItem(c, "names")
    /\ LET m == Entry(call[c], Item(c)) \ Range(out[c])
       IN  IF m = {} THEN UNCHANGED out ELSE Pushed(c, CHOOSE x \in m : TRUE)
    /\ Past(c)
    /\ UNCHANGED <<stage, store, own, ThreadLock, pc, call, items, lost, answer>>

-----------------------------------------------------------------------------
(* The answer                                                              *)

\* A slip: the array is filled from its front.
AsPopped(s) == s

\* The list is popped into an array that is filled from its end.
InOrder(s) == [i \in DOMAIN s |-> s[Len(s) + 1 - i]]

\* What a handler that ran to its end answers; getParameterValues_rbus leaves
\* out what rbusValue_SetParamVal cannot convert.
Result(q, list) ==
    IF q.op = "get" /\ q.via = "rbus"
    THEN SelectSeq(InOrder(list), LAMBDA f : f.rec \in Convertible)
    ELSE InOrder(list)

Idle(c) ==
    /\ Goto(c, "idle")
    /\ call' = [call EXCEPT ![c] = None] /\ items' = [items EXCEPT ![c] = <<>>]
    /\ pos' = [pos EXCEPT ![c] = 1]
    /\ out' = [out EXCEPT ![c] = <<>>] /\ lost' = [lost EXCEPT ![c] = {}]

Return(c) ==
    /\ pc[c] \in {"work", "between"} /\ pos[c] > Len(items[c])
    /\ RelThreadLock(c)
    /\ answer' = [answer EXCEPT ![c] = {Reply(call[c], "success", Result(call[c], out[c]))}]
    /\ Idle(c)
    /\ UNCHANGED <<stage, store, own>>

FailureReply(q) == Reply(q, IF q.via = "dbus" THEN "failure" ELSE "success", <<>>)

\* The common exit frees the list, a freed entry among it if there is one
\* (undefined: here the process lives).  getParameterValues_rbus takes any
\* status that is not zero for success, which CCSP_FAILURE is, and goes
\* through the results that are not there.
ReturnFailure(c) ==
    /\ At(c, "failed")
    /\ call[c].via = "rbus" => out[c] = <<>>
    /\ RelThreadLock(c)
    /\ answer' = [answer EXCEPT ![c] = {FailureReply(call[c])}]
    /\ Idle(c)
    /\ UNCHANGED <<stage, store, own>>

-----------------------------------------------------------------------------
(* The timer, the reset task, and the end of the process                   *)

Flush ==
    /\ stage # "off" /\ ThreadLock = Free /\ FileSyncRefCount = 0
    /\ saved' \in {tree} \cup LeftBy(tree, saved)
    /\ UNCHANGED <<stage, tree, own, ThreadLock, pc, work, answer>>

\* doFactoryResetTask; the reboot that it asks for is a Die.
ResetTask ==
    /\ resetAsked /\ resetAsked' = FALSE
    /\ saved' = Nothing
    /\ UNCHANGED <<stage, tree, FileSyncRefCount, knobs, ThreadLock, pc, work, answer>>

Gone ==
    /\ stage' = "off" /\ tree' = Nothing
    /\ FileSyncRefCount' = 0 /\ knobs' = KnobsAtStart /\ resetAsked' = FALSE
    /\ ThreadLock' = Free
    /\ pc' = [c \in Clients |-> "idle"] /\ call' = [c \in Clients |-> None]
    /\ items' = [c \in Clients |-> <<>>] /\ pos' = [c \in Clients |-> 1]
    /\ out' = [c \in Clients |-> <<>>] /\ lost' = [c \in Clients |-> {}]
    /\ answer' = [c \in Clients |-> {}]

\* SIGTERM saves, also from the middle of a list.
Term ==
    /\ stage # "off" /\ Gone
    /\ saved' \in {tree} \cup LeftBy(tree, saved)

Die == stage # "off" /\ Gone /\ UNCHANGED saved

\* A failed get with results in its list: the freed entry, or the array that
\* the RBus handler does not have, ends the process.
Crash(c) == At(c, "failed") /\ out[c] # <<>> /\ Gone /\ UNCHANGED saved

Handler(c) ==
    \/ Receive(c) \/ Taken(c) \/ AcqThreadLock(c)
    \/ SetStep(c) \/ DelStep(c) \/ GetStep(c) \/ ListName(c)
    \/ Return(c) \/ ReturnFailure(c) \/ Crash(c)

Next ==
    \/ Engage \/ PsmDbusInit \/ PsmRbusInit
    \/ \E c \in Clients : Handler(c)
    \/ Flush \/ ResetTask \/ Term \/ Die

Spec == Init /\ [][Next]_vars

-----------------------------------------------------------------------------
(* Properties                                                              *)

Trees == [Names -> Records \cup {Absent}]
PCs == {"idle", "acquire", "work", "between", "failed"}

TypeOK ==
    /\ stage \in {"off", "engaged", "waiting", "registering", "green", "all"}
    /\ tree \in Trees /\ saved \in Trees
    /\ FileSyncRefCount \in 0..RefModulus - 1 /\ resetAsked \in BOOLEAN
    /\ DOMAIN knobs = Knobs
    /\ ThreadLock \in Clients \cup {Free}
    /\ pc \in [Clients -> PCs] /\ call \in [Clients -> Calls \cup {None}]
    /\ pos \in [Clients -> Nat \ {0}]
    /\ \A c \in Clients : pos[c] <= Len(items[c]) + 1 /\ lost[c] \subseteq 1..pos[c]

\* Two clients never work in the tree at once, and a handler that works holds
\* the lock.
OneWorks == \A c \in Clients : pc[c] \in {"work", "between"} <=> ThreadLock = c

\* Member i of c's list is the last one so far that names its record.
LastWord(c, i) ==
    \A j \in i + 1 .. pos[c] - 1 : items[c][j].name # items[c][i].name

Applied(c, i) ==
    IF call[c].op = "set"
    THEN LET x == items[c][i]
         IN  x.name \notin Handled /\ LastWord(c, i) =>
                 tree[x.name] # Absent /\ tree[x.name].val = x.val
    ELSE call[c].via = "dbus" => tree[items[c][i]] = Absent

\* As long as a set or a delete works, whatever it got through is in the
\* tree, and so it is when it answers: no other handler, no duplicate in the
\* list, no reload takes it back, but for members whose failure was logged
\* and those that a reload after a failed save brings back from the file.
AppliedSoFar ==
    \A c \in Clients :
        At(c, "work") /\ call[c].op \in {"set", "del"} =>
            \A i \in 1..pos[c] - 1 : i \notin lost[c] => Applied(c, i)

\* What the store tells: a get that fails has its answer already.
Promised ==
    [c \in Clients |-> IF At(c, "failed") THEN {FailureReply(call[c])} ELSE answer[c]]

Special == [n \in Answered |-> CommParam(n)]
Serving == g_psmHealth = "Green"

\* The handlers implement a store that changes one record at a time and
\* answers each get and each list of names from one moment, which for a get
\* that fails is the one when it meets the absent name.
Store == INSTANCE RecordStore WITH special <- Special, serving <- Serving, answer <- Promised

Atomic == Store!Spec

=============================================================================
