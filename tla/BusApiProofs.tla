---------------------------- MODULE BusApiProofs ----------------------------
(***************************************************************************)
(* Theorems about BusApi, for any clients, requests of any length and any  *)
(* records, with and without failures below.  OneWorks and what rests on   *)
(* it need a thread lock that only its holder releases                     *)
(* (ForeignUnlock = FALSE).                                                *)
(***************************************************************************)
EXTENDS BusApi, FiniteSetTheorems, SequenceTheorems, TLAPS

-----------------------------------------------------------------------------
(* The lists that the handlers work through                                *)

Members == SetItems \cup Names \cup Answered

LEMMA GivenType ==
    ASSUME NEW q \in Calls
    PROVE  /\ q.op \in {"set", "get", "del", "names"} /\ q.via \in Buses
           /\ q.op = "set" => Given(q) \in Seq(SetItems)
           /\ q.op = "get" => Given(q) \in Seq(Names \cup Answered)
           /\ q.op = "del" => Given(q) \in Seq(Names)
           /\ q.op = "names" => Given(q) = <<>>
           /\ Given(q) \in Seq(Members)
<1>0. q \in Requests /\ q # None
  BY BusApiAssumption
<1>1. CASE q \in [via : Buses, op : {"set"}, vals : Seq(SetItems) \ {<<>>}]
  <2>1. q.op = "set" /\ q.via \in Buses /\ q.vals \in Seq(SetItems) /\ q.vals # <<>>
    BY <1>1
  <2>2. Head(q.vals) \in SetItems
    BY <2>1
  <2>3. Given(q) \in Seq(SetItems)
    BY <2>1, <2>2 DEF Given
  <2>4. Given(q) \in Seq(Members)
    BY <2>3 DEF Members
  <2> QED BY <2>1, <2>3, <2>4
<1>2. CASE q \in [via : Buses, op : {"get"}, names : Seq(Names \cup Answered)]
  <2>1. q.op = "get" /\ q.via \in Buses /\ Given(q) \in Seq(Names \cup Answered)
    BY <1>2 DEF Given
  <2>2. Given(q) \in Seq(Members)
    BY <2>1 DEF Members
  <2> QED BY <2>1, <2>2
<1>3. CASE q \in [via : Buses, op : {"del"}, names : Seq(Names)]
  <2>1. q.op = "del" /\ q.via \in Buses /\ Given(q) \in Seq(Names)
    BY <1>3 DEF Given
  <2>2. Given(q) \in Seq(Members)
    BY <2>1 DEF Members
  <2> QED BY <2>1, <2>2
<1>4. CASE q \in [via : Buses, op : {"names"}, prefix : Seq(STRING), nextLevel : BOOLEAN]
  <2>1. q.op = "names" /\ q.via \in Buses /\ Given(q) = <<>>
    BY <1>4 DEF Given
  <2> QED BY <2>1
<1> QED BY <1>0, <1>1, <1>2, <1>3, <1>4 DEF Requests

\* EnumRecord delivers finitely many names.
LEMMA EnumerationType ==
    ASSUME NEW S \in SUBSET Names, NEW s \in Enumerations(S)
    PROVE  s \in Seq(Names)
<1>1. IsFiniteSet(S) /\ Cardinality(S) \in Nat
  BY BusApiAssumption, FS_Subset, FS_CardinalityType
<1>2. s \in [1..Cardinality(S) -> S]
  BY DEF Enumerations
<1> QED BY <1>1, <1>2

-----------------------------------------------------------------------------
(* Types                                                                   *)

\* A handler at label l with request q, list s, next member n and losses x.
Fine(l, q, s, n, x) ==
    /\ l \in PCs /\ q \in Calls \cup {None} /\ s \in Seq(Members) /\ n \in Nat \ {0}
    /\ n <= Len(s) + 1 /\ x \subseteq 1..n
    /\ l = "idle" => q = None /\ s = <<>> /\ n = 1 /\ x = {}
    /\ l # "idle" => /\ q \in Calls
                     /\ q.op # "names" => s = Given(q)
                     /\ q.op = "names" => s \in Seq(Names)
    /\ l = "acquire" => (n = 1 /\ x = {}) \/ (q.op = "del" /\ q.via = "rbus")
    /\ l = "between" => q.op = "del" /\ q.via = "rbus"
    /\ l = "failed" => q.op = "get"

HandlersOK ==
    /\ pc \in [Clients -> PCs] /\ call \in [Clients -> Calls \cup {None}]
    /\ items \in [Clients -> Seq(Members)] /\ pos \in [Clients -> Nat \ {0}]
    /\ lost \in [Clients -> SUBSET Nat]
    /\ \A c \in Clients : Fine(pc[c], call[c], items[c], pos[c], lost[c])

RestOK ==
    /\ stage \in {"off", "engaged", "waiting", "registering", "green", "all"}
    /\ tree \in Trees /\ saved \in Trees
    /\ FileSyncRefCount \in 0..RefModulus - 1 /\ resetAsked \in BOOLEAN
    /\ DOMAIN knobs = Knobs
    /\ ThreadLock \in Clients \cup {Free}

LEMMA TypeParts == HandlersOK /\ RestOK => TypeOK
BY DEF HandlersOK, Fine, RestOK, TypeOK

\* One handler moves.
Moves(c, l, q, s, n, x) ==
    /\ pc' = [pc EXCEPT ![c] = l] /\ call' = [call EXCEPT ![c] = q]
    /\ items' = [items EXCEPT ![c] = s] /\ pos' = [pos EXCEPT ![c] = n]
    /\ lost' = [lost EXCEPT ![c] = x]

LEMMA HandlerMoves ==
    ASSUME HandlersOK, NEW c \in Clients, NEW l, NEW q, NEW s, NEW n, NEW x,
           Moves(c, l, q, s, n, x), Fine(l, q, s, n, x)
    PROVE  HandlersOK'
<1> USE DEF Moves
<1>1. l \in PCs /\ q \in Calls \cup {None} /\ s \in Seq(Members) /\ n \in Nat \ {0} /\ x \in SUBSET Nat
  BY DEF Fine
<1>2. ASSUME NEW d \in Clients
      PROVE  Fine(pc'[d], call'[d], items'[d], pos'[d], lost'[d])
  <2>1. CASE d = c
    BY <2>1 DEF HandlersOK
  <2>2. CASE d # c
    BY <2>2 DEF HandlersOK
  <2> QED BY <2>1, <2>2
<1>3. /\ pc' \in [Clients -> PCs] /\ call' \in [Clients -> Calls \cup {None}]
      /\ items' \in [Clients -> Seq(Members)] /\ pos' \in [Clients -> Nat \ {0}]
      /\ lost' \in [Clients -> SUBSET Nat]
  BY <1>1 DEF HandlersOK
<1> QED BY <1>2, <1>3 DEF HandlersOK

\* A handler gets past a member of its list, which may cost it some.
Loses(c) == \E X \in SUBSET (1..pos[c]) : lost' = [lost EXCEPT ![c] = @ \cup X]

StaysOr(c, op) == pc' = pc \/ (AfterDel(c) /\ op = "del")

LEMMA PastType ==
    ASSUME HandlersOK, NEW c \in Clients, NEW op, AtItem(c, op), Past(c), StaysOr(c, op),
           call' = call, items' = items, lost' = lost \/ Loses(c)
    PROVE  HandlersOK'
<1>1. /\ Fine(pc[c], call[c], items[c], pos[c], lost[c])
      /\ pc[c] = "work" /\ call[c].op = op /\ pos[c] <= Len(items[c])
  BY DEF HandlersOK, AtItem, At
<1>2. PICK x : lost' = [lost EXCEPT ![c] = x] /\ x \subseteq 1..pos[c]
  <2>1. CASE lost' = lost
    BY <1>1, <2>1 DEF HandlersOK, Fine
  <2>2. CASE Loses(c)
    <3>1. PICK X \in SUBSET (1..pos[c]) : lost' = [lost EXCEPT ![c] = @ \cup X]
      BY <2>2 DEF Loses
    <3>2. lost' = [lost EXCEPT ![c] = lost[c] \cup X] /\ lost[c] \cup X \subseteq 1..pos[c]
      BY <1>1, <3>1 DEF Fine
    <3> QED BY <3>2
  <2> QED BY <2>1, <2>2
<1>3. PICK l : /\ pc' = [pc EXCEPT ![c] = l]
               /\ l = "work" \/ (l = "between" /\ op = "del" /\ call[c].via = "rbus")
  BY <1>1 DEF StaysOr, AfterDel, Goto, HandlersOK
<1>4. Moves(c, l, call[c], items[c], pos[c] + 1, x)
  BY <1>2, <1>3 DEF HandlersOK, Past, Moves
<1>5. Fine(l, call[c], items[c], pos[c] + 1, x)
  BY <1>1, <1>2, <1>3 DEF Fine, PCs
<1> QED BY <1>4, <1>5, HandlerMoves

\* A handler goes on to l with the list and the losses it has.
LEMMA GotoType ==
    ASSUME HandlersOK, NEW c \in Clients, NEW l, Goto(c, l), UNCHANGED work,
           Fine(l, call[c], items[c], pos[c], lost[c])
    PROVE  HandlersOK'
<1>1. Moves(c, l, call[c], items[c], pos[c], lost[c])
  BY DEF HandlersOK, work, Moves, Goto
<1> QED BY <1>1, HandlerMoves

\* Next, one disjunct per action.
LEMMA NextActions ==
    ASSUME Next
    PROVE  \/ Engage \/ PsmDbusInit \/ PsmRbusInit \/ Flush \/ ResetTask \/ Term \/ Die
           \/ \E c \in Clients :
                \/ Receive(c) \/ Taken(c) \/ AcqThreadLock(c)
                \/ SetIdle(c) \/ SetKnob(c) \/ SetSync(c) \/ SpawnReset(c) \/ Update(c) \/ Reload(c)
                \/ SetSame(c) \/ AddRecord2(c) \/ AddRecord2Fails(c)
                \/ DelRecord(c) \/ DelRecordFails(c) \/ DelAgain(c)
                \/ GetOwn(c) \/ GetRecord(c) \/ GetFails(c) \/ ListName(c)
                \/ Return(c) \/ ReturnFailure(c) \/ Crash(c)
BY DEF Next, Handler, SetStep, DelStep, GetStep

LEMMA HandlersInit == Init => HandlersOK
<1> SUFFICES ASSUME Init PROVE HandlersOK
  OBVIOUS
<1>1. ASSUME NEW c \in Clients PROVE Fine(pc[c], call[c], items[c], pos[c], lost[c])
  BY DEF Init, Fine, PCs
<1>2. /\ pc \in [Clients -> PCs] /\ call \in [Clients -> Calls \cup {None}]
      /\ items \in [Clients -> Seq(Members)] /\ pos \in [Clients -> Nat \ {0}]
      /\ lost \in [Clients -> SUBSET Nat]
  BY DEF Init, PCs
<1> QED BY <1>1, <1>2 DEF HandlersOK

\* What is left of a process.
LEMMA GoneHandlers == ASSUME Gone PROVE HandlersOK'
<1>1. ASSUME NEW c \in Clients PROVE Fine(pc'[c], call'[c], items'[c], pos'[c], lost'[c])
  BY DEF Gone, Fine, PCs
<1>2. /\ pc' \in [Clients -> PCs] /\ call' \in [Clients -> Calls \cup {None}]
      /\ items' \in [Clients -> Seq(Members)] /\ pos' \in [Clients -> Nat \ {0}]
      /\ lost' \in [Clients -> SUBSET Nat]
  BY DEF Gone, PCs
<1> QED BY <1>1, <1>2 DEF HandlersOK

LEMMA HandlersStep == ASSUME HandlersOK, RestOK, Next PROVE HandlersOK'
<1>1. CASE \/ Engage \/ PsmDbusInit \/ PsmRbusInit \/ Flush \/ ResetTask
           \/ \E c \in Clients : Taken(c)
  <2>1. UNCHANGED <<pc, call, items, pos, lost>>
    BY <1>1 DEF Engage, PsmDbusInit, PsmRbusInit, Advances, Flush, ResetTask, Taken, work
  <2> QED BY <2>1 DEF HandlersOK
<1>2. CASE Term \/ Die \/ \E c \in Clients : Crash(c)
  BY <1>2, GoneHandlers DEF Term, Die, Crash
<1>3. ASSUME NEW c \in Clients, Receive(c) PROVE HandlersOK'
  <2>1. PICK q \in Calls :
            /\ At(c, "idle")
            /\ \/ /\ Goto(c, "acquire") /\ call' = [call EXCEPT ![c] = q]
                  /\ items' = [items EXCEPT ![c] = Given(q)]
               \/ UNCHANGED <<pc, call, items>>
            /\ UNCHANGED <<pos, lost>>
    BY <1>3 DEF Receive
  <2>2. CASE UNCHANGED <<pc, call, items>>
    BY <2>1, <2>2 DEF HandlersOK
  <2>3. CASE Goto(c, "acquire") /\ call' = [call EXCEPT ![c] = q] /\ items' = [items EXCEPT ![c] = Given(q)]
    <3>1. pos[c] = 1 /\ lost[c] = {}
      BY <2>1 DEF HandlersOK, Fine, At
    <3>2. Moves(c, "acquire", q, Given(q), 1, {})
      BY <2>1, <2>3, <3>1 DEF HandlersOK, Moves, Goto
    <3>3. /\ Given(q) \in Seq(Members) /\ Len(Given(q)) \in Nat
          /\ q.op = "names" => Given(q) \in Seq(Names)
      BY GivenType, LenProperties, EmptySeq
    <3>4. Fine("acquire", q, Given(q), 1, {})
      BY <3>3 DEF Fine, PCs
    <3> QED BY <3>2, <3>4, HandlerMoves
  <2> QED BY <2>1, <2>2, <2>3
<1>4. ASSUME NEW c \in Clients, AcqThreadLock(c) PROVE HandlersOK'
  <2>1. /\ Fine("acquire", call[c], items[c], pos[c], lost[c]) /\ pc' = [pc EXCEPT ![c] = "work"]
        /\ UNCHANGED <<call, pos, lost>>
    BY <1>4 DEF AcqThreadLock, HandlersOK, At, Goto
  <2>2. PICK s : /\ items' = [items EXCEPT ![c] = s] /\ s \in Seq(Members)
                 /\ call[c].op = "names" => s \in Seq(Names)
                 /\ call[c].op # "names" => s = items[c]
    <3>1. CASE call[c].op = "names"
      <4>1. PICK s \in Enumerations({n \in Names : tree[n] # Absent}) : items' = [items EXCEPT ![c] = s]
        BY <1>4, <3>1 DEF AcqThreadLock, Listed
      <4>2. s \in Seq(Names)
        BY EnumerationType
      <4>3. s \in Seq(Members)
        BY <4>2 DEF Members
      <4> QED BY <3>1, <4>1, <4>2, <4>3
    <3>2. CASE call[c].op # "names"
      BY <1>4, <2>1, <3>2 DEF AcqThreadLock, Listed, HandlersOK, Fine
    <3> QED BY <3>1, <3>2
  <2>3. Moves(c, "work", call[c], s, pos[c], lost[c])
    BY <2>1, <2>2 DEF HandlersOK, Moves
  <2>4. Fine("work", call[c], s, pos[c], lost[c])
    BY <2>1, <2>2 DEF Fine, PCs
  <2> QED BY <2>3, <2>4, HandlerMoves
<1>5. ASSUME NEW c \in Clients,
             \/ SetIdle(c) \/ SetKnob(c) \/ SetSync(c) \/ SpawnReset(c) \/ Update(c)
             \/ SetSame(c) \/ AddRecord2(c) \/ GetOwn(c) \/ GetRecord(c) \/ ListName(c)
      PROVE  HandlersOK'
  <2>1. /\ \E op : AtItem(c, op) /\ StaysOr(c, op)
        /\ Past(c) /\ call' = call /\ items' = items /\ lost' = lost
    BY <1>5 DEF SetIdle, SetKnob, SetSync, SpawnReset, Update, SetSame, AddRecord2, GetOwn, GetRecord,
       ListName, AtCommand, AtRecord, StaysOr
  <2> QED BY <2>1, PastType
<1>6. ASSUME NEW c \in Clients, Reload(c) PROVE HandlersOK'
  <2>1. AtItem(c, "set") /\ Past(c) /\ StaysOr(c, "set") /\ call' = call /\ items' = items
    BY <1>6 DEF Reload, AtCommand, StaysOr
  <2>2. lost' = lost \/ Loses(c)
    <3> DEFINE X == {i \in 1..pos[c] - 1 :
                        LET n == items[c][i].name IN n \in Names /\ tree'[n] # tree[n]}
    <3>1. X \in SUBSET (1..pos[c])
      BY DEF HandlersOK
    <3> QED BY <1>6, <3>1 DEF Reload, Loses
  <2> QED BY <2>1, <2>2, PastType
<1>7. ASSUME NEW c \in Clients, AddRecord2Fails(c) \/ DelRecord(c) \/ DelRecordFails(c)
      PROVE  HandlersOK'
  <2>1. {pos[c]} \in SUBSET (1..pos[c])
    BY DEF HandlersOK
  <2>2. lost' = lost \/ Loses(c)
    BY <1>7, <2>1 DEF AddRecord2Fails, DelRecord, DelRecordFails, Loses
  <2>3. \E op : AtItem(c, op) /\ StaysOr(c, op)
    BY <1>7 DEF AddRecord2Fails, DelRecord, DelRecordFails, AtRecord, StaysOr
  <2>4. Past(c) /\ call' = call /\ items' = items
    BY <1>7 DEF AddRecord2Fails, DelRecord, DelRecordFails
  <2> QED BY <2>2, <2>3, <2>4, PastType
<1>8. ASSUME NEW c \in Clients, DelAgain(c) PROVE HandlersOK'
  <2>1. Fine("acquire", call[c], items[c], pos[c], lost[c])
    BY <1>8 DEF DelAgain, HandlersOK, Fine, At, PCs
  <2> QED BY <1>8, <2>1, GotoType DEF DelAgain
<1>9. ASSUME NEW c \in Clients, GetFails(c) PROVE HandlersOK'
  <2>1. Fine("failed", call[c], items[c], pos[c], lost[c])
    BY <1>9 DEF GetFails, AtItem, HandlersOK, Fine, At, PCs
  <2> QED BY <1>9, <2>1, GotoType DEF GetFails
<1>10. ASSUME NEW c \in Clients, Return(c) \/ ReturnFailure(c) PROVE HandlersOK'
  <2>1. Moves(c, "idle", None, <<>>, 1, {})
    BY <1>10 DEF Return, ReturnFailure, Idle, Goto, Moves
  <2>2. Fine("idle", None, <<>>, 1, {})
    BY EmptySeq DEF Fine, PCs
  <2> QED BY <2>1, <2>2, HandlerMoves
<1> QED BY <1>1, <1>2, <1>3, <1>4, <1>5, <1>6, <1>7, <1>8, <1>9, <1>10, NextActions

\* The tree and the files hold records.
LEMMA OverType ==
    ASSUME NEW f \in Trees, NEW g \in Trees
    PROVE  Over(f, g) \in Trees
BY DEF Over, Trees

LEMMA CutsType ==
    ASSUME NEW f \in Trees
    PROVE  Cuts(f) \subseteq Trees
<1>1. ASSUME NEW N \in SUBSET Names
      PROVE  [n \in Names |-> IF n \in N THEN f[n] ELSE Absent] \in Trees
  BY DEF Trees
<1> QED BY <1>1 DEF Cuts

LEMMA LeftByType ==
    ASSUME NEW f \in Trees, NEW before \in Trees
    PROVE  LeftBy(f, before) \subseteq Trees
BY CutsType DEF LeftBy

LEMMA NothingType == Nothing \in Trees
BY DEF Nothing, Trees

LEMMA LoadType ==
    ASSUME tree \in Trees, NEW kept \in Trees, Load(kept)
    PROVE  tree' \in Trees /\ saved' \in Trees
<1>1. Defaults \in Trees
  BY BusApiAssumption DEF Trees
<1>2. PICK d \in Trees :
          \/ saved' = Over(kept, d) /\ tree' = Over(Over(kept, d), tree)
          \/ saved' \in LeftBy(Over(kept, d), kept) /\ tree' = tree
  BY <1>1, NothingType DEF Load
<1>3. Over(kept, d) \in Trees
  BY OverType
<1>4. Over(Over(kept, d), tree) \in Trees /\ LeftBy(Over(kept, d), kept) \subseteq Trees
  BY <1>3, OverType, LeftByType
<1> QED BY <1>2, <1>3, <1>4

\* The record that a member of a set stands for.
LEMMA ItemRecord ==
    ASSUME HandlersOK, NEW c \in Clients, AtRecord(c)
    PROVE  /\ Item(c).name \in Names /\ Item(c).name \notin Handled
           /\ [val |-> Item(c).val, type |-> Item(c).type] \in Records
<1>1. /\ call[c] \in Calls /\ call[c].op = "set" /\ items[c] = Given(call[c])
      /\ pos[c] \in 1..Len(items[c])
  BY DEF AtRecord, AtItem, At, HandlersOK, Fine
<1>2. items[c] \in Seq(SetItems)
  BY <1>1, GivenType
<1>3. Item(c) \in SetItems /\ Item(c).name \notin Handled
  BY <1>1, <1>2 DEF Item, AtRecord
<1>4. Item(c) \in [name : Names, val : Values, type : Types]
  BY <1>3 DEF SetItems
<1> QED BY <1>3, <1>4 DEF Records

LEMMA TreeStep ==
    ASSUME HandlersOK, RestOK, Next
    PROVE  tree' \in Trees /\ saved' \in Trees
<1> USE DEF RestOK
<1>1. CASE UNCHANGED store
  BY <1>1 DEF store
<1>2. ASSUME NEW c \in Clients,
             \/ Receive(c) \/ Taken(c) \/ AcqThreadLock(c)
             \/ SetIdle(c) \/ SetKnob(c) \/ SetSync(c) \/ SpawnReset(c) \/ Update(c)
             \/ SetSame(c) \/ AddRecord2Fails(c) \/ DelRecordFails(c) \/ DelAgain(c)
             \/ GetOwn(c) \/ GetRecord(c) \/ GetFails(c) \/ ListName(c)
             \/ Return(c) \/ ReturnFailure(c)
      PROVE  UNCHANGED store
  BY <1>2 DEF Receive, Taken, AcqThreadLock, SetIdle, SetKnob, SetSync, SpawnReset, Update, SetSame,
     AddRecord2Fails, DelRecordFails, DelAgain, GetOwn, GetRecord, GetFails, ListName, Return,
     ReturnFailure
<1>3. CASE PsmDbusInit \/ PsmRbusInit
  BY <1>1, <1>3 DEF PsmDbusInit, PsmRbusInit, Advances
<1>4. CASE Engage
  BY <1>4, LoadType DEF Engage
<1>5. ASSUME NEW c \in Clients, Reload(c) PROVE tree' \in Trees /\ saved' \in Trees
  <2>1. PICK kept \in {tree} \cup LeftBy(tree, saved) : Load(kept)
    BY <1>5 DEF Reload
  <2>2. kept \in Trees
    BY LeftByType
  <2> QED BY <2>1, <2>2, LoadType
<1>6. ASSUME NEW c \in Clients, AddRecord2(c) PROVE tree' \in Trees /\ saved' \in Trees
  BY <1>6, ItemRecord DEF AddRecord2, Trees
<1>7. ASSUME NEW c \in Clients, DelRecord(c) PROVE tree' \in Trees /\ saved' \in Trees
  BY <1>7 DEF DelRecord, Trees
<1>8. CASE Flush \/ ResetTask \/ Term \/ Die \/ \E c \in Clients : Crash(c)
  <2>1. tree' \in {tree, Nothing} /\ saved' \in {tree, saved, Nothing} \cup LeftBy(tree, saved)
    BY <1>8 DEF Flush, ResetTask, Term, Die, Crash, Gone
  <2> QED BY <2>1, NothingType, LeftByType
<1> QED BY <1>1, <1>2, <1>3, <1>4, <1>5, <1>6, <1>7, <1>8, NextActions

LEMMA CountWraps == ASSUME NEW n \in Nat PROVE n % RefModulus \in 0..RefModulus - 1
BY BusApiAssumption

LEMMA StartValues == 0 \in 0..RefModulus - 1 /\ DOMAIN KnobsAtStart = Knobs
BY BusApiAssumption DEF KnobsAtStart

LEMMA RestStep == ASSUME HandlersOK, RestOK, Next PROVE RestOK'
<1>1. tree' \in Trees /\ saved' \in Trees
  BY TreeStep
<1>2. ASSUME NEW c \in Clients, SetSync(c) PROVE RestOK'
  <2>1. FileSyncRefCount + (IF IsTrue(Item(c).val) THEN RefModulus - 1 ELSE 1) \in Nat
    BY BusApiAssumption DEF RestOK
  <2>2. FileSyncRefCount' \in 0..RefModulus - 1
    BY <1>2, <2>1, CountWraps DEF SetSync
  <2> QED BY <1>1, <1>2, <2>2 DEF SetSync, RestOK
<1>3. ASSUME NEW c \in Clients, SetKnob(c) \/ SpawnReset(c) PROVE RestOK'
  BY <1>1, <1>3 DEF SetKnob, SpawnReset, RestOK
<1>4. ASSUME NEW c \in Clients,
             \/ Receive(c) \/ Taken(c)
             \/ SetIdle(c) \/ Update(c) \/ Reload(c) \/ SetSame(c) \/ AddRecord2(c) \/ AddRecord2Fails(c)
             \/ DelRecord(c) \/ DelRecordFails(c) \/ GetOwn(c) \/ GetRecord(c) \/ ListName(c)
      PROVE  RestOK'
  <2>1. UNCHANGED <<stage, own, ThreadLock>>
    BY <1>4 DEF Receive, Taken, SetIdle, Update, Reload, SetSame, AddRecord2, AddRecord2Fails,
       DelRecord, DelRecordFails, GetOwn, GetRecord, ListName
  <2> QED BY <1>1, <2>1 DEF RestOK, own
<1>5. ASSUME NEW c \in Clients,
             \/ AcqThreadLock(c) \/ DelAgain(c) \/ GetFails(c) \/ Return(c) \/ ReturnFailure(c)
      PROVE  RestOK'
  <2>1. UNCHANGED <<stage, own>> /\ ThreadLock' \in {ThreadLock, c, Free}
    BY <1>5 DEF AcqThreadLock, DelAgain, GetFails, Return, ReturnFailure, RelThreadLock
  <2> QED BY <1>1, <2>1 DEF RestOK, own
<1>6. CASE Engage \/ PsmDbusInit \/ PsmRbusInit \/ Flush \/ ResetTask
  BY <1>1, <1>6 DEF Engage, PsmDbusInit, PsmRbusInit, Advances, Flush, ResetTask, RestOK, own
<1>7. CASE Term \/ Die \/ \E c \in Clients : Crash(c)
  <2>1. Gone
    BY <1>7 DEF Term, Die, Crash
  <2>2. DOMAIN knobs' = Knobs /\ FileSyncRefCount' \in 0..RefModulus - 1
    BY <2>1, StartValues DEF Gone
  <2> QED BY <1>1, <2>1, <2>2 DEF Gone, RestOK
<1> QED BY <1>2, <1>3, <1>4, <1>5, <1>6, <1>7, NextActions

LEMMA RestInit == Init => RestOK
BY NothingType, StartValues DEF Init, RestOK

LEMMA PartsStuttered == ASSUME HandlersOK, RestOK, UNCHANGED vars PROVE HandlersOK' /\ RestOK'
<1>1. UNCHANGED <<pc, call, items, pos, lost, stage, tree, saved, own, ThreadLock>>
  BY DEF vars, work, store
<1> QED BY <1>1 DEF HandlersOK, RestOK, own

LEMMA PartsAlways == Spec => [](HandlersOK /\ RestOK)
<1>1. HandlersOK /\ RestOK /\ [Next]_vars => (HandlersOK /\ RestOK)'
  BY HandlersStep, RestStep, PartsStuttered
<1> QED BY <1>1, HandlersInit, RestInit, PTL DEF Spec

\* Whatever the buses bring and whatever fails below, every reachable state of
\* the handlers is well typed: positions stay in their lists, the count in its
\* unsigned word, and the tree and the files hold records.
THEOREM TypeCorrect == Spec => []TypeOK
BY PartsAlways, TypeParts, PTL

-----------------------------------------------------------------------------
(* One handler at a time                                                   *)

\* One handler moves, and the lock with it or not at all.
LEMMA LockMoves ==
    ASSUME HandlersOK, OneWorks, NEW c \in Clients, NEW l, Goto(c, l),
           \/ /\ ThreadLock' = ThreadLock
              /\ pc[c] \in {"work", "between"} <=> l \in {"work", "between"}
           \/ ThreadLock = Free /\ ThreadLock' = c /\ l \in {"work", "between"}
           \/ ThreadLock = c /\ ThreadLock' = Free /\ l \notin {"work", "between"}
    PROVE  OneWorks'
BY BusApiAssumption DEF HandlersOK, OneWorks, Goto

LEMMA OneWorksStep ==
    ASSUME HandlersOK, OneWorks, ForeignUnlock = FALSE, Next
    PROVE  OneWorks'
<1> USE DEF At
<1>1. CASE UNCHANGED <<pc, ThreadLock>>
  BY <1>1 DEF OneWorks
<1>2. ASSUME NEW c \in Clients,
             \/ Taken(c) \/ SetIdle(c) \/ SetKnob(c) \/ SetSync(c) \/ SpawnReset(c) \/ Update(c)
             \/ Reload(c) \/ SetSame(c) \/ AddRecord2(c) \/ AddRecord2Fails(c)
             \/ GetOwn(c) \/ GetRecord(c) \/ ListName(c)
      PROVE  UNCHANGED <<pc, ThreadLock>>
  BY <1>2 DEF Taken, SetIdle, SetKnob, SetSync, SpawnReset, Update, Reload, SetSame, AddRecord2,
     AddRecord2Fails, GetOwn, GetRecord, ListName
<1>3. CASE Engage \/ PsmDbusInit \/ PsmRbusInit \/ Flush \/ ResetTask
  BY <1>1, <1>3 DEF Engage, PsmDbusInit, PsmRbusInit, Advances, Flush, ResetTask
<1>4. ASSUME NEW c \in Clients, Receive(c) PROVE OneWorks'
  <2>1. pc[c] = "idle" /\ ThreadLock' = ThreadLock /\ (pc' = pc \/ Goto(c, "acquire"))
    BY <1>4 DEF Receive
  <2> QED BY <1>1, <2>1, LockMoves
<1>5. ASSUME NEW c \in Clients, AcqThreadLock(c) PROVE OneWorks'
  BY <1>5, LockMoves DEF AcqThreadLock
<1>6. ASSUME NEW c \in Clients, DelRecord(c) \/ DelRecordFails(c) PROVE OneWorks'
  <2>1. /\ pc[c] = "work" /\ ThreadLock' = ThreadLock
        /\ \E l \in {"work", "between"} : Goto(c, l)
    BY <1>6 DEF DelRecord, DelRecordFails, AtItem, AfterDel
  <2> QED BY <2>1, LockMoves
<1>7. ASSUME NEW c \in Clients, DelAgain(c) \/ GetFails(c) \/ Return(c) PROVE OneWorks'
  <2>1. pc[c] \in {"work", "between"} /\ \E l \in {"acquire", "failed", "idle"} : Goto(c, l)
    BY <1>7 DEF DelAgain, GetFails, AtItem, Return, Idle
  <2>2. ThreadLock = c
    BY <2>1 DEF OneWorks
  <2>3. ThreadLock' = Free
    BY <1>7, <2>2 DEF DelAgain, GetFails, Return, RelThreadLock
  <2> QED BY <2>1, <2>2, <2>3, LockMoves
<1>8. ASSUME NEW c \in Clients, ReturnFailure(c) PROVE OneWorks'
  <2>1. pc[c] = "failed" /\ Goto(c, "idle")
    BY <1>8 DEF ReturnFailure, Idle
  <2>2. ThreadLock # c
    BY <2>1 DEF OneWorks
  <2>3. ThreadLock' = ThreadLock
    BY <1>8, <2>2 DEF ReturnFailure, RelThreadLock
  <2> QED BY <2>1, <2>3, LockMoves
<1>9. CASE Term \/ Die \/ \E c \in Clients : Crash(c)
  <2>1. \A c \in Clients : pc'[c] = "idle"
    BY <1>9 DEF Term, Die, Crash, Gone
  <2>2. ThreadLock' = Free
    BY <1>9 DEF Term, Die, Crash, Gone
  <2> QED BY <2>1, <2>2, BusApiAssumption DEF OneWorks
<1> QED BY <1>1, <1>2, <1>3, <1>4, <1>5, <1>6, <1>7, <1>8, <1>9, NextActions

\* The handlers of both buses work in the tree one at a time, and hold the
\* thread lock exactly while they do, although a failed get releases it twice
\* and an RBus delete takes it once for each name.
THEOREM MutualExclusion == ASSUME ForeignUnlock = FALSE PROVE Spec => []OneWorks
<1>1. Init => OneWorks
  BY BusApiAssumption DEF Init, OneWorks
<1>2. HandlersOK /\ OneWorks /\ [Next]_vars => OneWorks'
  <2>1. ASSUME OneWorks, UNCHANGED vars PROVE OneWorks'
    BY <2>1 DEF vars, OneWorks
  <2> QED BY <2>1, OneWorksStep
<1> QED BY <1>1, <1>2, PartsAlways, PTL DEF Spec

-----------------------------------------------------------------------------
(* What a handler got through stays done                                   *)

\* Nobody is at work before PSM is ready.
IdleBefore == stage \notin {"green", "all"} => \A c \in Clients : pc[c] = "idle"

LEMMA IdleBeforeStep == ASSUME RestOK, IdleBefore, Next PROVE IdleBefore'
<1>1. CASE Engage \/ PsmDbusInit \/ PsmRbusInit
  BY <1>1 DEF Engage, PsmDbusInit, PsmRbusInit, Advances, IdleBefore
<1>2. CASE Flush \/ ResetTask \/ \E c \in Clients : Taken(c)
  BY <1>2 DEF Flush, ResetTask, Taken, IdleBefore
<1>3. CASE Term \/ Die \/ \E c \in Clients : Crash(c)
  BY <1>3 DEF Term, Die, Crash, Gone, IdleBefore
<1>4. ASSUME NEW c \in Clients, Receive(c) PROVE IdleBefore'
  BY <1>4 DEF Receive, g_psmHealth, IdleBefore, RestOK
<1>5. ASSUME NEW c \in Clients,
             \/ AcqThreadLock(c)
             \/ SetIdle(c) \/ SetKnob(c) \/ SetSync(c) \/ SpawnReset(c) \/ Update(c) \/ Reload(c)
             \/ SetSame(c) \/ AddRecord2(c) \/ AddRecord2Fails(c)
             \/ DelRecord(c) \/ DelRecordFails(c) \/ DelAgain(c)
             \/ GetOwn(c) \/ GetRecord(c) \/ GetFails(c) \/ ListName(c)
             \/ Return(c) \/ ReturnFailure(c)
      PROVE  IdleBefore'
  <2>1. pc[c] # "idle" /\ stage' = stage
    BY <1>5 DEF AcqThreadLock, SetIdle, SetKnob, SetSync, SpawnReset, Update, Reload, SetSame, AddRecord2,
       AddRecord2Fails, DelRecord, DelRecordFails, DelAgain, GetOwn, GetRecord, GetFails, ListName,
       Return, ReturnFailure, AtCommand, AtRecord, AtItem, At
  <2> QED BY <2>1 DEF IdleBefore
<1> QED BY <1>1, <1>2, <1>3, <1>4, <1>5, NextActions

\* AppliedSoFar of one handler.
AppliedOf(c) ==
    At(c, "work") /\ call[c].op \in {"set", "del"} =>
        \A i \in 1..pos[c] - 1 : i \notin lost[c] => Applied(c, i)

Unmoved(c) ==
    /\ pc'[c] = pc[c] /\ call'[c] = call[c] /\ items'[c] = items[c]
    /\ pos'[c] = pos[c] /\ lost'[c] = lost[c]

\* Handler c gets past its member, with the losses x.
Passes(c, x) ==
    /\ pc'[c] = pc[c] /\ call'[c] = call[c] /\ items'[c] = items[c]
    /\ pos'[c] = pos[c] + 1 /\ lost'[c] = x

LEMMA AppliedUnmoved ==
    ASSUME NEW c \in Clients, AppliedOf(c), Unmoved(c), tree' = tree
    PROVE  AppliedOf(c)'
BY DEF AppliedOf, Unmoved, Applied, LastWord, At

\* A handler that works changes no record that another one has got through:
\* there is no other.
LEMMA OthersUnmoved ==
    ASSUME HandlersOK, OneWorks, IdleBefore, Next, ~Gone, NEW c \in Clients, pc[c] = "work"
    PROVE  \/ Unmoved(c) /\ tree' = tree
           \/ SetIdle(c) \/ SetKnob(c) \/ SetSync(c) \/ SpawnReset(c) \/ Update(c) \/ Reload(c)
           \/ SetSame(c) \/ AddRecord2(c) \/ AddRecord2Fails(c)
           \/ DelRecord(c) \/ DelRecordFails(c)
           \/ GetOwn(c) \/ GetRecord(c) \/ GetFails(c) \/ ListName(c) \/ Return(c)
<1> USE DEF At
<1>1. CASE Engage
  BY <1>1 DEF Engage, IdleBefore
<1>2. CASE \/ PsmDbusInit \/ PsmRbusInit \/ Flush \/ ResetTask \/ \E d \in Clients : Taken(d)
  <2>1. UNCHANGED <<tree, pc, call, items, pos, lost>>
    BY <1>2 DEF PsmDbusInit, PsmRbusInit, Advances, Flush, ResetTask, Taken, store, work
  <2> QED BY <2>1 DEF Unmoved
<1>3. CASE Term \/ Die \/ \E d \in Clients : Crash(d)
  BY <1>3 DEF Term, Die, Crash
<1>4. ASSUME NEW d \in Clients, Receive(d) PROVE Unmoved(c) /\ tree' = tree
  BY <1>4 DEF Receive, Goto, HandlersOK, Unmoved, store
<1>5. ASSUME NEW d \in Clients, AcqThreadLock(d) PROVE Unmoved(c) /\ tree' = tree
  BY <1>5, BusApiAssumption DEF AcqThreadLock, OneWorks
<1>6. ASSUME NEW d \in Clients, ReturnFailure(d) PROVE Unmoved(c) /\ tree' = tree
  BY <1>6 DEF ReturnFailure, Idle, Goto, HandlersOK, Unmoved, store
<1>7. ASSUME NEW d \in Clients, d # c
      PROVE  /\ ~(SetIdle(d) \/ SetKnob(d) \/ SetSync(d) \/ SpawnReset(d) \/ Update(d) \/ Reload(d))
             /\ ~(SetSame(d) \/ AddRecord2(d) \/ AddRecord2Fails(d))
             /\ ~(DelRecord(d) \/ DelRecordFails(d) \/ DelAgain(d))
             /\ ~(GetOwn(d) \/ GetRecord(d) \/ GetFails(d) \/ ListName(d) \/ Return(d))
  <2>1. pc[d] \notin {"work", "between"}
    BY <1>7 DEF OneWorks
  <2> QED BY <2>1 DEF SetIdle, SetKnob, SetSync, SpawnReset, Update, Reload, SetSame, AddRecord2,
         AddRecord2Fails, DelRecord, DelRecordFails, DelAgain, GetOwn, GetRecord, GetFails, ListName,
         Return, AtCommand, AtRecord, AtItem
<1>8. ~DelAgain(c)
  BY DEF DelAgain
<1> QED BY <1>1, <1>2, <1>3, <1>4, <1>5, <1>6, <1>7, <1>8, NextActions

\* To get past a member is fine if it is applied then (or lost), and if those
\* before it that have no later word still are.
LEMMA AppliedPast ==
    ASSUME HandlersOK, NEW c \in Clients, AppliedOf(c), NEW x, Passes(c, x), lost[c] \subseteq x,
           NEW n, n = pos[c], n \in x \/ Applied(c, n)',
           \A i \in 1..n - 1 : i \notin x /\ Applied(c, i) => Applied(c, i)'
    PROVE  AppliedOf(c)'
<1>1. n \in Nat \ {0} /\ pos'[c] - 1 = n
  BY DEF HandlersOK, Passes
<1>2. SUFFICES ASSUME pc'[c] = "work", call'[c].op \in {"set", "del"}, NEW i \in 1..n, i \notin x
               PROVE  Applied(c, i)'
  BY <1>1 DEF AppliedOf, Passes, At
<1>3. CASE i = n
  BY <1>2, <1>3
<1>4. CASE i # n
  <2>1. i \in 1..n - 1 /\ i \notin lost[c]
    BY <1>1, <1>2, <1>4
  <2>2. Applied(c, i)
    BY <1>2, <2>1 DEF AppliedOf, Passes, At
  <2> QED BY <1>2, <2>1, <2>2
<1> QED BY <1>3, <1>4

\* What the members of a list are.
LEMMA AtMember ==
    ASSUME HandlersOK, NEW c \in Clients, NEW op, AtItem(c, op)
    PROVE  /\ pc[c] = "work" /\ call[c] \in Calls /\ call[c].op = op
           /\ pos[c] \in Nat \ {0} /\ pos[c] \in DOMAIN items[c]
           /\ op = "set" => items[c] \in Seq(SetItems)
           /\ op = "del" => items[c] \in Seq(Names)
<1>1. /\ Fine(pc[c], call[c], items[c], pos[c], lost[c]) /\ pc[c] = "work"
      /\ call[c].op = op /\ pos[c] <= Len(items[c])
  BY DEF HandlersOK, AtItem, At
<1>2. /\ call[c] \in Calls /\ pos[c] \in Nat \ {0} /\ items[c] \in Seq(Members)
      /\ op # "names" => items[c] = Given(call[c])
  BY <1>1 DEF Fine
<1>3. pos[c] \in DOMAIN items[c]
  BY <1>1, <1>2
<1> QED BY <1>1, <1>2, <1>3, GivenType

\* The earlier members of a set that passes member n: what they have is what
\* the tree has, so that it matters only what the step does to the tree.
LEMMA SetPassed ==
    ASSUME HandlersOK, NEW c \in Clients, AtItem(c, "set"), AppliedOf(c), NEW x, Passes(c, x),
           lost[c] \subseteq x, NEW n, n = pos[c], n \in x \/ Applied(c, n)',
           \A i \in 1..n - 1 :
               LET name == items[c][i].name
               IN  /\ i \notin x /\ name \notin Handled /\ name # Item(c).name
                   /\ tree[name] # Absent
                   => tree'[name] = tree[name]
    PROVE  AppliedOf(c)'
<1>1. call[c].op = "set" /\ n \in Nat \ {0}
  BY AtMember
<1>2. ASSUME NEW i \in 1..n - 1, i \notin x, Applied(c, i) PROVE Applied(c, i)'
  <2> DEFINE name == items[c][i].name
  <2>1. call'[c] = call[c] /\ items'[c] = items[c] /\ pos'[c] = n + 1
    BY DEF Passes
  <2>2. SUFFICES ASSUME name \notin Handled, LastWord(c, i)'
                 PROVE  tree'[name] # Absent /\ tree'[name].val = items[c][i].val
    BY <1>1, <2>1 DEF Applied
  <2>3. \A j \in i + 1 .. n : items[c][j].name # name
    BY <1>1, <2>1, <2>2 DEF LastWord
  <2>4. n \in i + 1 .. n /\ (\A j \in i + 1 .. n - 1 : j \in i + 1 .. n)
    BY <1>1
  <2>5. LastWord(c, i) /\ Item(c).name # name
    BY <2>3, <2>4 DEF LastWord, Item
  <2>6. tree[name] # Absent /\ tree[name].val = items[c][i].val
    BY <1>1, <1>2, <2>2, <2>5 DEF Applied
  <2> QED BY <1>2, <2>2, <2>5, <2>6
<1> QED BY <1>2, AppliedPast

\* What was saved from the tree and is loaded over it leaves its records as
\* they are.
LEMMA LoadsOwn ==
    ASSUME Load(tree), NEW n \in Names, tree[n] # Absent
    PROVE  tree'[n] = tree[n]
<1>1. PICK d : \/ tree' = Over(Over(tree, d), tree)
               \/ tree' = tree
  BY DEF Load
<1> QED BY <1>1 DEF Over

\* A member that is one of PSM's own parameters is no record.
LEMMA OwnPassed ==
    ASSUME HandlersOK, RestOK, NEW c \in Clients, AppliedOf(c),
           SetIdle(c) \/ SetKnob(c) \/ SetSync(c) \/ SpawnReset(c) \/ Update(c) \/ Reload(c)
    PROVE  AppliedOf(c)'
<1>1. AtItem(c, "set") /\ Item(c).name \in Handled
  BY DEF SetIdle, SetKnob, SetSync, SpawnReset, Update, Reload, AtCommand, Handled, Commands
<1>2. PICK n : n = pos[c] /\ n \in Nat \ {0} /\ call[c].op = "set" /\ items[c] \in Seq(SetItems)
               /\ n \in DOMAIN items[c]
  BY <1>1, AtMember
<1>3. /\ pc' = pc /\ call' = call /\ items' = items /\ pos'[c] = n + 1
  BY <1>2 DEF SetIdle, SetKnob, SetSync, SpawnReset, Update, Reload, Past, HandlersOK
<1>4. Applied(c, n)'
  BY <1>1, <1>2, <1>3 DEF Applied, Item
<1>5. CASE ~Reload(c)
  <2>1. tree' = tree /\ lost' = lost
    BY <1>5 DEF SetIdle, SetKnob, SetSync, SpawnReset, Update, store
  <2>2. Passes(c, lost[c])
    BY <1>2, <1>3, <2>1 DEF Passes
  <2> QED BY <1>1, <1>2, <1>4, <2>1, <2>2, SetPassed
<1>6. CASE Reload(c) /\ Load(tree) /\ lost' = lost
  <2>1. Passes(c, lost[c])
    BY <1>2, <1>3, <1>6 DEF Passes
  <2>2. ASSUME NEW i \in 1..n - 1, items[c][i].name \notin Handled, tree[items[c][i].name] # Absent
        PROVE  tree'[items[c][i].name] = tree[items[c][i].name]
    <3>1. items[c][i] \in SetItems
      BY <1>2
    <3>2. items[c][i].name \in Names
      BY <2>2, <3>1 DEF SetItems
    <3> QED BY <1>6, <2>2, <3>2, LoadsOwn
  <2> QED BY <1>1, <1>2, <1>4, <2>1, <2>2, SetPassed
<1>7. CASE Reload(c) /\ ~(Load(tree) /\ lost' = lost)
  <2> DEFINE gone == {i \in 1..n - 1 : LET m == items[c][i].name IN m \in Names /\ tree'[m] # tree[m]}
  <2>1. Passes(c, lost[c] \cup gone)
    BY <1>2, <1>3, <1>7 DEF Reload, Passes, HandlersOK
  <2>2. ASSUME NEW i \in 1..n - 1, i \notin lost[c] \cup gone, items[c][i].name \notin Handled
        PROVE  tree'[items[c][i].name] = tree[items[c][i].name]
    <3>1. items[c][i] \in SetItems
      BY <1>2
    <3>2. items[c][i].name \in Names
      BY <2>2, <3>1 DEF SetItems
    <3> QED BY <2>2, <3>2
  <2> HIDE DEF gone
  <2> QED BY <1>1, <1>2, <1>4, <2>1, <2>2, SetPassed
<1> QED BY <1>5, <1>6, <1>7

\* A member that is a record.
LEMMA RecordPassed ==
    ASSUME HandlersOK, RestOK, NEW c \in Clients, AppliedOf(c),
           SetSame(c) \/ AddRecord2(c) \/ AddRecord2Fails(c)
    PROVE  AppliedOf(c)'
<1>1. AtRecord(c) /\ AtItem(c, "set")
  BY DEF SetSame, AddRecord2, AddRecord2Fails, AtRecord
<1>2. PICK n : n = pos[c] /\ n \in Nat \ {0} /\ call[c].op = "set"
  BY <1>1, AtMember
<1>3. pc' = pc /\ call' = call /\ items' = items /\ pos'[c] = n + 1
  BY <1>2 DEF SetSame, AddRecord2, AddRecord2Fails, Past, HandlersOK
<1>4. CASE SetSame(c)
  <2>1. tree' = tree /\ Passes(c, lost[c])
    BY <1>3, <1>4, <1>2 DEF SetSame, Passes, store
  <2>2. Applied(c, n)'
    BY <1>2, <1>3, <1>4, <2>1 DEF SetSame, Applied, Item
  <2> QED BY <1>1, <1>2, <2>1, <2>2, SetPassed
<1>5. CASE AddRecord2(c)
  <2>1. Passes(c, lost[c])
    BY <1>2, <1>3, <1>5 DEF AddRecord2, Passes
  <2>2. /\ tree' = [tree EXCEPT ![Item(c).name] = [val |-> Item(c).val, type |-> Item(c).type]]
        /\ tree \in Trees /\ Item(c).name \in Names
        /\ [val |-> Item(c).val, type |-> Item(c).type] # Absent
    BY <1>1, <1>5, ItemRecord, BusApiAssumption DEF AddRecord2, RestOK
  <2>3. tree'[Item(c).name] # Absent /\ tree'[Item(c).name].val = Item(c).val
    BY <2>2 DEF Trees
  <2>4. Applied(c, n)'
    BY <1>2, <1>3, <2>3 DEF Applied, Item
  <2>5. \A m : m # Item(c).name => tree'[m] = tree[m]
    BY <2>2 DEF Trees
  <2> QED BY <1>1, <1>2, <2>1, <2>4, <2>5, SetPassed
<1>6. CASE AddRecord2Fails(c)
  <2>1. tree' = tree /\ Passes(c, lost[c] \cup {n})
    BY <1>2, <1>3, <1>6 DEF AddRecord2Fails, Passes, store, HandlersOK
  <2> QED BY <1>1, <1>2, <2>1, SetPassed
<1> QED BY <1>4, <1>5, <1>6

\* A deleted record stays deleted.
LEMMA DeletePassed ==
    ASSUME HandlersOK, RestOK, NEW c \in Clients, AppliedOf(c), DelRecord(c) \/ DelRecordFails(c)
    PROVE  AppliedOf(c)'
<1>1. AtItem(c, "del")
  BY DEF DelRecord, DelRecordFails
<1>2. PICK n : n = pos[c] /\ n \in Nat \ {0} /\ call[c].op = "del" /\ pc[c] = "work"
               /\ items[c] \in Seq(Names) /\ n \in DOMAIN items[c]
  BY <1>1, AtMember
<1>3. CASE call[c].via = "rbus"
  <2>1. pc'[c] = "between"
    BY <1>3 DEF DelRecord, DelRecordFails, AfterDel, Goto, HandlersOK
  <2> QED BY <2>1 DEF AppliedOf, At
<1>4. CASE call[c].via # "rbus"
  <2>1. /\ pc'[c] = pc[c] /\ call' = call /\ items' = items /\ pos'[c] = n + 1
    BY <1>2, <1>4 DEF DelRecord, DelRecordFails, AfterDel, Goto, Past, HandlersOK
  <2>2. ASSUME NEW i, Applied(c, i), \A m : tree[m] = Absent => tree'[m] = Absent
        PROVE  Applied(c, i)'
    BY <1>2, <2>1, <2>2 DEF Applied
  <2>3. CASE DelRecord(c)
    <3>1. tree' = [tree EXCEPT ![Item(c)] = Absent] /\ Passes(c, lost[c])
      BY <1>2, <2>1, <2>3 DEF DelRecord, Passes, store, HandlersOK
    <3>2. Item(c) \in Names /\ tree'[Item(c)] = Absent
      BY <1>2, <3>1 DEF Item, RestOK, Trees
    <3>3. \A m : tree[m] = Absent => tree'[m] = Absent
      BY <3>1 DEF RestOK, Trees
    <3>4. Applied(c, n)'
      BY <1>2, <2>1, <3>2 DEF Applied, Item
    <3> QED BY <1>2, <2>2, <3>1, <3>3, <3>4, AppliedPast
  <2>4. CASE DelRecordFails(c)
    <3>1. tree' = tree /\ Passes(c, lost[c] \cup {n})
      BY <1>2, <2>1, <2>4 DEF DelRecordFails, Passes, store, HandlersOK
    <3> QED BY <1>2, <2>2, <3>1, AppliedPast
  <2> QED BY <2>3, <2>4
<1> QED BY <1>3, <1>4

LEMMA AppliedStep ==
    ASSUME HandlersOK, RestOK, OneWorks, IdleBefore, Next, NEW c \in Clients, AppliedOf(c)
    PROVE  AppliedOf(c)'
<1>1. CASE Gone
  <2>1. pc'[c] = "idle"
    BY <1>1 DEF Gone
  <2> QED BY <2>1 DEF AppliedOf, At
<1>2. CASE ~Gone /\ pc[c] = "work"
  <2>1. CASE GetOwn(c) \/ GetRecord(c) \/ ListName(c)
    <3>1. call[c].op \notin {"set", "del"} /\ call' = call
      BY <2>1 DEF GetOwn, GetRecord, ListName, AtItem
    <3> QED BY <3>1 DEF AppliedOf
  <2>2. CASE GetFails(c) \/ Return(c)
    <3>1. pc'[c] \in {"failed", "idle"}
      BY <2>2 DEF GetFails, Return, Idle, Goto, HandlersOK
    <3> QED BY <3>1 DEF AppliedOf, At
  <2> QED BY <1>2, <2>1, <2>2, OthersUnmoved, AppliedUnmoved, OwnPassed, RecordPassed, DeletePassed
<1>3. CASE ~Gone /\ pc[c] # "work" /\ pc'[c] = "work"
  <2>1. AcqThreadLock(c)
    <3>1. CASE \/ Engage \/ PsmDbusInit \/ PsmRbusInit \/ Flush \/ ResetTask \/ Term \/ Die
               \/ \E d \in Clients : Crash(d)
      BY <1>3, <3>1 DEF Engage, PsmDbusInit, PsmRbusInit, Advances, Flush, ResetTask, Term, Die, Crash
    <3>2. ASSUME NEW d \in Clients, d # c,
                 \/ Receive(d) \/ AcqThreadLock(d) \/ DelRecord(d) \/ DelRecordFails(d) \/ DelAgain(d)
                 \/ GetFails(d) \/ Return(d) \/ ReturnFailure(d)
          PROVE  FALSE
      BY <1>3, <3>2 DEF Receive, AcqThreadLock, DelRecord, DelRecordFails, AfterDel, DelAgain, GetFails,
         Return, ReturnFailure, Idle, Goto, HandlersOK
    <3>3. ASSUME NEW d \in Clients,
                 \/ Taken(d) \/ SetIdle(d) \/ SetKnob(d) \/ SetSync(d) \/ SpawnReset(d) \/ Update(d)
                 \/ Reload(d) \/ SetSame(d) \/ AddRecord2(d) \/ AddRecord2Fails(d)
                 \/ GetOwn(d) \/ GetRecord(d) \/ ListName(d)
          PROVE  FALSE
      BY <1>3, <3>3 DEF Taken, SetIdle, SetKnob, SetSync, SpawnReset, Update, Reload, SetSame, AddRecord2,
         AddRecord2Fails, GetOwn, GetRecord, ListName
    <3>4. ~(\/ Receive(c) \/ DelRecord(c) \/ DelRecordFails(c) \/ DelAgain(c)
            \/ GetFails(c) \/ Return(c) \/ ReturnFailure(c))
      BY <1>3 DEF Receive, DelRecord, DelRecordFails, AtItem, At, DelAgain, GetFails,
         Return, ReturnFailure, Idle, Goto, HandlersOK
    <3> QED BY <3>1, <3>2, <3>3, <3>4, NextActions
  <2>2. /\ Fine("acquire", call[c], items[c], pos[c], lost[c])
        /\ call' = call /\ pos' = pos /\ lost' = lost /\ tree' = tree
    BY <2>1 DEF AcqThreadLock, At, HandlersOK, store
  <2>3. pos[c] = 1 \/ (call[c].op = "del" /\ call[c].via = "rbus")
    BY <2>2 DEF Fine
  <2> QED BY <2>2, <2>3 DEF AppliedOf, Applied
<1>4. CASE pc'[c] # "work"
  BY <1>4 DEF AppliedOf, At
<1> QED BY <1>1, <1>2, <1>3, <1>4

\* While a set or a delete works through its list, of any length, everything
\* it got through and that did not fail is in the tree, or out of it: neither
\* a handler of the other bus nor a later member nor a reload in the middle of
\* the list takes it back unnoticed.
THEOREM SetsLast == ASSUME ForeignUnlock = FALSE PROVE Spec => []AppliedSoFar
<1> DEFINE Inv == IdleBefore /\ AppliedSoFar
<1>1. Init => Inv
  BY DEF Init, IdleBefore, AppliedSoFar, At
<1>2. AppliedSoFar <=> \A c \in Clients : AppliedOf(c)
  BY DEF AppliedSoFar, AppliedOf
<1>3. AppliedSoFar' <=> \A c \in Clients : AppliedOf(c)'
  BY DEF AppliedSoFar, AppliedOf
<1>4. HandlersOK /\ RestOK /\ OneWorks /\ Inv /\ [Next]_vars => Inv'
  <2>1. ASSUME HandlersOK, RestOK, OneWorks, Inv, Next PROVE Inv'
    BY <1>2, <1>3, <2>1, IdleBeforeStep, AppliedStep
  <2>2. ASSUME Inv, UNCHANGED vars PROVE Inv'
    <3>1. UNCHANGED <<stage, pc, tree, call, items, pos, lost>>
      BY <2>2 DEF vars, work, store
    <3> QED BY <2>2, <3>1 DEF IdleBefore, AppliedSoFar, Applied, LastWord, At
  <2> QED BY <2>1, <2>2
<1> QED BY <1>1, <1>4, PartsAlways, MutualExclusion, PTL DEF Spec

=============================================================================
