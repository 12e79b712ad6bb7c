-------------------------- MODULE BusApiStoreProofs --------------------------
(***************************************************************************)
(* The handlers of the two buses implement RecordStore, for any clients,   *)
(* requests of any length, records and factory records, and with failures  *)
(* below, when the thread lock is released only by its holder.             *)
(***************************************************************************)
EXTENDS BusApiProofs, WellFoundedInduction

-----------------------------------------------------------------------------
(* The list of results and the array it is popped into                     *)

LEMMA InOrderType ==
    ASSUME NEW T, NEW s \in Seq(T)
    PROVE  /\ InOrder(s) \in Seq(T) /\ Len(InOrder(s)) = Len(s)
           /\ \A i \in 1..Len(s) : InOrder(s)[i] = s[Len(s) + 1 - i]
<1>1. DOMAIN s = 1..Len(s) /\ Len(s) \in Nat
  OBVIOUS
<1>2. InOrder(s) \in [1..Len(s) -> T]
  BY <1>1 DEF InOrder
<1>3. InOrder(s) \in Seq(T) /\ Len(InOrder(s)) = Len(s)
  BY <1>1, <1>2
<1> QED BY <1>1, <1>3 DEF InOrder

LEMMA PushedList ==
    ASSUME NEW T, NEW s \in Seq(T), NEW x, NEW t, t = <<x>> \o s
    PROVE  /\ t \in Seq(T \cup {x}) /\ Len(t) = Len(s) + 1 /\ Len(s) \in Nat
           /\ t[1] = x /\ \A i \in 2..Len(s) + 1 : t[i] = s[i - 1]
<1>1. s \in Seq(T \cup {x}) /\ <<x>> \in Seq(T \cup {x}) /\ Len(<<x>>) = 1
  OBVIOUS
<1>2. /\ t \in Seq(T \cup {x}) /\ Len(t) = Len(s) + 1
      /\ \A i \in 1..Len(t) : t[i] = IF i <= 1 THEN <<x>>[i] ELSE s[i - 1]
  BY <1>1, ConcatProperties
<1> QED BY <1>2

\* The result that is pushed last comes last.
LEMMA PushedIsLast ==
    ASSUME NEW T, NEW s \in Seq(T), NEW x, NEW t, t = <<x>> \o s
    PROVE  InOrder(t)[Len(s) + 1] = x
<1>1. t \in Seq(T \cup {x}) /\ Len(t) = Len(s) + 1 /\ t[1] = x /\ Len(s) \in Nat
  BY PushedList
<1>2. \A i \in 1..Len(t) : InOrder(t)[i] = t[Len(t) + 1 - i]
  BY <1>1, InOrderType
<1>3. Len(t) \in 1..Len(t) /\ Len(t) + 1 - Len(t) = 1
  BY <1>1
<1> QED BY <1>1, <1>2, <1>3

LEMMA PushedKeepsOrder ==
    ASSUME NEW T, NEW s \in Seq(T), NEW x, NEW t, t = <<x>> \o s
    PROVE  \A i \in 1..Len(s) : InOrder(t)[i] = InOrder(s)[i]
<1>1. /\ t \in Seq(T \cup {x}) /\ Len(t) = Len(s) + 1
      /\ t[1] = x /\ \A i \in 2..Len(s) + 1 : t[i] = s[i - 1]
  BY PushedList
<1>2. Len(s) \in Nat /\ \A i \in 1..Len(s) + 1 : InOrder(t)[i] = t[Len(s) + 2 - i]
  <2>1. \A i \in 1..Len(t) : InOrder(t)[i] = t[Len(t) + 1 - i]
    BY <1>1, InOrderType
  <2>2. Len(s) \in Nat
    OBVIOUS
  <2> QED BY <1>1, <2>1, <2>2
<1>3. \A i \in 1..Len(s) : InOrder(s)[i] = s[Len(s) + 1 - i]
  BY InOrderType
<1>4. ASSUME NEW i \in 1..Len(s) PROVE InOrder(t)[i] = InOrder(s)[i]
  <2>1. InOrder(t)[i] = t[Len(s) + 2 - i] /\ Len(s) + 2 - i \in 2..Len(s) + 1
    BY <1>2
  <2>2. t[Len(s) + 2 - i] = s[Len(s) + 2 - i - 1]
    BY <1>1, <2>1
  <2>3. Len(s) + 2 - i - 1 = Len(s) + 1 - i
    BY <1>2
  <2> QED BY <1>3, <2>1, <2>2, <2>3
<1> QED BY <1>4

LEMMA InOrderEmpty == InOrder(<<>>) = <<>>
<1>1. <<>> \in Seq({})
  OBVIOUS
<1>2. InOrder(<<>>) \in Seq({}) /\ Len(InOrder(<<>>)) = 0
  BY <1>1, InOrderType
<1> QED BY <1>2

-----------------------------------------------------------------------------
(* The names below a prefix                                                *)

LEMMA Least ==
    ASSUME NEW S \in SUBSET Nat, S # {}
    PROVE  \E i \in S : \A j \in S : i <= j
<1>1. PICK x \in S : \A y \in S : ~(<<y, x>> \in OpToRel(<, Nat))
  BY NatLessThanWellFounded, WFMin
<1>2. \A y \in S : ~(y < x)
  BY <1>1 DEF OpToRel
<1> QED BY <1>2

LEMMA SequencePrefix ==
    ASSUME NEW T, NEW n \in Seq(T), NEW k \in 0..Len(n)
    PROVE  /\ SubSeq(n, 1, k) \in Seq(T) /\ Len(SubSeq(n, 1, k)) = k
           /\ \A i \in 1..k : SubSeq(n, 1, k)[i] = n[i]
           /\ k = Len(n) => SubSeq(n, 1, k) = n
<1>1. \A i \in 1..k : n[i] \in T
  OBVIOUS
<1>2. /\ SubSeq(n, 1, k) \in Seq(T) /\ Len(SubSeq(n, 1, k)) = k
      /\ \A i \in 1..k : SubSeq(n, 1, k)[i] = n[i]
  <2>1. 1 \in Int /\ k \in Int /\ k - 1 + 1 = k /\ (1 <= k \/ k = 0)
    OBVIOUS
  <2>2. /\ SubSeq(n, 1, k) \in Seq(T)
        /\ Len(SubSeq(n, 1, k)) = IF 1 <= k THEN k - 1 + 1 ELSE 0
        /\ \A i \in 1..k - 1 + 1 : SubSeq(n, 1, k)[i] = n[1 + i - 1]
    BY <1>1, <2>1, SubSeqProperties
  <2> QED BY <2>1, <2>2
<1> QED BY <1>2, SubSeqFull

\* A prefix of a prefix is one.
LEMMA PrefixOfPrefix ==
    ASSUME NEW T, NEW n \in Seq(T), NEW k \in 0..Len(n), NEW p \in 0..k
    PROVE  SubSeq(SubSeq(n, 1, k), 1, p) = SubSeq(n, 1, p)
<1>1. p \in 0..Len(n)
  OBVIOUS
<1> DEFINE m == SubSeq(n, 1, k)
<1>2. m \in Seq(T) /\ Len(m) = k /\ \A i \in 1..k : m[i] = n[i]
  BY SequencePrefix
<1> HIDE DEF m
<1>3. SubSeq(m, 1, p) \in Seq(T) /\ Len(SubSeq(m, 1, p)) = p /\ \A i \in 1..p : SubSeq(m, 1, p)[i] = m[i]
  BY <1>2, SequencePrefix
<1>4. SubSeq(n, 1, p) \in Seq(T) /\ Len(SubSeq(n, 1, p)) = p /\ \A i \in 1..p : SubSeq(n, 1, p)[i] = n[i]
  BY <1>1, SequencePrefix
<1>5. SubSeq(m, 1, p) = SubSeq(n, 1, p)
  BY <1>2, <1>3, <1>4, SeqEqual
<1> QED BY <1>5 DEF m

\* The next level of a name: what UpToDot finds, and nothing else.
LEMMA ChildOf ==
    ASSUME NEW n \in Seq(STRING), NEW p \in Seq(STRING), Store!Begins(n, p), NEW k \in 1..Len(n)
    PROVE  Store!IsChild(SubSeq(n, 1, k), n, p)
             <=> /\ Len(p) < k /\ (\A i \in Len(p) + 1 .. k - 1 : n[i] # ".")
                 /\ k = Len(n) \/ n[k] = "."
<1> DEFINE m == SubSeq(n, 1, k)
<1>1. /\ m \in Seq(STRING) /\ Len(m) = k /\ \A i \in 1..k : m[i] = n[i]
      /\ k = Len(n) => m = n
  BY SequencePrefix
<1>2. Store!Begins(n, m)
  BY <1>1 DEF Store!Begins
<1>3. SubSeq(n, 1, Len(p)) = p /\ Len(p) \in Nat /\ Len(n) \in Nat
  BY DEF Store!Begins
<1>4. Len(p) < k => Store!Begins(m, p)
  BY <1>1, <1>3, PrefixOfPrefix DEF Store!Begins
<1>5. m = n <=> k = Len(n)
  BY <1>1
<1>6. \A i \in Len(p) + 1 .. k : m[i] = n[i]
  BY <1>1, <1>3
<1> HIDE DEF m
<1>7. Store!IsChild(m, n, p)
        <=> /\ Len(p) < k /\ (\A i \in Len(p) + 1 .. k - 1 : n[i] # ".")
            /\ k = Len(n) \/ n[k] = "."
  BY <1>1, <1>2, <1>3, <1>4, <1>5, <1>6 DEF Store!IsChild
<1> QED BY <1>7 DEF m

\* Entry is the set of what the store lists for a record.
LEMMA EntryIsChildren ==
    ASSUME NEW q, q.prefix \in Seq(STRING), NEW n \in Seq(STRING)
    PROVE  Entry(q, n) =
             IF ~Store!Begins(n, q.prefix) THEN {}
             ELSE IF q.nextLevel
             THEN {m \in {SubSeq(n, 1, k) : k \in 1..Len(n)} : Store!IsChild(m, n, q.prefix)}
             ELSE {n}
<1> DEFINE p == q.prefix
           dots == {i \in Len(p) + 1 .. Len(n) : n[i] = "."}
           children == {m \in {SubSeq(n, 1, k) : k \in 1..Len(n)} : Store!IsChild(m, n, p)}
<1>0. Len(p) \in Nat /\ Len(n) \in Nat
  OBVIOUS
<1>1. CASE ~Store!Begins(n, p)
  BY <1>0, <1>1 DEF Entry, Store!Begins
<1>2. CASE Store!Begins(n, p) /\ ~q.nextLevel
  BY <1>0, <1>2 DEF Entry, Store!Begins
<1>3. CASE Store!Begins(n, p) /\ q.nextLevel
  <2>1. Entry(q, n) = IF Len(n) > Len(p) THEN {UpToDot(n, p)} ELSE {}
    BY <1>0, <1>3 DEF Entry, Store!Begins
  <2>2. PICK k0 : /\ Len(n) > Len(p) => k0 \in 1..Len(n) /\ UpToDot(n, p) = SubSeq(n, 1, k0)
                  /\ \A k \in 1..Len(n) :
                        Store!IsChild(SubSeq(n, 1, k), n, p) <=> Len(n) > Len(p) /\ k = k0
    <3>1. \A k \in 1..Len(n) : Store!IsChild(SubSeq(n, 1, k), n, p)
             <=> /\ Len(p) < k /\ (\A i \in Len(p) + 1 .. k - 1 : n[i] # ".")
                 /\ k = Len(n) \/ n[k] = "."
      BY <1>3, ChildOf
    <3>2. CASE dots = {}
      <4>1. UpToDot(n, p) = n /\ (Len(n) > Len(p) => SubSeq(n, 1, Len(n)) = n)
        BY <3>2, SubSeqFull DEF UpToDot
      <4>2. \A i \in Len(p) + 1 .. Len(n) : n[i] # "."
        BY <3>2
      <4>3. \A k \in 1..Len(n) : Store!IsChild(SubSeq(n, 1, k), n, p) <=> Len(n) > Len(p) /\ k = Len(n)
        BY <1>0, <3>1, <4>2
      <4>4. Len(n) > Len(p) => Len(n) \in 1..Len(n)
        BY <1>0
      <4> QED BY <4>1, <4>3, <4>4
    <3>3. CASE dots # {}
      <4>1. dots \in SUBSET Nat
        BY <1>0
      <4>2. \E i \in dots : \A j \in dots : i <= j
        BY <3>3, <4>1, Least
      <4> DEFINE d == CHOOSE i \in dots : \A j \in dots : i <= j
      <4>3. d \in dots /\ \A j \in dots : d <= j
        BY <4>2
      <4>4. UpToDot(n, p) = SubSeq(n, 1, d)
        BY <3>3 DEF UpToDot
      <4> HIDE DEF d
      <4>5. d \in 1..Len(n) /\ Len(p) < d /\ n[d] = "." /\ \A i \in Len(p) + 1 .. d - 1 : n[i] # "."
        BY <1>0, <4>3
      <4>6. \A k \in 1..Len(n) : Store!IsChild(SubSeq(n, 1, k), n, p) <=> k = d
        BY <1>0, <3>1, <4>5
      <4>7. Len(n) > Len(p)
        BY <1>0, <4>5
      <4> QED BY <4>4, <4>5, <4>6, <4>7
    <3> QED BY <3>2, <3>3
  <2>3. children = IF Len(n) > Len(p) THEN {SubSeq(n, 1, k0)} ELSE {}
    BY <2>2
  <2> QED BY <1>3, <2>1, <2>2, <2>3
<1> QED BY <1>1, <1>2, <1>3

\* What EnumRecord delivers are all the records.
LEMMA EnumeratesAll ==
    ASSUME NEW S \in SUBSET Names, NEW s \in Enumerations(S)
    PROVE  Range(s) = S
<1>1. IsFiniteSet(S) /\ Cardinality(S) \in Nat
  BY BusApiAssumption, FS_Subset, FS_CardinalityType
<1>2. s \in Injection(1..Cardinality(S), S)
  BY DEF Enumerations, Injection
<1>3. Cardinality(1..Cardinality(S)) = Cardinality(S)
  BY <1>1, FS_Interval
<1>4. s \in Surjection(1..Cardinality(S), S)
  BY <1>1, <1>2, <1>3, FS_Injection
<1> QED BY <1>4 DEF Surjection, Range

-----------------------------------------------------------------------------
(* The results so far                                                      *)

ResultsOK == DOMAIN out = Clients /\ DOMAIN answer = Clients

\* What a get has for the members it got through, in their order, is what the
\* store would tell of them now: at says where each result is from.
GotSoFar(c) ==
    LET n == pos[c] - 1
    IN  /\ \A i \in 1..n : ~Store!Missing(items[c][i])
        /\ \E at \in [1..Len(out[c]) -> 1..n] :
              /\ Range(at) = {i \in 1..n : Store!Told(items[c][i])}
              /\ \A i, j \in 1..Len(out[c]) : i < j => at[i] < at[j]
              /\ \A i \in 1..Len(out[c]) : InOrder(out[c])[i] = Store!Entry(items[c][at[i]])

\* A list of names works through the records that are there now, and has each
\* name once.
NamesOf(q, s, n) == UNION {Entry(q, s[i]) : i \in 1..n}

ListedSoFar(c) ==
    /\ Range(items[c]) = {n \in Names : tree[n] # Absent}
    /\ Range(out[c]) = NamesOf(call[c], items[c], pos[c] - 1)
    /\ IsInjective(out[c])

SoFar(c) ==
    /\ pc[c] # "idle" => answer[c] = {}
    /\ \E T : out[c] \in Seq(T)
    /\ (At(c, "work") /\ call[c].op \in {"get", "names"}) \/ At(c, "failed") \/ out[c] = <<>>
    /\ At(c, "work") /\ call[c].op = "get" => GotSoFar(c)
    /\ At(c, "work") /\ call[c].op = "names" => ListedSoFar(c)

\* Whatever else happens, a client that does not move keeps what it has.
Keeps(c) ==
    /\ pc'[c] = pc[c] /\ call'[c] = call[c] /\ items'[c] = items[c] /\ pos'[c] = pos[c]
    /\ out'[c] = out[c] /\ answer'[c] = answer[c]

OwnStep(c) ==
    \/ Receive(c) \/ Taken(c) \/ AcqThreadLock(c)
    \/ SetIdle(c) \/ SetKnob(c) \/ SetSync(c) \/ SpawnReset(c) \/ Update(c) \/ Reload(c)
    \/ SetSame(c) \/ AddRecord2(c) \/ AddRecord2Fails(c)
    \/ DelRecord(c) \/ DelRecordFails(c) \/ DelAgain(c)
    \/ GetOwn(c) \/ GetRecord(c) \/ GetFails(c) \/ ListName(c)
    \/ Return(c) \/ ReturnFailure(c)

LEMMA OthersKeep ==
    ASSUME HandlersOK, ResultsOK, Next, ~Gone, NEW c \in Clients, ~OwnStep(c)
    PROVE  Keeps(c)
<1> USE DEF Keeps, ResultsOK, HandlersOK
<1>1. CASE Engage \/ PsmDbusInit \/ PsmRbusInit \/ Flush \/ ResetTask
  BY <1>1 DEF Engage, PsmDbusInit, PsmRbusInit, Advances, Flush, ResetTask, work
<1>2. ASSUME NEW d \in Clients, d # c,
             Receive(d) \/ Taken(d) \/ AcqThreadLock(d) \/ DelAgain(d) \/ GetFails(d)
      PROVE  Keeps(c)
  BY <1>2 DEF Receive, Taken, AcqThreadLock, Listed, DelAgain, GetFails, Goto, work
<1>3. ASSUME NEW d \in Clients, d # c,
             \/ SetIdle(d) \/ SetKnob(d) \/ SetSync(d) \/ SpawnReset(d) \/ Update(d) \/ Reload(d)
             \/ SetSame(d) \/ AddRecord2(d) \/ AddRecord2Fails(d)
      PROVE  Keeps(c)
  BY <1>3 DEF SetIdle, SetKnob, SetSync, SpawnReset, Update, Reload, SetSame, AddRecord2,
     AddRecord2Fails, Past
<1>4. ASSUME NEW d \in Clients, d # c,
             \/ DelRecord(d) \/ DelRecordFails(d) \/ GetOwn(d) \/ GetRecord(d) \/ ListName(d)
      PROVE  Keeps(c)
  BY <1>4 DEF DelRecord, DelRecordFails, AfterDel, GetOwn, GetRecord, ListName, Pushed, Past, Goto
<1>5. ASSUME NEW d \in Clients, d # c, Return(d) \/ ReturnFailure(d) PROVE Keeps(c)
  BY <1>5 DEF Return, ReturnFailure, Idle, Goto
<1> QED BY <1>1, <1>2, <1>3, <1>4, <1>5, NextActions DEF OwnStep, Term, Die, Crash

\* While a handler works nothing changes that the others could be told, but by
\* its own step.
StoreStill == tree' = tree /\ knobs' = knobs /\ FileSyncRefCount' = FileSyncRefCount

LEMMA StillAtWork ==
    ASSUME HandlersOK, OneWorks, IdleBefore, Next, ~Gone, NEW c \in Clients, pc[c] = "work",
           ~OwnStep(c)
    PROVE  StoreStill
<1> USE DEF StoreStill, own, store
<1>1. CASE Engage
  BY <1>1 DEF Engage, IdleBefore
<1>2. CASE PsmDbusInit \/ PsmRbusInit \/ Flush \/ ResetTask
  BY <1>2 DEF PsmDbusInit, PsmRbusInit, Advances, Flush, ResetTask
<1>3. ASSUME NEW d \in Clients, Receive(d) \/ Taken(d) \/ AcqThreadLock(d) \/ ReturnFailure(d)
      PROVE  StoreStill
  BY <1>3 DEF Receive, Taken, AcqThreadLock, ReturnFailure
<1>4. ASSUME NEW d \in Clients, d # c
      PROVE  /\ ~(SetIdle(d) \/ SetKnob(d) \/ SetSync(d) \/ SpawnReset(d) \/ Update(d) \/ Reload(d))
             /\ ~(SetSame(d) \/ AddRecord2(d) \/ AddRecord2Fails(d))
             /\ ~(DelRecord(d) \/ DelRecordFails(d) \/ DelAgain(d))
             /\ ~(GetOwn(d) \/ GetRecord(d) \/ GetFails(d) \/ ListName(d) \/ Return(d))
  <2>1. pc[d] \notin {"work", "between"}
    BY <1>4 DEF OneWorks
  <2> QED BY <2>1 DEF SetIdle, SetKnob, SetSync, SpawnReset, Update, Reload, SetSame, AddRecord2,
         AddRecord2Fails, DelRecord, DelRecordFails, DelAgain, GetOwn, GetRecord, GetFails, ListName,
         Return, AtCommand, AtRecord, AtItem, At
<1> QED BY <1>1, <1>2, <1>3, <1>4, NextActions DEF OwnStep, Term, Die, Crash

\* What the store tells of a name depends on no more than that.
LEMMA TellsSame ==
    ASSUME StoreStill, NEW n
    PROVE  /\ Store!Missing(n)' = Store!Missing(n) /\ Store!Told(n)' = Store!Told(n)
           /\ Store!Entry(n)' = Store!Entry(n) /\ Special' = Special
<1>1. ASSUME NEW m PROVE CommParam(m)' = CommParam(m)
  BY DEF StoreStill, CommParam
<1>2. Special' = Special
  BY <1>1 DEF Special
<1>3. Store!Lookup(n)' = Store!Lookup(n)
  BY <1>2 DEF StoreStill, Store!Lookup
<1> QED BY <1>2, <1>3 DEF StoreStill, Store!Missing, Store!Told, Store!Entry

\* A list goes on with what it has when nothing moves.
LEMMA KeptSoFar ==
    ASSUME NEW c \in Clients, SoFar(c), Keeps(c), pc[c] = "work" => StoreStill
    PROVE  SoFar(c)'
<1>1. PICK q, s, o, n : q = call[c] /\ s = items[c] /\ o = out[c] /\ n = pos[c]
  OBVIOUS
<1>2. call'[c] = q /\ items'[c] = s /\ out'[c] = o /\ pos'[c] = n
  BY <1>1 DEF Keeps
<1>3. CASE pc[c] # "work"
  BY <1>3 DEF SoFar, Keeps, At
<1>4. CASE pc[c] = "work"
  <2>1. /\ \A m : Store!Missing(m)' = Store!Missing(m) /\ Store!Told(m)' = Store!Told(m)
        /\ \A m : Store!Entry(m)' = Store!Entry(m)
    BY <1>4, TellsSame
  <2>2. GotSoFar(c) => GotSoFar(c)'
    BY <1>1, <1>2, <2>1 DEF GotSoFar
  <2>3. ListedSoFar(c) => ListedSoFar(c)'
    BY <1>1, <1>2, <1>4 DEF ListedSoFar, StoreStill
  <2> QED BY <1>1, <1>2, <2>2, <2>3 DEF SoFar, Keeps, At
<1> QED BY <1>3, <1>4

\* A get gets past a member that is there: with its result, or without one.
LEMMA GetPassed ==
    ASSUME HandlersOK, ResultsOK, NEW c \in Clients, AtItem(c, "get"), SoFar(c), StoreStill,
           Past(c), pc' = pc, call' = call, items' = items, answer' = answer,
           ~Store!Missing(Item(c)),
           \/ Store!Told(Item(c)) /\ Pushed(c, Store!Entry(Item(c)))
           \/ ~Store!Told(Item(c)) /\ out' = out
    PROVE  SoFar(c)'
<1>1. /\ pc[c] = "work" /\ call[c].op = "get" /\ pos[c] \in Nat \ {0}
      /\ pos[c] \in DOMAIN items[c] /\ GotSoFar(c)
  BY AtMember DEF SoFar, AtItem, At
<1>2. PICK T : out[c] \in Seq(T)
  BY DEF SoFar
<1>3. PICK s, o, n, x : /\ s = items[c] /\ o = out[c] /\ n = pos[c] - 1 /\ n \in Nat
                        /\ x = Item(c) /\ x = s[n + 1]
  BY <1>1 DEF Item
<1>4. items'[c] = s /\ pos'[c] - 1 = n + 1
  BY <1>1, <1>3 DEF Past, HandlersOK
<1>5. /\ \A m : Store!Missing(m)' = Store!Missing(m) /\ Store!Told(m)' = Store!Told(m)
      /\ \A m : Store!Entry(m)' = Store!Entry(m)
  BY TellsSame
<1>6. PICK at \in [1..Len(o) -> 1..n] :
            /\ Range(at) = {i \in 1..n : Store!Told(s[i])}
            /\ \A i, j \in 1..Len(o) : i < j => at[i] < at[j]
            /\ \A i \in 1..Len(o) : InOrder(o)[i] = Store!Entry(s[at[i]])
  BY <1>1, <1>3 DEF GotSoFar
<1>7. \A i \in 1..n + 1 : ~Store!Missing(s[i])
  <2>1. \A i \in 1..n : ~Store!Missing(s[i])
    BY <1>1, <1>3 DEF GotSoFar
  <2>2. ~Store!Missing(s[n + 1])
    BY <1>3
  <2>3. \A i \in 1..n + 1 : i \in 1..n \/ i = n + 1
    BY <1>3
  <2> QED BY <2>1, <2>2, <2>3
<1>8. Len(o) \in Nat
  BY <1>2, <1>3
<1>9. CASE ~Store!Told(x) /\ out' = out
  <2>1. at \in [1..Len(o) -> 1..n + 1]
    BY <1>3, <1>6
  <2>2. {i \in 1..n : Store!Told(s[i])} = {i \in 1..n + 1 : Store!Told(s[i])}
    BY <1>3, <1>9
  <2>3. out'[c] = o
    BY <1>3, <1>9
  <2>4. GotSoFar(c)'
    BY <1>4, <1>5, <1>6, <1>7, <2>1, <2>2, <2>3 DEF GotSoFar
  <2> QED BY <1>1, <1>2, <1>3, <2>3, <2>4 DEF SoFar, At
<1>10. CASE Store!Told(x) /\ Pushed(c, Store!Entry(x))
  <2>1. PICK e : e = Store!Entry(x)
    OBVIOUS
  <2>2. out'[c] = <<e>> \o o
    BY <1>3, <1>10, <2>1 DEF Pushed, ResultsOK
  <2>3. PICK o1 : o1 = <<e>> \o o
    OBVIOUS
  <2> DEFINE at1 == [i \in 1..Len(o) + 1 |-> IF i <= Len(o) THEN at[i] ELSE n + 1]
  <2>4. o \in Seq(T)
    BY <1>2, <1>3
  <2>5. /\ o1 \in Seq(T \cup {e}) /\ Len(o1) = Len(o) + 1 /\ InOrder(o1)[Len(o) + 1] = e
        /\ \A i \in 1..Len(o) : InOrder(o1)[i] = InOrder(o)[i]
    <3>1. o1 \in Seq(T \cup {e}) /\ Len(o1) = Len(o) + 1
      BY <2>3, <2>4, PushedList
    <3>2. InOrder(o1)[Len(o) + 1] = e
      BY <2>3, <2>4, PushedIsLast
    <3>3. \A i \in 1..Len(o) : InOrder(o1)[i] = InOrder(o)[i]
      BY <2>3, <2>4, PushedKeepsOrder
    <3> QED BY <3>1, <3>2, <3>3
  <2>6. at1 \in [1..Len(o1) -> 1..n + 1] /\ DOMAIN at1 = 1..Len(o) + 1
    BY <1>3, <1>6, <1>8, <2>5
  <2>7. at1[Len(o) + 1] = n + 1 /\ \A i \in 1..Len(o) : at1[i] = at[i]
    BY <1>8
  <2> HIDE DEF at1
  <2>8. \A i \in 1..Len(o) + 1 : i \in 1..Len(o) \/ i = Len(o) + 1
    BY <1>8
  <2>9. Range(at1) = {i \in 1..n + 1 : Store!Told(s[i])}
    <3>1. \A i \in Range(at1) : i \in Range(at) \/ i = n + 1
      BY <1>6, <2>6, <2>7, <2>8 DEF Range
    <3>2. \A i \in Range(at) : i \in Range(at1)
      BY <1>6, <1>8, <2>6, <2>7 DEF Range
    <3>3. n + 1 \in Range(at1)
      BY <1>8, <2>6, <2>7 DEF Range
    <3>4. \A i \in 1..n + 1 : i \in 1..n \/ i = n + 1
      BY <1>3
    <3>5. \A i \in 1..n : i \in 1..n + 1
      BY <1>3
    <3>6. n + 1 \in 1..n + 1 /\ Store!Told(s[n + 1])
      BY <1>3, <1>10
    <3> QED BY <1>6, <3>1, <3>2, <3>3, <3>4, <3>5, <3>6
  <2>10. \A i, j \in 1..Len(o1) : i < j => at1[i] < at1[j]
    <3> SUFFICES ASSUME NEW i \in 1..Len(o) + 1, NEW j \in 1..Len(o) + 1, i < j
                 PROVE  at1[i] < at1[j]
      BY <2>5
    <3>1. i \in 1..Len(o) /\ at1[i] = at[i] /\ at[i] \in 1..n
      BY <1>6, <1>8, <2>7
    <3>2. CASE j = Len(o) + 1
      BY <1>3, <2>7, <3>1, <3>2
    <3>3. CASE j \in 1..Len(o)
      BY <1>6, <2>7, <3>1, <3>3
    <3> QED BY <2>8, <3>2, <3>3
  <2>11. \A i \in 1..Len(o1) : InOrder(o1)[i] = Store!Entry(s[at1[i]])
    <3> SUFFICES ASSUME NEW i \in 1..Len(o) + 1 PROVE InOrder(o1)[i] = Store!Entry(s[at1[i]])
      BY <2>5
    <3>1. CASE i = Len(o) + 1
      BY <1>3, <2>1, <2>5, <2>7, <3>1
    <3>2. CASE i \in 1..Len(o)
      BY <1>6, <2>5, <2>7, <3>2
    <3> QED BY <2>8, <3>1, <3>2
  <2>12. out'[c] = o1
    BY <2>2, <2>3
  <2>13. GotSoFar(c)'
    BY <1>4, <1>5, <1>7, <2>6, <2>9, <2>10, <2>11, <2>12 DEF GotSoFar
  <2> QED BY <1>1, <2>5, <2>12, <2>13 DEF SoFar, At
<1> QED BY <1>3, <1>9, <1>10

\* A list of names gets past a record: with a new name, or without one.
LEMMA ListPassed ==
    ASSUME HandlersOK, ResultsOK, NEW c \in Clients, SoFar(c), ListName(c)
    PROVE  SoFar(c)'
<1>1. /\ AtItem(c, "names") /\ pc[c] = "work" /\ call[c].op = "names" /\ pos[c] \in Nat \ {0}
      /\ ListedSoFar(c) /\ UNCHANGED <<tree, pc, call, items, answer>> /\ pos' = [pos EXCEPT ![c] = @ + 1]
  BY AtMember DEF ListName, SoFar, AtItem, At, Past, store
<1>2. PICK T : out[c] \in Seq(T)
  BY DEF SoFar
<1>3. PICK q, s, o, n : /\ q = call[c] /\ s = items[c] /\ o = out[c]
                        /\ n = pos[c] - 1 /\ n \in Nat /\ o \in Seq(T)
  BY <1>1, <1>2
<1>4. call'[c] = q /\ items'[c] = s /\ pos'[c] - 1 = n + 1
  BY <1>1, <1>3 DEF HandlersOK
<1>5. PICK E : E = Entry(q, s[n + 1])
  OBVIOUS
<1>6. Range(o) = NamesOf(q, s, n) /\ IsInjective(o)
  BY <1>1, <1>3 DEF ListedSoFar
<1>7. NamesOf(q, s, n + 1) = NamesOf(q, s, n) \cup E
  <2>1. \A i \in 1..n + 1 : i \in 1..n \/ i = n + 1
    BY <1>3
  <2>2. (\A i \in 1..n : i \in 1..n + 1) /\ n + 1 \in 1..n + 1
    BY <1>3
  <2>3. \A k, x : x \in NamesOf(q, s, k) <=> \E i \in 1..k : x \in Entry(q, s[i])
    BY DEF NamesOf
  <2> QED BY <1>5, <2>1, <2>2, <2>3
<1>8. \A x, y \in E : x = y
  BY <1>5 DEF Entry
<1>9. CASE E \ Range(o) = {}
  <2>1. out'[c] = o
    BY <1>1, <1>3, <1>5, <1>9 DEF ListName, Item
  <2>2. ListedSoFar(c)'
    BY <1>1, <1>3, <1>4, <1>6, <1>7, <1>9, <2>1 DEF ListedSoFar
  <2> QED BY <1>1, <1>3, <2>1, <2>2 DEF SoFar, At
<1>10. CASE E \ Range(o) # {}
  <2>1. PICK e \in E : e \notin Range(o) /\ out'[c] = <<e>> \o o
    <3> DEFINE new == Entry(call[c], Item(c)) \ Range(out[c])
               e0 == CHOOSE x \in new : TRUE
    <3>1. new = E \ Range(o)
      BY <1>1, <1>3, <1>5 DEF Item
    <3>2. Pushed(c, e0)
      BY <1>10, <3>1 DEF ListName
    <3>3. e0 \in new
      BY <1>10, <3>1
    <3> HIDE DEF new, e0
    <3> QED BY <1>3, <3>1, <3>2, <3>3 DEF Pushed, ResultsOK
  <2>2. PICK o1 : o1 = <<e>> \o o
    OBVIOUS
  <2>3. /\ o1 \in Seq(T \cup {e}) /\ Len(o1) = Len(o) + 1 /\ Len(o) \in Nat
        /\ o1[1] = e /\ \A i \in 2..Len(o) + 1 : o1[i] = o[i - 1]
    BY <1>3, <2>2, PushedList
  <2>4. DOMAIN o1 = 1..Len(o) + 1 /\ DOMAIN o = 1..Len(o)
    BY <1>3, <2>3
  <2>5. Range(o1) = Range(o) \cup {e}
    <3>1. \A i \in 1..Len(o) : i + 1 \in 2..Len(o) + 1 /\ o1[i + 1] = o[i]
      BY <2>3
    <3>2. \A i \in 1..Len(o) + 1 : i = 1 \/ (i \in 2..Len(o) + 1 /\ i - 1 \in 1..Len(o))
      BY <2>3
    <3>3. \A x \in Range(o1) : x \in Range(o) \cup {e}
      BY <2>3, <2>4, <3>2 DEF Range
    <3>4. \A x \in Range(o) : x \in Range(o1)
      <4> SUFFICES ASSUME NEW i \in 1..Len(o) PROVE o[i] \in Range(o1)
        BY <2>4 DEF Range
      <4>1. i + 1 \in DOMAIN o1 /\ o1[i + 1] = o[i]
        BY <2>3, <2>4, <3>1
      <4> QED BY <4>1 DEF Range
    <3>5. e \in Range(o1)
      BY <2>3, <2>4 DEF Range
    <3> QED BY <3>3, <3>4, <3>5
  <2>6. IsInjective(o1)
    <3> SUFFICES ASSUME NEW i \in 1..Len(o) + 1, NEW j \in 1..Len(o) + 1, o1[i] = o1[j] PROVE i = j
      BY <2>4 DEF IsInjective
    <3>1. \A k \in 2..Len(o) + 1 : k - 1 \in DOMAIN o /\ o1[k] = o[k - 1] /\ o1[k] \in Range(o)
      BY <2>3, <2>4 DEF Range
    <3>2. CASE i = 1 \/ j = 1
      BY <2>1, <2>3, <3>1, <3>2
    <3>3. CASE i \in 2..Len(o) + 1 /\ j \in 2..Len(o) + 1
      <4>1. i - 1 = j - 1
        BY <1>6, <3>1, <3>3 DEF IsInjective
      <4> QED BY <2>3, <3>3, <4>1
    <3> QED BY <2>3, <3>2, <3>3
  <2>7. Range(o) \cup {e} = Range(o) \cup E
    BY <1>8, <2>1
  <2>8. out'[c] = o1
    BY <2>1, <2>2
  <2>9. ListedSoFar(c)'
    BY <1>1, <1>3, <1>4, <1>6, <1>7, <2>5, <2>6, <2>7, <2>8 DEF ListedSoFar
  <2> QED BY <1>1, <2>3, <2>8, <2>9 DEF SoFar, At
<1> QED BY <1>9, <1>10

\* Nothing is listed by a request that does not ask for it.
LEMMA EmptyLists ==
    ASSUME HandlersOK, NEW c \in Clients, SoFar(c),
           \/ SetIdle(c) \/ SetKnob(c) \/ SetSync(c) \/ SpawnReset(c) \/ Update(c) \/ Reload(c)
           \/ SetSame(c) \/ AddRecord2(c) \/ AddRecord2Fails(c)
           \/ DelRecord(c) \/ DelRecordFails(c) \/ DelAgain(c)
    PROVE  SoFar(c)'
<1>1. CASE DelAgain(c)
  <2>1. pc[c] = "between" /\ pc'[c] = "acquire" /\ out' = out /\ answer' = answer
    BY <1>1 DEF DelAgain, Goto, HandlersOK, At, work
  <2> QED BY <2>1 DEF SoFar, At
<1>2. CASE ~DelAgain(c)
  <2>1. PICK op \in {"set", "del"} : AtItem(c, op)
    BY <1>2 DEF SetIdle, SetKnob, SetSync, SpawnReset, Update, Reload, SetSame, AddRecord2,
       AddRecord2Fails, DelRecord, DelRecordFails, AtCommand, AtRecord
  <2>2. pc[c] = "work" /\ call[c].op = op
    BY <2>1, AtMember
  <2>3. pc' = pc \/ AfterDel(c)
    BY <1>2 DEF SetIdle, SetKnob, SetSync, SpawnReset, Update, Reload, SetSame, AddRecord2,
       AddRecord2Fails, DelRecord, DelRecordFails
  <2>4. call' = call /\ out' = out /\ answer' = answer
    BY <1>2 DEF SetIdle, SetKnob, SetSync, SpawnReset, Update, Reload, SetSame, AddRecord2,
       AddRecord2Fails, DelRecord, DelRecordFails
  <2>5. pc'[c] \in {"work", "between"}
    BY <2>2, <2>3 DEF AfterDel, Goto, HandlersOK
  <2> QED BY <2>2, <2>4, <2>5 DEF SoFar, At
<1> QED BY <1>1, <1>2

\* A get adds what the store would tell, and a handler that fails or returns
\* leaves no list behind.
LEMMA OtherSteps ==
    ASSUME HandlersOK, RestOK, ResultsOK, NEW c \in Clients, SoFar(c),
           \/ Receive(c) \/ Taken(c) \/ AcqThreadLock(c) \/ GetOwn(c) \/ GetRecord(c) \/ GetFails(c)
           \/ Return(c) \/ ReturnFailure(c)
    PROVE  SoFar(c)'
<1>1. CASE Receive(c)
  <2>1. /\ pc[c] = "idle" /\ answer[c] = {} /\ out' = out /\ pc'[c] \in {"idle", "acquire"}
        /\ pc'[c] # "idle" => answer' = answer
    BY <1>1 DEF Receive, At, Goto, HandlersOK
  <2> QED BY <2>1 DEF SoFar, At
<1>2. CASE Taken(c)
  <2>1. answer[c] # {} /\ UNCHANGED <<pc, call, out>>
    BY <1>2 DEF Taken, work
  <2>2. pc[c] = "idle"
    BY <2>1 DEF SoFar
  <2> QED BY <2>1, <2>2 DEF SoFar, At
<1>3. CASE AcqThreadLock(c)
  <2>1. /\ pc[c] = "acquire" /\ pc'[c] = "work" /\ UNCHANGED <<tree, call, pos, out, answer>>
        /\ Fine(pc[c], call[c], items[c], pos[c], lost[c])
    BY <1>3 DEF AcqThreadLock, At, Goto, HandlersOK, store
  <2>2. out[c] = <<>> /\ answer[c] = {}
    BY <2>1 DEF SoFar, At
  <2>3. call[c].op \in {"get", "names"} => pos[c] = 1
    BY <2>1 DEF Fine
  <2>4. ASSUME call[c].op = "get" PROVE GotSoFar(c)'
    <3>1. pos'[c] - 1 = 0 /\ out'[c] = <<>>
      BY <2>1, <2>2, <2>3, <2>4
    <3> DEFINE at == [i \in 1..0 |-> 0]
    <3>2. at \in [1..Len(out'[c]) -> 1..0] /\ Range(at) = {} /\ 1..Len(out'[c]) = {} /\ 1..0 = {}
      BY <3>1 DEF Range
    <3> HIDE DEF at
    <3> QED BY <3>1, <3>2 DEF GotSoFar
  <2>5. ASSUME call[c].op = "names" PROVE ListedSoFar(c)'
    <3>1. PICK s \in Enumerations({n \in Names : tree[n] # Absent}) : items'[c] = s
      BY <1>3, <2>5 DEF AcqThreadLock, Listed, HandlersOK
    <3>2. Range(s) = {n \in Names : tree[n] # Absent}
      BY <3>1, EnumeratesAll
    <3>3. pos'[c] - 1 = 0 /\ out'[c] = <<>>
      BY <2>1, <2>2, <2>3, <2>5
    <3>4. \A q, l : NamesOf(q, l, 0) = {}
      BY DEF NamesOf
    <3>5. Range(<<>>) = {} /\ IsInjective(<<>>)
      BY DEF Range, IsInjective
    <3> QED BY <2>1, <3>1, <3>2, <3>3, <3>4, <3>5 DEF ListedSoFar
  <2> QED BY <2>1, <2>2, <2>4, <2>5 DEF SoFar, At
<1>4. CASE GetOwn(c)
  <2>1. /\ AtItem(c, "get") /\ Item(c) \in Answered /\ Past(c)
        /\ Pushed(c, [name |-> Item(c), rec |-> CommParam(Item(c))])
        /\ pc' = pc /\ call' = call /\ items' = items /\ answer' = answer /\ StoreStill
    BY <1>4 DEF GetOwn, StoreStill, store, own
  <2>2. /\ ~Store!Missing(Item(c)) /\ Store!Told(Item(c))
        /\ Store!Entry(Item(c)) = [name |-> Item(c), rec |-> CommParam(Item(c))]
    BY <2>1 DEF Store!Missing, Store!Told, Store!Entry, Store!Lookup, Special
  <2> QED BY <2>1, <2>2, GetPassed
<1>5. CASE GetRecord(c)
  <2>1. /\ AtItem(c, "get") /\ Item(c) \notin Answered /\ tree[Item(c)] # Absent /\ Past(c)
        /\ IF tree[Item(c)].val = "" THEN out' = out
           ELSE Pushed(c, [name |-> Item(c), rec |-> tree[Item(c)]])
        /\ pc' = pc /\ call' = call /\ items' = items /\ answer' = answer /\ StoreStill
    BY <1>5 DEF GetRecord, StoreStill, store, own
  <2>2. /\ ~Store!Missing(Item(c)) /\ (Store!Told(Item(c)) <=> tree[Item(c)].val # "")
        /\ Store!Entry(Item(c)) = [name |-> Item(c), rec |-> tree[Item(c)]]
    BY <2>1 DEF Store!Missing, Store!Told, Store!Entry, Store!Lookup
  <2> QED BY <2>1, <2>2, GetPassed
<1>6. CASE GetFails(c)
  <2>1. pc[c] = "work" /\ pc'[c] = "failed" /\ out' = out /\ answer' = answer
    BY <1>6 DEF GetFails, AtItem, At, Goto, HandlersOK, work
  <2> QED BY <2>1 DEF SoFar, At
<1>7. CASE Return(c) \/ ReturnFailure(c)
  <2>1. pc'[c] = "idle" /\ out'[c] = <<>>
    BY <1>7 DEF Return, ReturnFailure, Idle, Goto, HandlersOK, ResultsOK
  <2>2. <<>> \in Seq({})
    OBVIOUS
  <2> QED BY <2>1, <2>2 DEF SoFar, At
<1> QED BY <1>1, <1>2, <1>3, <1>4, <1>5, <1>6, <1>7

LEMMA SoFarStep ==
    ASSUME HandlersOK, RestOK, ResultsOK, OneWorks, IdleBefore, Next, NEW c \in Clients, SoFar(c)
    PROVE  SoFar(c)'
<1>1. CASE Gone
  <2>1. pc'[c] = "idle" /\ out'[c] = <<>> /\ answer'[c] = {}
    BY <1>1 DEF Gone
  <2>2. <<>> \in Seq({})
    OBVIOUS
  <2> QED BY <2>1, <2>2 DEF SoFar, At
<1>2. CASE ~Gone /\ ~OwnStep(c)
  BY <1>2, OthersKeep, StillAtWork, KeptSoFar
<1>3. CASE OwnStep(c)
  BY <1>3, EmptyLists, OtherSteps, ListPassed DEF OwnStep
<1> QED BY <1>1, <1>2, <1>3

LEMMA ResultsStep == ASSUME ResultsOK, Next PROVE ResultsOK'
<1>1. CASE \/ Engage \/ PsmDbusInit \/ PsmRbusInit \/ Flush \/ ResetTask \/ Term \/ Die
           \/ \E c \in Clients : Receive(c) \/ Taken(c) \/ AcqThreadLock(c) \/ Crash(c)
  BY <1>1 DEF Engage, PsmDbusInit, PsmRbusInit, Advances, Flush, ResetTask, Term, Die, Crash, Gone,
     Receive, Taken, AcqThreadLock, ResultsOK, work
<1>2. ASSUME NEW c \in Clients,
             \/ SetIdle(c) \/ SetKnob(c) \/ SetSync(c) \/ SpawnReset(c) \/ Update(c) \/ Reload(c)
             \/ SetSame(c) \/ AddRecord2(c) \/ AddRecord2Fails(c)
             \/ DelRecord(c) \/ DelRecordFails(c)
      PROVE  ResultsOK'
  BY <1>2 DEF SetIdle, SetKnob, SetSync, SpawnReset, Update, Reload, SetSame, AddRecord2,
     AddRecord2Fails, DelRecord, DelRecordFails, ResultsOK
<1>3. ASSUME NEW c \in Clients,
             \/ DelAgain(c) \/ GetOwn(c) \/ GetRecord(c) \/ GetFails(c) \/ ListName(c)
             \/ Return(c) \/ ReturnFailure(c)
      PROVE  ResultsOK'
  BY <1>3 DEF DelAgain, GetOwn, GetRecord, GetFails, ListName, Pushed, Return, ReturnFailure, Idle,
     ResultsOK, work
<1> QED BY <1>1, <1>2, <1>3, NextActions

\* Everything that the steps to the store rest on.
Inv == /\ HandlersOK /\ RestOK /\ OneWorks /\ IdleBefore /\ ResultsOK
       /\ \A c \in Clients : SoFar(c)

LEMMA InvInit == Init => Inv
<1> SUFFICES ASSUME Init PROVE Inv
  OBVIOUS
<1>1. HandlersOK /\ RestOK
  BY HandlersInit, RestInit
<1>2. OneWorks /\ IdleBefore /\ ResultsOK
  BY BusApiAssumption DEF Init, OneWorks, IdleBefore, ResultsOK
<1>3. <<>> \in Seq({})
  OBVIOUS
<1>4. \A c \in Clients : SoFar(c)
  BY <1>3 DEF Init, SoFar, At
<1> QED BY <1>1, <1>2, <1>4 DEF Inv

LEMMA InvStep == ASSUME ForeignUnlock = FALSE, Inv, [Next]_vars PROVE Inv'
<1>1. CASE Next
  <2>1. HandlersOK' /\ RestOK' /\ OneWorks' /\ IdleBefore' /\ ResultsOK'
    BY <1>1, HandlersStep, RestStep, OneWorksStep, IdleBeforeStep, ResultsStep DEF Inv
  <2>2. \A c \in Clients : SoFar(c)'
    BY <1>1, SoFarStep DEF Inv
  <2> QED BY <2>1, <2>2 DEF Inv
<1>2. CASE UNCHANGED vars
  <2>1. UNCHANGED <<stage, tree, ThreadLock, pc, call, items, pos, out, answer, knobs, FileSyncRefCount>>
    BY <1>2 DEF vars, work, store, own
  <2>2. HandlersOK' /\ RestOK' /\ OneWorks' /\ IdleBefore' /\ ResultsOK'
    BY <1>2, <2>1, PartsStuttered DEF Inv, OneWorks, IdleBefore, ResultsOK
  <2>3. \A c \in Clients : SoFar(c)'
    BY <2>1, KeptSoFar DEF Inv, Keeps, StoreStill
  <2> QED BY <2>2, <2>3 DEF Inv
<1> QED BY <1>1, <1>2

-----------------------------------------------------------------------------
(* Each step is a step of the store, or none                               *)

LEMMA ServingIs == RestOK => (Serving <=> stage \in {"green", "all"})
BY DEF RestOK, Serving, g_psmHealth

LEMMA ServingStill == stage' = stage => Serving' = Serving
BY DEF Serving, g_psmHealth

LEMMA PromisedStill ==
    ASSUME \A c \in Clients :
              /\ pc'[c] = "failed" <=> pc[c] = "failed"
              /\ pc[c] = "failed" => call'[c] = call[c]
              /\ pc[c] # "failed" => answer'[c] = answer[c]
    PROVE  Promised' = Promised
BY DEF Promised, At, FailureReply, Reply

LEMMA SpecialStill == knobs' = knobs /\ FileSyncRefCount' = FileSyncRefCount => Special' = Special
<1> SUFFICES ASSUME knobs' = knobs, FileSyncRefCount' = FileSyncRefCount PROVE Special' = Special
  OBVIOUS
<1>1. ASSUME NEW m PROVE CommParam(m)' = CommParam(m)
  BY DEF CommParam
<1> QED BY <1>1 DEF Special

\* The steps that tell nobody anything.
LEMMA TellsNothing ==
    ASSUME HandlersOK, NEW c \in Clients,
           \/ AcqThreadLock(c)
           \/ SetIdle(c) \/ SetKnob(c) \/ SetSync(c) \/ SpawnReset(c) \/ Update(c) \/ Reload(c)
           \/ SetSame(c) \/ AddRecord2(c) \/ AddRecord2Fails(c)
           \/ DelRecord(c) \/ DelRecordFails(c) \/ DelAgain(c)
           \/ GetOwn(c) \/ GetRecord(c) \/ ListName(c)
    PROVE  Promised' = Promised /\ Serving' = Serving
<1>1. call' = call /\ answer' = answer /\ stage' = stage
  BY DEF AcqThreadLock, SetIdle, SetKnob, SetSync, SpawnReset, Update, Reload, SetSame, AddRecord2,
     AddRecord2Fails, DelRecord, DelRecordFails, DelAgain, GetOwn, GetRecord, ListName, work
<1>2. pc' = pc \/ (pc[c] # "failed" /\ \E l \in {"work", "between", "acquire"} : Goto(c, l))
  BY DEF AcqThreadLock, SetIdle, SetKnob, SetSync, SpawnReset, Update, Reload, SetSame, AddRecord2,
     AddRecord2Fails, DelRecord, DelRecordFails, DelAgain, GetOwn, GetRecord, ListName, AtItem, At,
     AfterDel
<1>3. \A d \in Clients : pc'[d] = "failed" <=> pc[d] = "failed"
  BY <1>2 DEF Goto, HandlersOK
<1> QED BY <1>1, <1>3, PromisedStill, ServingStill

LEMMA QuietSteps ==
    ASSUME HandlersOK, NEW c \in Clients,
           \/ AcqThreadLock(c) \/ SetIdle(c) \/ SpawnReset(c) \/ Update(c)
           \/ SetSame(c) \/ AddRecord2Fails(c) \/ DelRecordFails(c) \/ DelAgain(c)
           \/ GetOwn(c) \/ GetRecord(c) \/ ListName(c)
    PROVE  UNCHANGED Store!vars
<1>1. tree' = tree /\ saved' = saved /\ knobs' = knobs /\ FileSyncRefCount' = FileSyncRefCount
  BY DEF AcqThreadLock, SetIdle, SpawnReset, Update, SetSame, AddRecord2Fails, DelRecordFails,
     DelAgain, GetOwn, GetRecord, ListName, store, own
<1>2. Promised' = Promised /\ Serving' = Serving
  BY TellsNothing
<1> QED BY <1>1, <1>2, SpecialStill DEF Store!vars

\* A member of a set that is one of PSM's own parameters.
LEMMA KnobSteps ==
    ASSUME Inv, NEW c \in Clients, SetKnob(c) \/ SetSync(c)
    PROVE  Store!Next
<1> USE DEF Inv
<1>1. tree' = tree /\ saved' = saved /\ Promised' = Promised /\ Serving' = Serving
  BY TellsNothing DEF SetKnob, SetSync, store
<1>2. Serving
  <2>1. pc[c] = "work"
    BY DEF SetKnob, SetSync, AtItem, At
  <2> QED BY <2>1, ServingIs DEF IdleBefore
<1>3. PICK n \in Answered : \A m \in Answered : m # n => CommParam(m)' = CommParam(m)
  <2>1. CASE SetSync(c)
    <3>1. knobs' = knobs
      BY <2>1 DEF SetSync
    <3>2. \A m : m # DisableWriting => CommParam(m)' = CommParam(m)
      BY <3>1 DEF CommParam
    <3> QED BY <3>2 DEF Answered, Handled
  <2>2. CASE SetKnob(c)
    <3>1. PICK n : n = Item(c).name
      OBVIOUS
    <3>2. n \in Knobs /\ FileSyncRefCount' = FileSyncRefCount /\ \A m \in Knobs : m # n => knobs'[m] = knobs[m]
      BY <2>2, <3>1 DEF SetKnob, RestOK
    <3>3. \A m \in Answered : m # n => CommParam(m)' = CommParam(m)
      BY <3>2 DEF CommParam, Answered, Handled, Knobs
    <3> QED BY <3>2, <3>3 DEF Answered, Handled
  <2> QED BY <2>1, <2>2
<1>4. Special' = [Special EXCEPT ![n] = Special'[n]]
  BY <1>3 DEF Special
<1>5. Store!Switch(n)
  BY <1>1, <1>2, <1>4 DEF Store!Switch
<1> QED BY <1>5 DEF Store!Next

\* A record set or deleted.
LEMMA ChangeSteps ==
    ASSUME Inv, NEW c \in Clients, AddRecord2(c) \/ DelRecord(c)
    PROVE  Store!Next
<1> USE DEF Inv
<1>1. Promised' = Promised /\ Serving' = Serving
  BY TellsNothing
<1>2. saved' = saved /\ Special' = Special
  BY SpecialStill DEF AddRecord2, DelRecord, own
<1>3. pc[c] = "work" /\ Serving
  <2>1. pc[c] = "work"
    BY DEF AddRecord2, DelRecord, AtRecord, AtItem, At
  <2> QED BY <2>1, ServingIs DEF IdleBefore
<1>4. PICK n \in Names, r \in Records \cup {Absent} : tree' = [tree EXCEPT ![n] = r]
  <2>1. CASE AddRecord2(c)
    BY <2>1, ItemRecord DEF AddRecord2
  <2>2. CASE DelRecord(c)
    <3>1. Item(c) \in Names
      BY <2>2, AtMember DEF DelRecord, Item
    <3> QED BY <2>2, <3>1 DEF DelRecord
  <2> QED BY <2>1, <2>2
<1>5. Store!Change(n)
  BY <1>1, <1>2, <1>3, <1>4 DEF Store!Change
<1> QED BY <1>5 DEF Store!Next

\* The store merges, cuts and loads as the handlers do.
LEMMA SameOver == \A f, g : Store!Over(f, g) = Over(f, g)
BY DEF Store!Over, Over

LEMMA SameNothing == Store!Nothing = Nothing
BY DEF Store!Nothing, Nothing

LEMMA SameLeftBy == \A f, before : Store!LeftBy(f, before) = LeftBy(f, before)
<1>1. \A f : Store!Cuts(f) = Cuts(f)
  BY DEF Store!Cuts, Cuts
<1> QED BY <1>1 DEF Store!LeftBy, LeftBy

LEMMA SameLoad == ASSUME NEW kept, Load(kept) PROVE Store!Load(kept)
<1>1. PICK d \in {Defaults} \cup (IF Faults THEN {Nothing} ELSE {}) :
          \/ saved' = Over(kept, d) /\ tree' = Over(Over(kept, d), tree)
          \/ saved' \in LeftBy(Over(kept, d), kept) /\ UNCHANGED tree
  BY DEF Load
<1>2. d \in {Defaults} \cup (IF Faults THEN {Store!Nothing} ELSE {})
  BY SameNothing
<1>3. \/ saved' = Store!Over(kept, d) /\ tree' = Store!Over(Store!Over(kept, d), tree)
      \/ saved' \in Store!LeftBy(Store!Over(kept, d), kept) /\ UNCHANGED tree
  BY <1>1, SameOver, SameLeftBy
<1> QED BY <1>2, <1>3 DEF Store!Load

\* The process: how it comes up, its timer and its reset task, its end.
LEMMA ProcessSteps ==
    ASSUME Inv, Engage \/ PsmDbusInit \/ PsmRbusInit \/ Flush \/ ResetTask
    PROVE  Store!Next \/ UNCHANGED Store!vars
<1> USE DEF Inv
<1>1. Special' = Special
  BY SpecialStill DEF Engage, PsmDbusInit, PsmRbusInit, Advances, Flush, ResetTask, own
<1>2. Promised' = Promised
  <2>1. pc' = pc /\ call' = call /\ answer' = answer
    BY DEF Engage, PsmDbusInit, PsmRbusInit, Advances, Flush, ResetTask, work
  <2> QED BY <2>1, PromisedStill
<1>3. CASE Engage
  <2>1. Serving' = Serving
    BY <1>3 DEF Engage, Serving, g_psmHealth
  <2>2. ~Serving /\ Store!Load(saved)
    BY <1>3, SameLoad DEF Engage, Serving, g_psmHealth
  <2> QED BY <1>1, <1>2, <2>1, <2>2 DEF Store!Start, Store!Next
<1>4. CASE PsmDbusInit \/ PsmRbusInit
  <2>1. saved' = saved /\ tree' = tree
    BY <1>4 DEF PsmDbusInit, PsmRbusInit, Advances, store
  <2>2. Serving' = Serving \/ Serving' = TRUE
    BY <1>4 DEF PsmDbusInit, PsmRbusInit, Advances, Serving, g_psmHealth
  <2> QED BY <1>1, <1>2, <2>1, <2>2 DEF Store!Serve, Store!Next, Store!vars
<1>5. CASE Flush
  <2>1. Serving' = Serving
    BY <1>5, ServingStill DEF Flush
  <2>2. saved' \in {tree} \cup Store!LeftBy(tree, saved) /\ tree' = tree
    BY <1>5, SameLeftBy DEF Flush
  <2> QED BY <1>1, <1>2, <2>1, <2>2 DEF Store!Keep, Store!Next
<1>6. CASE ResetTask
  <2>1. Serving' = Serving
    BY <1>6, ServingStill DEF ResetTask
  <2> QED BY <1>1, <1>2, <1>6, <2>1, SameNothing DEF ResetTask, Store!Reset, Store!Next
<1> QED BY <1>3, <1>4, <1>5, <1>6

LEMMA EndSteps ==
    ASSUME Term \/ Die \/ \E c \in Clients : Crash(c)
    PROVE  Store!Next
<1>1. Gone /\ saved' \in {saved, tree} \cup Store!LeftBy(tree, saved)
  BY SameLeftBy DEF Term, Die, Crash
<1>2. tree' = Store!Nothing /\ DOMAIN Special' = Answered
  BY <1>1 DEF Gone, Nothing, Store!Nothing, Special
<1>3. Serving' = FALSE
  BY <1>1 DEF Gone, Serving, g_psmHealth
<1>4. Promised' = [c \in Clients |-> {}]
  BY <1>1 DEF Gone, Promised, At
<1> QED BY <1>1, <1>2, <1>3, <1>4 DEF Store!End, Store!Next

\* One client's promise changes.
LEMMA PromisedMoves ==
    ASSUME NEW c \in Clients, NEW X,
           (IF pc'[c] = "failed" THEN {FailureReply(call'[c])} ELSE answer'[c]) = X,
           \A d \in Clients : d # c => Keeps(d)
    PROVE  Promised' = [Promised EXCEPT ![c] = X]
BY DEF Promised, At, Keeps, FailureReply, Reply

\* A request comes in, or its answer is taken.
LEMMA EndsOfRequests ==
    ASSUME Inv, NEW c \in Clients, Receive(c) \/ Taken(c)
    PROVE  Store!Next \/ UNCHANGED Store!vars
<1> USE DEF Inv
<1>1. UNCHANGED <<tree, saved>> /\ Special' = Special /\ Serving' = Serving
  BY SpecialStill, ServingStill DEF Receive, Taken, own, store
<1>2. CASE Taken(c)
  <2>1. /\ UNCHANGED <<pc, call, items, pos, out>> /\ answer[c] # {}
        /\ answer' = [answer EXCEPT ![c] = {}]
    BY <1>2 DEF Taken, work
  <2>2. pc[c] = "idle"
    BY <2>1 DEF SoFar
  <2>3. \A d \in Clients : d # c => Keeps(d)
    BY <2>1 DEF Keeps, ResultsOK
  <2>4. Promised' = [Promised EXCEPT ![c] = {}]
    BY <2>1, <2>2, <2>3, PromisedMoves DEF ResultsOK
  <2>5. Promised[c] # {}
    BY <2>1, <2>2 DEF Promised, At
  <2>6. Store!Take(c)
    BY <1>1, <2>4, <2>5 DEF Store!Take
  <2> QED BY <2>6 DEF Store!Next
<1>3. CASE Receive(c)
  <2>1. PICK q \in Calls :
            /\ pc[c] = "idle" /\ answer[c] = {}
            /\ IF Serving
               THEN /\ Goto(c, "acquire") /\ call' = [call EXCEPT ![c] = q]
                    /\ UNCHANGED answer
               ELSE /\ answer' = [answer EXCEPT ![c] = {Reply(q, "failure", <<>>)}]
                    /\ UNCHANGED <<pc, call, items>>
            /\ UNCHANGED <<pos, out>>
    BY <1>3 DEF Receive, At, Serving
  <2>2. CASE Serving
    <3>1. \A d \in Clients : /\ pc'[d] = "failed" <=> pc[d] = "failed"
                             /\ pc[d] = "failed" => call'[d] = call[d]
      BY <2>1, <2>2 DEF Goto, HandlersOK
    <3>2. Promised' = Promised
      BY <2>1, <2>2, <3>1, PromisedStill
    <3> QED BY <1>1, <3>2 DEF Store!vars
  <2>3. CASE ~Serving
    <3> DEFINE a == Reply(q, "failure", <<>>)
    <3>1. \A d \in Clients : d # c => Keeps(d)
      BY <2>1, <2>3 DEF Keeps, ResultsOK
    <3>2. Promised' = [Promised EXCEPT ![c] = {a}]
      BY <2>1, <2>3, <3>1, PromisedMoves DEF ResultsOK
    <3>3. Promised[c] = {} /\ a \in Promised'[c]
      BY <2>1, <3>2 DEF Promised, At
    <3>4. a.call = q /\ a = Store!Reply(a.call, "failure", <<>>)
      BY DEF Reply, Store!Reply
    <3> HIDE DEF a
    <3>5. Store!Answer(c, a)
      BY <1>1, <2>3, <3>2, <3>3, <3>4 DEF Store!Answer
    <3> QED BY <3>3, <3>5 DEF Store!Next
  <2> QED BY <2>2, <2>3
<1> QED BY <1>2, <1>3

\* A place in a list for each result, in ascending order: no more results than
\* members.
LEMMA NoMoreThanMembers ==
    ASSUME NEW k \in Nat, NEW n \in Nat, NEW at \in [1..k -> 1..n],
           \A i, j \in 1..k : i < j => at[i] < at[j]
    PROVE  k \in 0..n
<1>1. \A i, j \in 1..k : at[i] = at[j] => i = j
  <2> SUFFICES ASSUME NEW i \in 1..k, NEW j \in 1..k, at[i] = at[j], i # j PROVE FALSE
    OBVIOUS
  <2>1. i < j \/ j < i
    OBVIOUS
  <2>2. at[i] < at[j] \/ at[j] < at[i]
    BY <2>1
  <2> QED BY <2>2
<1>2. at \in Injection(1..k, 1..n)
  BY <1>1 DEF Injection, IsInjective
<1>3. /\ IsFiniteSet(1..n) /\ Cardinality(1..n) = IF 1 > n THEN 0 ELSE n - 1 + 1
      /\ Cardinality(1..k) = IF 1 > k THEN 0 ELSE k - 1 + 1
  BY FS_Interval
<1>4. Cardinality(1..k) <= Cardinality(1..n)
  BY <1>2, <1>3, FS_Injection
<1> QED BY <1>3, <1>4

\* What a handler that has been through its list has is what the store tells.
LEMMA RightGet ==
    ASSUME Inv, NEW c \in Clients, pc[c] = "work", call[c].op = "get", pos[c] > Len(items[c])
    PROVE  Store!Right(call[c], Reply(call[c], "success", Result(call[c], out[c])))
<1> USE DEF Inv
<1>1. PICK q, o, s : q = call[c] /\ o = out[c] /\ s = items[c]
  OBVIOUS
<1>2. /\ q \in Calls /\ q.op = "get" /\ q.via \in Buses /\ s = Given(q) /\ s \in Seq(Members)
      /\ pos[c] - 1 = Len(s) /\ GotSoFar(c)
  <2>1. Fine("work", q, s, pos[c], lost[c]) /\ GotSoFar(c)
    BY <1>1 DEF HandlersOK, SoFar, At
  <2>2. q \in Calls /\ s \in Seq(Members) /\ s = Given(q) /\ pos[c] \in Nat /\ pos[c] <= Len(s) + 1
    BY <1>1, <2>1 DEF Fine
  <2> QED BY <1>1, <2>1, <2>2, GivenType
<1>3. s = q.names /\ Len(s) \in Nat /\ DOMAIN s = 1..Len(s)
  BY <1>2 DEF Given
<1>4. \A i \in 1..Len(s) : ~Store!Missing(s[i])
  BY <1>1, <1>2 DEF GotSoFar
<1>5. PICK at \in [1..Len(o) -> 1..Len(s)] :
            /\ Range(at) = {i \in 1..Len(s) : Store!Told(s[i])}
            /\ \A i, j \in 1..Len(o) : i < j => at[i] < at[j]
            /\ \A i \in 1..Len(o) : InOrder(o)[i] = Store!Entry(s[at[i]])
  BY <1>1, <1>2 DEF GotSoFar
<1>6. PICK T : o \in Seq(T)
  BY <1>1 DEF SoFar
<1>7. Len(o) \in 0..Len(s)
  <2>1. Len(o) \in Nat
    BY <1>6
  <2> QED BY <1>3, <1>5, <2>1, NoMoreThanMembers
<1>8. at \in Store!Places(q.names)
  <2>1. at \in UNION {[1..k -> DOMAIN s] : k \in 0..Len(s)}
    BY <1>3, <1>5, <1>7
  <2>2. Range(at) = {i \in DOMAIN s : Store!Told(s[i])} /\ DOMAIN at = 1..Len(o)
    BY <1>3, <1>5
  <2>3. Store!Range(at) = Range(at)
    BY DEF Store!Range, Range
  <2> QED BY <1>3, <1>5, <2>1, <2>2, <2>3 DEF Store!Places
<1>9. InOrder(o) = [i \in DOMAIN at |-> Store!Entry(q.names[at[i]])]
  <2>1. InOrder(o) = [i \in DOMAIN o |-> InOrder(o)[i]] /\ DOMAIN o = 1..Len(o)
    BY <1>6 DEF InOrder
  <2>2. DOMAIN at = 1..Len(o)
    BY <1>5
  <2> QED BY <1>3, <1>5, <2>1, <2>2
<1>10. PICK told : told = InOrder(o)
  OBVIOUS
<1>11. Result(q, o) = Store!Carried(q, told)
  BY <1>2, <1>10 DEF Result, Store!Carried, Buses
<1>12. Store!GetAnswer(q, Store!Reply(q, "success", Store!Carried(q, told)))
  <2>1. ~\E i \in DOMAIN q.names : Store!Missing(q.names[i])
    BY <1>3, <1>4
  <2>2. told = [i \in DOMAIN at |-> Store!Entry(q.names[at[i]])]
    BY <1>9, <1>10
  <2> QED BY <1>8, <2>1, <2>2 DEF Store!GetAnswer
<1> QED BY <1>1, <1>2, <1>11, <1>12 DEF Store!Right, Reply, Store!Reply

LEMMA RightNames ==
    ASSUME Inv, NEW c \in Clients, pc[c] = "work", call[c].op = "names", pos[c] > Len(items[c])
    PROVE  Store!Right(call[c], Reply(call[c], "success", Result(call[c], out[c])))
<1> USE DEF Inv
<1>1. PICK q, o, s : q = call[c] /\ o = out[c] /\ s = items[c]
  OBVIOUS
<1>2. /\ q \in Calls /\ q.op = "names" /\ s \in Seq(Names)
      /\ pos[c] - 1 = Len(s) /\ ListedSoFar(c)
  <2>1. Fine("work", q, s, pos[c], lost[c]) /\ ListedSoFar(c)
    BY <1>1 DEF HandlersOK, SoFar, At
  <2>2. q \in Calls /\ s \in Seq(Names) /\ pos[c] \in Nat /\ pos[c] <= Len(s) + 1
    BY <1>1, <2>1 DEF Fine
  <2> QED BY <1>1, <2>1, <2>2
<1>3. /\ Range(s) = {n \in Names : tree[n] # Absent}
      /\ Range(o) = NamesOf(q, s, Len(s)) /\ IsInjective(o)
  BY <1>1, <1>2 DEF ListedSoFar
<1>4. q.prefix \in Seq(STRING) /\ q.nextLevel \in BOOLEAN
  BY <1>2, BusApiAssumption DEF Requests
<1>5. Range(o) = UNION {Entry(q, n) : n \in {m \in Names : tree[m] # Absent}}
  <2>1. DOMAIN s = 1..Len(s)
    BY <1>2
  <2>2. \A x : x \in NamesOf(q, s, Len(s)) <=> \E n \in Range(s) : x \in Entry(q, n)
    BY <2>1 DEF NamesOf, Range
  <2> QED BY <1>3, <2>2
<1>6. Range(o) = Store!NamesBelow(q)
  <2> DEFINE children(n) == {m \in {SubSeq(n, 1, k) : k \in 1..Len(n)} : Store!IsChild(m, n, q.prefix)}
             below == {n \in Names : tree[n] # Absent /\ Store!Begins(n, q.prefix)}
  <2>1. ASSUME NEW n \in Names
        PROVE  Entry(q, n) = IF ~Store!Begins(n, q.prefix) THEN {}
                             ELSE IF q.nextLevel THEN children(n) ELSE {n}
    <3>1. n \in Seq(STRING)
      BY BusApiAssumption
    <3> QED BY <1>4, <3>1, EntryIsChildren
  <2>2. Store!NamesBelow(q) = IF q.nextLevel THEN UNION {children(n) : n \in below} ELSE below
    BY DEF Store!NamesBelow
  <2> HIDE DEF children
  <2>3. \A x : x \in Range(o) <=> \E n \in Names : tree[n] # Absent /\ x \in Entry(q, n)
    BY <1>5
  <2>4. CASE q.nextLevel
    <3>1. \A x : x \in Range(o) <=> \E n \in below : x \in children(n)
      BY <2>1, <2>3, <2>4
    <3>2. \A x : x \in UNION {children(n) : n \in below} <=> \E n \in below : x \in children(n)
      OBVIOUS
    <3> QED BY <2>2, <2>4, <3>1, <3>2
  <2>5. CASE ~q.nextLevel
    <3>1. \A x : x \in Range(o) <=> x \in below
      BY <2>1, <2>3, <2>5
    <3> QED BY <2>2, <2>5, <3>1
  <2> QED BY <2>4, <2>5
<1>7. Range(InOrder(o)) = Range(o) /\ IsInjective(InOrder(o))
  <2>1. PICK T : o \in Seq(T)
    BY <1>1 DEF SoFar
  <2>2. PICK k, r : k = Len(o) /\ r = InOrder(o) /\ k \in Nat
    BY <2>1
  <2>3. DOMAIN o = 1..k /\ DOMAIN r = 1..k /\ \A i \in 1..k : r[i] = o[k + 1 - i]
    BY <2>1, <2>2 DEF InOrder
  <2>4. \A i \in 1..k : k + 1 - i \in 1..k /\ k + 1 - (k + 1 - i) = i
    BY <2>2
  <2>5. Range(r) = Range(o)
    <3>1. \A i \in 1..k : r[i] \in Range(o)
      BY <2>3, <2>4 DEF Range
    <3>2. \A i \in 1..k : o[i] \in Range(r)
      <4> SUFFICES ASSUME NEW i \in 1..k PROVE o[i] \in Range(r)
        OBVIOUS
      <4>1. r[k + 1 - i] = o[i] /\ k + 1 - i \in DOMAIN r
        BY <2>3, <2>4
      <4> QED BY <4>1 DEF Range
    <3> QED BY <2>3, <3>1, <3>2 DEF Range
  <2>6. IsInjective(r)
    <3> SUFFICES ASSUME NEW i \in 1..k, NEW j \in 1..k, r[i] = r[j] PROVE i = j
      BY <2>3 DEF IsInjective
    <3>1. k + 1 - i = k + 1 - j
      BY <1>3, <2>3, <2>4 DEF IsInjective
    <3> QED BY <2>2, <3>1
  <2> QED BY <2>2, <2>5, <2>6
<1>8. Result(q, o) = InOrder(o)
  BY <1>2 DEF Result
<1>9. PICK r : r = InOrder(o)
  OBVIOUS
<1>10. Store!NamesAnswer(q, Store!Reply(q, "success", r))
  <2>1. Store!Range(r) = Range(r) /\ (Store!IsInjective(r) <=> IsInjective(r))
    BY DEF Store!Range, Range, Store!IsInjective, IsInjective
  <2> QED BY <1>6, <1>7, <1>9, <2>1 DEF Store!NamesAnswer, Store!Reply
<1> QED BY <1>1, <1>2, <1>8, <1>9, <1>10 DEF Store!Right, Reply, Store!Reply

LEMMA RightReturn ==
    ASSUME Inv, NEW c \in Clients, Return(c)
    PROVE  Store!Right(call[c], Reply(call[c], "success", Result(call[c], out[c])))
<1>1. pc[c] \in {"work", "between"} /\ pos[c] > Len(items[c])
  BY DEF Return
<1>2. call[c] \in Calls /\ call[c].op \in {"set", "get", "del", "names"} /\ (pc[c] = "between" => call[c].op = "del")
  <2>1. Fine(pc[c], call[c], items[c], pos[c], lost[c])
    BY DEF Inv, HandlersOK
  <2> QED BY <1>1, <2>1, GivenType DEF Fine
<1>3. CASE call[c].op \in {"set", "del"}
  <2>1. out[c] = <<>>
    BY <1>1, <1>3 DEF Inv, SoFar, At
  <2>2. Result(call[c], out[c]) = <<>>
    BY <1>3, <2>1, InOrderEmpty DEF Result
  <2> QED BY <1>3, <2>2 DEF Store!Right, Reply, Store!Reply
<1> QED BY <1>1, <1>2, <1>3, RightGet, RightNames

\* A handler returns, or fails.
LEMMA AnswerSteps ==
    ASSUME Inv, NEW c \in Clients, Return(c) \/ GetFails(c) \/ ReturnFailure(c)
    PROVE  Store!Next \/ UNCHANGED Store!vars
<1> USE DEF Inv
<1>1. UNCHANGED <<tree, saved>> /\ Special' = Special /\ Serving' = Serving
  BY SpecialStill, ServingStill DEF Return, GetFails, ReturnFailure, own, store
<1>2. \A d \in Clients : d # c => Keeps(d)
  BY DEF Return, GetFails, ReturnFailure, Idle, Goto, Keeps, ResultsOK, HandlersOK, work
<1>3. pc[c] # "idle" /\ answer[c] = {} /\ Serving /\ call[c] \in Calls
  <2>1. pc[c] # "idle"
    BY DEF Return, GetFails, ReturnFailure, AtItem, At
  <2>2. call[c] \in Calls
    BY <2>1 DEF HandlersOK, Fine
  <2> QED BY <2>1, <2>2, ServingIs DEF SoFar, IdleBefore
<1>4. ASSUME NEW a, Promised' = [Promised EXCEPT ![c] = {a}], pc[c] # "failed",
             a.call = call[c], Store!Right(call[c], a)
      PROVE  Store!Next
  <2>1. Promised[c] = {} /\ a \in Promised'[c]
    BY <1>3, <1>4 DEF Promised, At
  <2>2. Store!Answer(c, a)
    BY <1>1, <1>3, <1>4, <2>1 DEF Store!Answer
  <2> QED BY <2>1, <2>2 DEF Store!Next
<1>5. CASE Return(c)
  <2> DEFINE a == Reply(call[c], "success", Result(call[c], out[c]))
  <2>1. pc'[c] = "idle" /\ answer' = [answer EXCEPT ![c] = {a}] /\ pc[c] # "failed"
    BY <1>5 DEF Return, Idle, Goto, HandlersOK
  <2>2. Promised' = [Promised EXCEPT ![c] = {a}]
    BY <1>2, <2>1, PromisedMoves DEF ResultsOK
  <2>3. Store!Right(call[c], a) /\ a.call = call[c]
    BY <1>5, RightReturn DEF Reply
  <2> HIDE DEF a
  <2> QED BY <1>4, <2>1, <2>2, <2>3
<1>6. CASE GetFails(c)
  <2> DEFINE a == FailureReply(call[c])
  <2>1. /\ pc'[c] = "failed" /\ call'[c] = call[c] /\ pc[c] = "work"
        /\ AtItem(c, "get") /\ Item(c) \notin Answered /\ tree[Item(c)] = Absent
    BY <1>6 DEF GetFails, AtItem, At, Goto, HandlersOK, work
  <2>2. Promised' = [Promised EXCEPT ![c] = {a}]
    BY <1>2, <2>1, PromisedMoves
  <2>3. /\ call[c].op = "get" /\ call[c].via \in Buses /\ items[c] = call[c].names
        /\ pos[c] \in DOMAIN items[c]
    <3>1. Fine("work", call[c], items[c], pos[c], lost[c]) /\ call[c].op = "get"
      BY <2>1, AtMember DEF HandlersOK
    <3> QED BY <1>3, <2>1, <3>1, GivenType, AtMember DEF Fine, Given
  <2>4. Store!Missing(call[c].names[pos[c]])
    BY <2>1, <2>3 DEF Store!Missing, Item
  <2>5. Store!Right(call[c], a) /\ a.call = call[c]
    BY <2>3, <2>4 DEF Store!Right, Store!GetAnswer, FailureReply, Reply, Store!Reply
  <2> HIDE DEF a
  <2> QED BY <1>4, <2>1, <2>2, <2>5
<1>7. CASE ReturnFailure(c)
  <2>1. pc[c] = "failed" /\ pc'[c] = "idle" /\ answer'[c] = {FailureReply(call[c])}
    BY <1>7 DEF ReturnFailure, Idle, Goto, At, HandlersOK, ResultsOK
  <2>2. Promised'[c] = Promised[c]
    BY <2>1 DEF Promised, At
  <2>3. Promised' = [Promised EXCEPT ![c] = {FailureReply(call[c])}]
    BY <1>2, <2>1, PromisedMoves
  <2>4. Promised' = Promised
    BY <2>2, <2>3 DEF Promised
  <2> QED BY <1>1, <2>4 DEF Store!vars
<1> QED BY <1>5, <1>6, <1>7

LEMMA StoreStep ==
    ASSUME Inv, Next
    PROVE  Store!Next \/ UNCHANGED Store!vars
<1>1. ASSUME NEW c \in Clients, Reload(c) PROVE Store!Next \/ UNCHANGED Store!vars
  <2>1. PICK kept \in {tree} \cup Store!LeftBy(tree, saved) : Store!Load(kept)
    <3>1. PICK kept \in {tree} \cup LeftBy(tree, saved) : Load(kept)
      BY <1>1 DEF Reload
    <3> QED BY <3>1, SameLeftBy, SameLoad
  <2>2. Special' = Special
    BY <1>1, SpecialStill DEF Reload, own
  <2>3. Serving' = Serving /\ Promised' = Promised
    BY <1>1, TellsNothing DEF Inv
  <2> QED BY <2>1, <2>2, <2>3 DEF Store!Reload, Store!Next
<1> QED BY <1>1, QuietSteps, KnobSteps, ChangeSteps, ProcessSteps, EndSteps, EndsOfRequests, AnswerSteps,
           NextActions DEF Inv

LEMMA StoreStutters == ASSUME UNCHANGED vars PROVE UNCHANGED Store!vars
<1>1. UNCHANGED <<stage, tree, saved, knobs, FileSyncRefCount, pc, call, answer>>
  BY DEF vars, work, store, own
<1>2. Special' = Special /\ Serving' = Serving /\ Promised' = Promised
  BY <1>1, SpecialStill, ServingStill, PromisedStill
<1> QED BY <1>1, <1>2 DEF Store!vars

LEMMA StoreInit == Init => Store!Init
<1> SUFFICES ASSUME Init PROVE Store!Init
  OBVIOUS
<1>1. tree = Store!Nothing /\ saved = Store!Nothing /\ DOMAIN Special = Answered
  BY DEF Init, Nothing, Store!Nothing, Special
<1>2. Serving = FALSE /\ Promised = [c \in Clients |-> {}]
  BY DEF Init, Serving, g_psmHealth, Promised, At
<1> QED BY <1>1, <1>2 DEF Store!Init

\* The handlers implement the store: whatever the lists, locks and failures of
\* the two buses do, each step changes at most one record, saves the tree (in
\* part, if the save fails), loads what the files kept of it, or answers one
\* request; and each get and each list of names is answered with what all its
\* records were at one moment.
THEOREM Implements == ASSUME ForeignUnlock = FALSE PROVE Spec => Atomic
<1>1. Inv /\ [Next]_vars => [Store!Next]_(Store!vars)
  BY StoreStep, StoreStutters
<1>2. Inv /\ [Next]_vars => Inv'
  BY InvStep
<1> QED BY <1>1, <1>2, InvInit, StoreInit, PTL DEF Spec, Atomic, Store!Spec

=============================================================================
