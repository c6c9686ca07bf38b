--------------------------- MODULE SignaturesProofs ---------------------------
(***************************************************************************)
(* Theorems about Signatures, for every set of signatures, scans and       *)
(* agents: the type invariant, that no scan matches against an empty list, *)
(* and that the lock in the cache admits one loader at a time.             *)
(***************************************************************************)
EXTENDS Signatures, FiniteSetTheorems, TLAPS

\* A list that a scan has read and will store is not empty either.
NothingBlind == ScansNeverBlind /\ \A c \in Scans : scan[c] # {}

\* A request that is about to store or to answer holds a list it has read.
ListRead == \A q \in Agents : agent[q].pc \in {"storing", "releasing"} => agent[q].list \in Lists

\* As long as no load has outlived the lock, whoever loads holds it, alone.
Holding == ~overran => /\ Loading # {} => lock
                       /\ \A q, r \in Loading : q = r

\* The inductive invariant.
SignaturesInv == TypeOK /\ NothingBlind /\ ListRead /\ Holding

LEMMA ListTypes ==
  /\ {BuiltIn} \in Lists /\ {} \in Lists
  /\ NoList # {} /\ NoList \notin Lists
  BY ConstantsAssumption DEF Lists, Rows

LEMMA IdleType == Idle \in AgentState /\ Idle.pc = "idle"
  BY DEF Idle, AgentState

LEMMA ActiveTypes == /\ SUBSET Server \subseteq Lists
                     /\ TypeOK => Compiled \in Lists
  BY DEF Active, Compiled, Lists, Rows

\* The steps of the scanners and of the compiled list keep their part of the types and
\* never leave an empty list.
LEMMA ScannerSteps ==
  ASSUME SignaturesInv, [Next]_vars
  PROVE  /\ compiled' \in Lists \cup {NoList} /\ matched' \in Lists
         /\ scan' \in [Scans -> Lists \cup {NoList}]
         /\ NothingBlind'
<1> USE ListTypes, ActiveTypes DEF SignaturesInv, TypeOK, NothingBlind, ScansNeverBlind
<1>1. CASE UNCHANGED scanners
  BY <1>1 DEF scanners
<1>2. CASE ScanFromCache
  BY <1>2 DEF ScanFromCache
<1>3. ASSUME NEW c \in Scans, ScanRead(c)
      PROVE  /\ compiled' \in Lists \cup {NoList} /\ matched' \in Lists
             /\ scan' \in [Scans -> Lists \cup {NoList}]
             /\ NothingBlind'
  <2>1. CASE Usable(Compiled)
    BY <1>3, <2>1 DEF ScanRead, Usable
  <2>2. CASE ~Usable(Compiled)
    BY <1>3, <2>2 DEF ScanRead
  <2> QED
    BY <2>1, <2>2
<1>4. ASSUME NEW c \in Scans, ScanStore(c)
      PROVE  /\ compiled' \in Lists \cup {NoList} /\ matched' \in Lists
             /\ scan' \in [Scans -> Lists \cup {NoList}]
             /\ NothingBlind'
  BY <1>4 DEF ScanStore
<1>5. CASE CompiledExpires
  BY <1>5 DEF CompiledExpires
<1>6. ASSUME NEW c \in Scans, ScanLost(c)
      PROVE  /\ compiled' \in Lists \cup {NoList} /\ matched' \in Lists
             /\ scan' \in [Scans -> Lists \cup {NoList}]
             /\ NothingBlind'
  BY <1>6 DEF ScanLost
<1>7. ASSUME NEW q \in Agents, AgentStep(q) \/ AgentFails(q)
      PROVE  UNCHANGED scanners
  BY <1>7 DEF AgentStep, Ask, AddLock, ReadTable, Store, Release, AnswerAnyway, AgentFails
<1>8. ASSUME (\E r \in Rows : Edit(r)) \/ ServedExpires \/ LockExpires \/ UNCHANGED vars
      PROVE  UNCHANGED scanners
  BY <1>8 DEF Edit, ServedExpires, LockExpires, vars, scanners
<1> QED
  BY <1>1, <1>2, <1>3, <1>4, <1>5, <1>6, <1>7, <1>8 DEF Next, ScanStep

\* What the agents' requests read and write.
AgentTypes == /\ served \in Lists \cup {NoList} /\ lock \in BOOLEAN
              /\ agent \in [Agents -> AgentState]
              /\ answered \in Lists /\ overran \in BOOLEAN

\* A step that is no agent's leaves the requests alone, and may make a list or the lock
\* expire.
LEMMA OtherSteps ==
  ASSUME SignaturesInv,
         \/ \E r \in Rows : Edit(r)
         \/ \E c \in Scans : ScanStep(c) \/ ScanLost(c)
         \/ ScanFromCache \/ CompiledExpires \/ ServedExpires \/ LockExpires \/ UNCHANGED vars
  PROVE  AgentTypes' /\ ListRead' /\ Holding'
<1> USE DEF SignaturesInv, TypeOK, AgentTypes, ListRead, Holding, Loading
<1>1. CASE UNCHANGED agents
  BY <1>1 DEF agents
<1>2. CASE ServedExpires
  BY <1>2 DEF ServedExpires
<1>3. CASE LockExpires
  BY <1>3 DEF LockExpires
<1>4. ASSUME \/ \E r \in Rows : Edit(r)
             \/ \E c \in Scans : ScanStep(c) \/ ScanLost(c)
             \/ ScanFromCache \/ CompiledExpires \/ UNCHANGED vars
      PROVE  UNCHANGED agents
  BY <1>4 DEF Edit, ScanStep, ScanRead, ScanStore, ScanLost, ScanFromCache, CompiledExpires,
              vars, agents
<1> QED
  BY <1>1, <1>2, <1>3, <1>4

LEMMA AgentSteps ==
  ASSUME SignaturesInv, NEW q \in Agents, AgentStep(q) \/ AgentFails(q)
  PROVE  AgentTypes' /\ ListRead'
<1> USE ListTypes, IdleType, ActiveTypes DEF SignaturesInv, TypeOK, AgentTypes, ListRead
<1> USE DEF AgentState
<1>1. CASE Ask(q)
  BY <1>1 DEF Ask, Go
<1>2. CASE AddLock(q)
  <2>1. PICK pc \in {"loading", "waiting"} : agent' = [agent EXCEPT ![q].pc = pc]
    BY <1>2 DEF AddLock, Go
  <2>2. lock' \in BOOLEAN /\ UNCHANGED <<served, answered, overran>>
    BY <1>2 DEF AddLock
  <2> QED
    BY <2>1, <2>2
<1>3. CASE ReadTable(q)
  <2>1. PICK list \in Lists : agent' = [agent EXCEPT ![q] = [pc |-> "storing", list |-> list]]
    BY <1>3 DEF ReadTable
  <2>2. UNCHANGED <<served, lock, answered, overran>>
    BY <1>3 DEF ReadTable
  <2> QED
    BY <2>1, <2>2
<1>4. CASE Store(q)
  BY <1>4 DEF Store, Go
<1>5. CASE Release(q)
  BY <1>5 DEF Release
<1>6. CASE AnswerAnyway(q)
  BY <1>6 DEF AnswerAnyway, Answer
<1>7. CASE AgentFails(q)
  BY <1>7 DEF AgentFails
<1> QED
  BY <1>1, <1>2, <1>3, <1>4, <1>5, <1>6, <1>7 DEF AgentStep

\* Nobody begins to load while the lock is there, and who stops loading is the only one.
LEMMA HoldingStep ==
  ASSUME SignaturesInv, NEW q \in Agents, AgentStep(q) \/ AgentFails(q)
  PROVE  Holding'
<1> USE DEF SignaturesInv, TypeOK, Holding, Loading
<1> USE IdleType
<1>1. ASSUME NEW r \in Agents, r # q PROVE agent'[r] = agent[r]
  <2>1. CASE Ask(q) \/ AddLock(q)
    BY <1>1, <2>1 DEF Ask, AddLock, Go
  <2>2. CASE ReadTable(q) \/ Store(q) \/ Release(q) \/ AnswerAnyway(q) \/ AgentFails(q)
    BY <1>1, <2>2 DEF ReadTable, Store, Release, AnswerAnyway, AgentFails, Go
  <2> QED
    BY <2>1, <2>2 DEF AgentStep
<1>2. CASE Ask(q)
  <2>1. agent'[q].pc \notin {"loading", "storing", "releasing"} /\ UNCHANGED <<lock, overran>>
    BY <1>2 DEF Ask, Go, AgentState
  <2> QED
    BY <1>1, <2>1
<1>3. CASE AddLock(q)
  <2>1. CASE LockFree
    BY <1>1, <1>3, <2>1 DEF AddLock, Go, LockFree
  <2>2. CASE ~LockFree
    <3>1. agent'[q].pc = "waiting" /\ UNCHANGED <<lock, overran>>
      BY <1>3, <2>2 DEF AddLock, Go, AgentState
    <3> QED
      BY <1>1, <3>1
  <2> QED
    BY <2>1, <2>2
<1>4. CASE ReadTable(q)
  BY <1>1, <1>4 DEF ReadTable
<1>5. CASE Store(q)
  BY <1>1, <1>5 DEF Store, Go
<1>6. CASE Release(q)
  BY <1>1, <1>6 DEF Release
<1>7. CASE AnswerAnyway(q)
  BY <1>1, <1>7 DEF AnswerAnyway
<1>8. CASE AgentFails(q)
  BY <1>1, <1>8 DEF AgentFails
<1> QED
  BY <1>2, <1>3, <1>4, <1>5, <1>6, <1>7, <1>8 DEF AgentStep

\* The table and the bounds.
LEMMA TableSteps ==
  ASSUME SignaturesInv, [Next]_vars
  PROVE  /\ row' \in [Rows -> RowState] /\ updatedAt' \in [Server -> 0..MaxChanges]
         /\ changes' \in 0..MaxChanges /\ faults' \in 0..MaxFaults
<1> USE ConstantsAssumption DEF SignaturesInv, TypeOK
<1>1. ASSUME NEW r \in Rows, Edit(r)
      PROVE  /\ row' \in [Rows -> RowState] /\ updatedAt' \in [Server -> 0..MaxChanges]
             /\ changes' \in 0..MaxChanges /\ faults' \in 0..MaxFaults
  <2>1. row' \in [Rows -> RowState] /\ faults' \in 0..MaxFaults
    BY <1>1 DEF Edit, RowState
  <2>2. changes' \in 0..MaxChanges
    BY <1>1 DEF Edit
  <2>3. updatedAt' \in [Server -> 0..MaxChanges]
    BY <1>1, <2>2 DEF Edit
  <2> QED
    BY <2>1, <2>2, <2>3
<1>2. ASSUME NEW c \in Scans, ScanStep(c) \/ ScanLost(c)
      PROVE  UNCHANGED <<table, changes>> /\ faults' \in 0..MaxFaults
  BY <1>2 DEF ScanStep, ScanRead, ScanStore, ScanLost, Fault
<1>3. ASSUME NEW q \in Agents, AgentStep(q)
      PROVE  UNCHANGED <<table, changes, faults>>
  BY <1>3 DEF AgentStep, Ask, AddLock, ReadTable, Store, Release, AnswerAnyway
<1>4. ASSUME NEW q \in Agents, AgentFails(q)
      PROVE  UNCHANGED <<table, changes>> /\ faults' \in 0..MaxFaults
  BY <1>4 DEF AgentFails, Fault
<1>5. ASSUME \/ ScanFromCache \/ CompiledExpires \/ ServedExpires \/ LockExpires
             \/ UNCHANGED vars
      PROVE  UNCHANGED <<table, changes, faults>>
  BY <1>5 DEF ScanFromCache, CompiledExpires, ServedExpires, LockExpires, vars, table
<1> QED
  BY <1>1, <1>2, <1>3, <1>4, <1>5 DEF Next, table

LEMMA InvInit == Init => SignaturesInv
<1> SUFFICES ASSUME Init PROVE SignaturesInv
  OBVIOUS
<1>1. TypeOK
  <2>1. /\ row \in [Rows -> RowState] /\ updatedAt \in [Server -> 0..MaxChanges]
        /\ changes \in 0..MaxChanges /\ faults \in 0..MaxFaults
    BY ConstantsAssumption DEF Init, RowState
  <2>2. /\ agent \in [Agents -> AgentState] /\ scan \in [Scans -> Lists \cup {NoList}]
    BY IdleType DEF Init
  <2>3. lock = FALSE /\ overran = FALSE /\ compiled = NoList /\ served = NoList
        /\ matched = {BuiltIn} /\ answered = {}
    BY DEF Init
  <2> QED
    BY <2>1, <2>2, <2>3, ListTypes DEF TypeOK
<1>2. NothingBlind
  BY ListTypes DEF Init, NothingBlind, ScansNeverBlind
<1>3. ListRead /\ Holding
  BY IdleType DEF Init, ListRead, Holding, Loading
<1> QED
  BY <1>1, <1>2, <1>3 DEF SignaturesInv

LEMMA InvStep == SignaturesInv /\ [Next]_vars => SignaturesInv'
<1> SUFFICES ASSUME SignaturesInv, [Next]_vars PROVE SignaturesInv'
  OBVIOUS
<1>1. AgentTypes' /\ ListRead' /\ Holding'
  BY OtherSteps, AgentSteps, HoldingStep DEF Next
<1> QED
  BY <1>1, ScannerSteps, TableSteps DEF SignaturesInv, TypeOK, AgentTypes

-----------------------------------------------------------------------------
(* Theorems *)

\* Every state the caches, the scans and the agents reach is well typed.
THEOREM SignaturesTypeCorrect == Spec => []TypeOK
<1>1. SignaturesInv => TypeOK
  BY DEF SignaturesInv
<1> QED
  BY InvInit, InvStep, <1>1, PTL DEF Spec

\* No scan ever matches content against an empty list: nothing empty is read, stored or
\* used, whatever the table holds and whoever else stores a list meanwhile.
THEOREM NeverBlind == Spec => []ScansNeverBlind
<1>1. SignaturesInv => ScansNeverBlind
  BY DEF SignaturesInv, NothingBlind
<1> QED
  BY InvInit, InvStep, <1>1, PTL DEF Spec

\* The lock admits one loader of the agents' list at a time, unless a load outlived it.
THEOREM LockAdmitsOne == Spec => []OneLoader
<1>1. ASSUME SignaturesInv PROVE OneLoader
  <2>1. CASE overran
    BY <2>1 DEF OneLoader
  <2>2. CASE Loading = {}
    BY <2>2, FS_EmptySet DEF OneLoader
  <2>3. CASE ~overran /\ Loading # {}
    <3>1. PICK q : q \in Loading
      BY <2>3
    <3>2. Loading = {q}
      BY <1>1, <2>3, <3>1 DEF SignaturesInv, Holding
    <3> QED
      BY <3>2, FS_Singleton DEF OneLoader
  <2> QED
    BY <2>1, <2>2, <2>3
<1> QED
  BY InvInit, InvStep, <1>1, PTL DEF Spec
=============================================================================
