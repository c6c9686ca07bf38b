------------------------------- MODULE Signatures -------------------------------
(***************************************************************************)
(* The malware signatures: the table that superadmins edit, the compiled   *)
(* list the scanners keep in the cache, and the list the agents are given, *)
(* which one request at a time loads under a lock in the cache.            *)
(*                                                                         *)
(* No receiver of post_save or post_delete is connected, so that a change  *)
(* of the table leaves both lists as they are until they expire.  What a   *)
(* read of the table or of the cache returns and what is done with it are  *)
(* separate steps; expiry may come at any moment.                          *)
(***************************************************************************)
EXTENDS Integers, FiniteSets

CONSTANTS
    Static, Server,     \* MalwareSignature rows by layer
    Invalid,            \* static rows whose pattern does not compile
    BuiltIn,            \* STATIC_SIGNATURES
    ServerLimit,        \* the agents' list holds the 500 rows changed last
    NoList,             \* nothing in the cache, or nothing read
    Scans, Agents,      \* scans that match content, and requests of agents
    MaxChanges,         \* bound: changes of the table
    MaxFaults           \* bound: reads that fail and processes that are lost

ASSUME ConstantsAssumption ==
    /\ Static \cap Server = {} /\ Invalid \subseteq Static /\ BuiltIn \notin Static
    /\ IsFiniteSet(Server) /\ ServerLimit \in Nat \ {0}
    /\ NoList \notin (SUBSET (Static \cup Server)) \cup {{BuiltIn}}
    /\ MaxChanges \in Nat /\ MaxFaults \in Nat

Rows == Static \cup Server

Lists == (SUBSET Rows) \cup {{BuiltIn}}

VARIABLES
    row,        \* the table
    updatedAt,  \* MalwareSignature.updated_at of the server rows: how many changes came before
    compiled,   \* "static_signatures_compiled" in the cache
    served,     \* "active_malware_signatures_server" in the cache
    lock,       \* the lock of the agents' list is in the cache
    scan,       \* list a scan read and has not stored yet
    matched,    \* list the last scan matched content against
    agent,      \* what each request of an agent is doing
    answered,   \* list the last agent was given
    changes, faults,    \* so far
    overran     \* history: the lock expired while its list was being loaded

vars == <<row, updatedAt, compiled, served, lock, scan, matched, agent, answered, changes, faults,
          overran>>

table    == <<row, updatedAt>>
scanners == <<compiled, scan, matched>>
agents   == <<served, lock, agent, answered, overran>>

RowState == {"none", "off", "on", "gone"}

\* list is what a loader read of the table.
AgentState == [pc: {"idle", "missed", "loading", "storing", "releasing", "waiting"},
               list: Lists \cup {NoList}]

Idle == [pc |-> "idle", list |-> NoList]

\* The type invariant.
TypeOK ==
    /\ row \in [Rows -> RowState]
    /\ updatedAt \in [Server -> 0..MaxChanges]
    /\ compiled \in Lists \cup {NoList}
    /\ served \in Lists \cup {NoList}
    /\ lock \in BOOLEAN
    /\ scan \in [Scans -> Lists \cup {NoList}]
    /\ matched \in Lists
    /\ agent \in [Agents -> AgentState]
    /\ answered \in Lists
    /\ changes \in 0..MaxChanges /\ faults \in 0..MaxFaults
    /\ overran \in BOOLEAN

\* Any of the rows may be there already, created at one time; the caches are empty.
Init ==
    /\ row \in [Rows -> {"none", "on"}]
    /\ updatedAt = [v \in Server |-> 0]
    /\ compiled = NoList /\ served = NoList /\ lock = FALSE
    /\ scan = [c \in Scans |-> NoList] /\ matched = {BuiltIn}
    /\ agent = [q \in Agents |-> Idle] /\ answered = {}
    /\ changes = 0 /\ faults = 0 /\ overran = FALSE

Active(layer) == {r \in layer : row[r] = "on"}

-----------------------------------------------------------------------------
(* Superadmin *)

\* POST creates a row, PATCH switches one on or off or renames it, DELETE removes one.
Edit(r) ==
    /\ changes < MaxChanges
    /\ changes' = changes + 1
    /\ \/ row[r] = "none" /\ \E state \in {"off", "on"} : row' = [row EXCEPT ![r] = state]
       \/ row[r] = "off" /\ row' = [row EXCEPT ![r] = "on"]
       \/ row[r] = "on" /\ row' = [row EXCEPT ![r] = "off"]
       \/ row[r] \in {"off", "on"} /\ (UNCHANGED row \/ row' = [row EXCEPT ![r] = "gone"])
    /\ updatedAt' = [v \in Server |-> IF v = r THEN changes' ELSE updatedAt[v]]
    /\ UNCHANGED <<scanners, agents, faults>>

-----------------------------------------------------------------------------
(* Scanners: _load_active_signatures *)

\* Rows whose pattern does not compile are left out.
Compiled == Active(Static) \ Invalid

\* Mutant of Usable: the list is stored whatever is left of it.
UsableAny(list) == TRUE

\* `if compiled`
Usable(list) == list # {}

ScanFromCache ==
    /\ compiled # NoList
    /\ matched' = compiled
    /\ UNCHANGED <<table, compiled, scan, agents, changes, faults>>

\* The cache holds nothing, so the table is read; the built-in list stands in for one
\* that nothing is left of, and is not stored.
ScanRead(c) ==
    /\ compiled = NoList /\ scan[c] = NoList
    /\ IF Usable(Compiled)
       THEN scan' = [scan EXCEPT ![c] = Compiled] /\ UNCHANGED matched
       ELSE matched' = {BuiltIn} /\ UNCHANGED scan
    /\ UNCHANGED <<table, compiled, agents, changes, faults>>

ScanStore(c) ==
    /\ scan[c] # NoList
    /\ compiled' = scan[c] /\ matched' = scan[c]
    /\ scan' = [scan EXCEPT ![c] = NoList]
    /\ UNCHANGED <<table, agents, changes, faults>>

\* Mutant of Lapses: the list is stored without a timeout.
LapsesNever(list) == FALSE

\* Both lists live for 300 seconds.
Lapses(list) == list # NoList

CompiledExpires ==
    /\ Lapses(compiled)
    /\ compiled' = NoList
    /\ UNCHANGED <<table, scan, matched, agents, changes, faults>>

Fault == faults < MaxFaults /\ faults' = faults + 1

\* The worker is lost.
ScanLost(c) ==
    /\ scan[c] # NoList
    /\ Fault
    /\ scan' = [scan EXCEPT ![c] = NoList]
    /\ UNCHANGED <<table, compiled, matched, agents, changes>>

-----------------------------------------------------------------------------
(* Agents: get_active_signatures *)

Go(q, pc) == agent' = [agent EXCEPT ![q].pc = pc]

\* Mutant of Answer: what the cache holds is returned without `or []`.
AnswerAsRead(list) == list

\* `cache.get(cache_key) or []`
Answer(list) == IF list = NoList THEN {} ELSE list

Ask(q) ==
    /\ agent[q].pc = "idle"
    /\ IF served # NoList
       THEN answered' = served /\ UNCHANGED agent
       ELSE Go(q, "missed") /\ UNCHANGED answered
    /\ UNCHANGED <<table, scanners, served, lock, changes, faults, overran>>

\* Mutant of LockFree: the lock is set without asking whether it is there.
LockIgnored == TRUE

\* cache.add sets the lock only where there is none.
LockFree == ~lock

AddLock(q) ==
    /\ agent[q].pc = "missed"
    /\ IF LockFree THEN lock' = TRUE /\ Go(q, "loading") ELSE Go(q, "waiting") /\ UNCHANGED lock
    /\ UNCHANGED <<table, scanners, served, answered, changes, faults, overran>>

\* `order_by("-updated_at")[:500]`: all the active server rows, or as many as the list may
\* hold and none that was changed before one that is left out; of rows changed at one time
\* any may come first.
Latest(list) ==
    /\ list \subseteq Active(Server)
    /\ Cardinality(list) <= ServerLimit
    /\ list # Active(Server) => Cardinality(list) = ServerLimit
    /\ \A v \in list, w \in Active(Server) \ list : updatedAt[w] <= updatedAt[v]

ReadTable(q) ==
    /\ agent[q].pc = "loading"
    /\ \E list \in SUBSET Server :
         Latest(list) /\ agent' = [agent EXCEPT ![q] = [pc |-> "storing", list |-> list]]
    /\ UNCHANGED <<table, scanners, served, lock, answered, changes, faults, overran>>

Store(q) ==
    /\ agent[q].pc = "storing"
    /\ served' = agent[q].list
    /\ Go(q, "releasing")
    /\ UNCHANGED <<table, scanners, lock, answered, changes, faults, overran>>

\* The lock is deleted, whoever holds it by now.
Release(q) ==
    /\ agent[q].pc = "releasing"
    /\ lock' = FALSE
    /\ answered' = agent[q].list
    /\ agent' = [agent EXCEPT ![q] = Idle]
    /\ UNCHANGED <<table, scanners, served, changes, faults, overran>>

\* Another request is loading: the cache is read once more.
AnswerAnyway(q) ==
    /\ agent[q].pc = "waiting"
    /\ answered' = Answer(served)
    /\ agent' = [agent EXCEPT ![q] = Idle]
    /\ UNCHANGED <<table, scanners, served, lock, changes, faults, overran>>

\* Reading the table fails and the lock is deleted, or the process is lost and it stays.
AgentFails(q) ==
    /\ agent[q].pc # "idle"
    /\ Fault
    /\ \/ agent[q].pc \in {"loading", "storing"} /\ lock' = FALSE
       \/ UNCHANGED lock
    /\ agent' = [agent EXCEPT ![q] = Idle]
    /\ UNCHANGED <<table, scanners, served, answered, changes, overran>>

ServedExpires ==
    /\ Lapses(served)
    /\ served' = NoList
    /\ UNCHANGED <<table, scanners, lock, agent, answered, changes, faults, overran>>

Loading == {q \in Agents : agent[q].pc \in {"loading", "storing", "releasing"}}

\* Mutant of LockLapses: the lock has no timeout.
LockLapsesNever == FALSE

\* The lock lives for 30 seconds.
LockLapses == lock

LockExpires ==
    /\ LockLapses
    /\ lock' = FALSE
    /\ overran' = (overran \/ Loading # {})
    /\ UNCHANGED <<table, scanners, served, agent, answered, changes, faults>>

-----------------------------------------------------------------------------
ScanStep(c) == ScanRead(c) \/ ScanStore(c)

AgentStep(q) ==
    \/ Ask(q) \/ AddLock(q) \/ ReadTable(q) \/ Store(q) \/ Release(q) \/ AnswerAnyway(q)

Next ==
    \/ \E r \in Rows : Edit(r)
    \/ \E c \in Scans : ScanStep(c) \/ ScanLost(c)
    \/ \E q \in Agents : AgentStep(q) \/ AgentFails(q)
    \/ ScanFromCache \/ CompiledExpires \/ ServedExpires \/ LockExpires

Spec == Init /\ [][Next]_vars

\* Time passes, scans run, agents ask again and again, and a request that is not lost ends.
FairSpec ==
    /\ Spec
    /\ WF_vars(CompiledExpires) /\ WF_vars(ServedExpires) /\ WF_vars(LockExpires)
    /\ \A c \in Scans : WF_vars(ScanStep(c))
    /\ \A q \in Agents : WF_vars(AgentStep(q))

-----------------------------------------------------------------------------
(* Properties *)

\* No scan matches content against an empty list, whatever rows there are, whatever does not
\* compile, and whatever the cache holds.
ScansNeverBlind == matched # {} /\ compiled # {}

\* One request loads the agents' list at a time, unless a load outlived the lock: then the
\* one that began first deletes the lock of the next.
OneLoader == Cardinality(Loading) <= 1 \/ overran

\* Nothing tells the caches of a change; still, in the end the scanners' holds what the table
\* holds and the agents' the active server rows changed last, or nothing, also after a worker
\* was lost with the list it had read.
CachesConverge ==
    <>[](compiled \in {NoList, Compiled} /\ (served = NoList \/ Latest(served)))

\* Agents are given such a list again and again, also after a process was lost that held the
\* lock, and although one that finds the lock taken may be given an empty list.
AgentsServed == []<>Latest(answered)
=============================================================================
