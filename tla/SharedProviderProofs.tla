----------------------- MODULE SharedProviderProofs -----------------------
(***************************************************************************)
(* Proofs about SharedProvider, for every number of groups, sessions,      *)
(* keys, domains and regions (up to the id space).                         *)
(***************************************************************************)
EXTENDS SharedProvider, TLAPS

USE DEF Owned, NextId, Hit, Replaced, CatalogIds, DomainOf, Stops

AtRest   == {"idle", "off", "poll", "joining", "ended"}
InTuple  == {"lookup", "domain", "entry", "register", "insert"}

(* What the local variables of a thread hold at each control point.        *)
LocalsTyped ==
    \A t \in Threads :
        /\ pc[t] \notin AtRest => req[t] \in Pairs
        /\ pc[t] \in {"entry", "register", "insert", "join"} => pd[t] \in PDs
        /\ pc[t] = "register" => ent[t] \in Entries
        /\ pc[t] = "insert" => mr[t] \in MRs

TypeInv == TypeOK /\ LocalsTyped

(* One step of a thread inside tuple_of keeps the types.                   *)
LEMMA TupleOfTypes ==
    ASSUME TypeInv, NEW t \in Threads, TupleOf(t)
    PROVE  TypeInv'
<1> USE DEF TypeInv, TypeOK, AtRest
<1>1. CASE Lookup(t)
  <2>1. req[t] \in Pairs
    BY <1>1 DEF Lookup, LocalsTyped
  <2>2. \A m \in MRs : TupleDesc(req[t], m) \in TupleDescs
    BY <2>1 DEF Pairs, TupleDesc, TupleDescs, MRs
  <2>3. HistoryTyped'
    BY <1>1, <2>1, <2>2 DEF Lookup, TablesTyped, HistoryTyped
  <2>4. TablesTyped'
    BY <1>1 DEF Lookup, TablesTyped, appVars
  <2>5. ThreadsTyped' /\ LocalsTyped'
    BY <1>1, <2>1 DEF Lookup, ThreadsTyped, LocalsTyped, localVars, After, PcValues
  <2> QED BY <2>3, <2>4, <2>5
<1>2. CASE GetDomain(t)
  <2>1. TablesTyped' /\ HistoryTyped'
    BY <1>2 DEF GetDomain, TablesTyped, HistoryTyped, appVars
  <2>2. ThreadsTyped' /\ LocalsTyped'
    BY <1>2 DEF GetDomain, TablesTyped, ThreadsTyped, LocalsTyped, After, PcValues
  <2> QED BY <2>1, <2>2
<1>3. CASE GetEntry(t)
  <2>1. TablesTyped' /\ HistoryTyped'
    BY <1>3 DEF GetEntry, TablesTyped, HistoryTyped, appVars
  <2>2. ThreadsTyped' /\ LocalsTyped'
    BY <1>3 DEF GetEntry, TablesTyped, ThreadsTyped, LocalsTyped, After, PcValues
  <2> QED BY <2>1, <2>2
<1>4. ASSUME NEW key \in Keys, RegisterAddr(t, key) PROVE TypeInv'
  <2> DEFINE new == [addr |-> ent[t].addr, size |-> ent[t].size, key |-> key, pd |-> pd[t]]
  <2>1. new \in MRs
    BY <1>4 DEF RegisterAddr, LocalsTyped, Entries, MRs
  <2>2. TablesTyped' /\ HistoryTyped'
    BY <1>4, <2>1 DEF RegisterAddr, TablesTyped, HistoryTyped, appVars, history
  <2>3. ThreadsTyped' /\ LocalsTyped'
    BY <1>4, <2>1 DEF RegisterAddr, ThreadsTyped, LocalsTyped, PcValues
  <2> QED BY <2>2, <2>3
<1>5. CASE RegisterFails(t)
  <2>1. TablesTyped' /\ HistoryTyped'
    BY <1>5 DEF RegisterFails, TablesTyped, HistoryTyped, appVars, history
  <2>2. ThreadsTyped' /\ LocalsTyped'
    BY <1>5 DEF RegisterFails, ThreadsTyped, LocalsTyped, After, PcValues
  <2> QED BY <2>1, <2>2
<1>6. CASE Insert(t)
  <2>1. req[t] \in Pairs /\ mr[t] \in MRs
    BY <1>6 DEF Insert, LocalsTyped
  <2>2. TupleDesc(req[t], mr[t]) \in TupleDescs
    BY <2>1 DEF Pairs, TupleDesc, TupleDescs, MRs
  <2>3. TablesTyped'
    BY <1>6, <2>1 DEF Insert, TablesTyped, appVars, Put
  <2>4. HistoryTyped'
    BY <1>6, <2>2 DEF Insert, HistoryTyped
  <2>5. ThreadsTyped' /\ LocalsTyped'
    BY <1>6 DEF Insert, ThreadsTyped, LocalsTyped, After, PcValues
  <2> QED BY <2>3, <2>4, <2>5
<1> QED BY <1>1, <1>2, <1>3, <1>4, <1>5, <1>6 DEF TupleOf

(* The application's calls and the provider's drop keep the types.         *)
LEMMA AppTypes ==
    ASSUME TypeInv, App
    PROVE  TypeInv'
<1> USE DEF TypeInv, TypeOK, AtRest
<1>1. ASSUME NEW size \in Sizes, Register(size) PROVE TypeInv'
  <2>1. nextId \in Ids /\ nextId' \in Ids
    BY <1>1, IdSpaceAssumption DEF Register, TablesTyped, Ids
  <2>2. allocated' \in 0 .. MaxRegions /\ allocated + 1 \in Addrs
    BY <1>1, IdSpaceAssumption DEF Register, TablesTyped, Addrs
  <2>3. [addr |-> allocated + 1, size |-> size] \in Entries
    BY <2>2 DEF Entries
  <2>4. TablesTyped' /\ HistoryTyped'
    BY <1>1, <2>1, <2>2, <2>3 DEF Register, TablesTyped, HistoryTyped, history, Put
  <2>5. ThreadsTyped' /\ LocalsTyped'
    BY <1>1 DEF Register, ThreadsTyped, LocalsTyped, localVars
  <2> QED BY <2>4, <2>5
<1>2. ASSUME NEW a \in Addrs, DropHandle(a) PROVE TypeInv'
  <2>1. TablesTyped' /\ HistoryTyped'
    BY <1>2 DEF DropHandle, TablesTyped, HistoryTyped, appVars, history
  <2>2. ThreadsTyped' /\ LocalsTyped'
    BY <1>2 DEF DropHandle, TablesTyped, ThreadsTyped, LocalsTyped, localVars, PcValues, Threads, Servers
  <2> QED BY <2>1, <2>2
<1>3. CASE Serve
  <2>1. TablesTyped' /\ HistoryTyped'
    BY <1>3 DEF Serve, TablesTyped, HistoryTyped, appVars, history
  <2>2. ThreadsTyped' /\ LocalsTyped'
    BY <1>3 DEF Serve, TablesTyped, ThreadsTyped, LocalsTyped, localVars, PcValues, Threads, Servers
  <2> QED BY <2>1, <2>2
<1>4. ASSUME NEW p \in Pairs, GetSharedMr(p) PROVE TypeInv'
  <2>1. TablesTyped' /\ HistoryTyped'
    BY <1>4 DEF GetSharedMr, TablesTyped, HistoryTyped, appVars, history
  <2>2. ThreadsTyped' /\ LocalsTyped'
    BY <1>4 DEF GetSharedMr, TablesTyped, ThreadsTyped, LocalsTyped, localVars, PcValues, Threads, Servers
  <2> QED BY <2>1, <2>2
<1>5. CASE Stop
  <2>1. TablesTyped' /\ HistoryTyped'
    BY <1>5 DEF Stop, TablesTyped, HistoryTyped, appVars, history
  <2>2. ThreadsTyped' /\ LocalsTyped'
    BY <1>5 DEF Stop, TablesTyped, ThreadsTyped, LocalsTyped, localVars, PcValues, Threads, Servers
  <2> QED BY <2>1, <2>2
<1>6. CASE ClearTuples
  <2>1. TablesTyped' /\ HistoryTyped'
    BY <1>6 DEF ClearTuples, TablesTyped, HistoryTyped, appVars, history, EmptyMap
  <2>2. ThreadsTyped' /\ LocalsTyped'
    BY <1>6 DEF ClearTuples, TablesTyped, ThreadsTyped, LocalsTyped, localVars, PcValues, Threads, Servers
  <2> QED BY <2>1, <2>2
<1>7. CASE DropShared
  <2>1. TablesTyped' /\ HistoryTyped'
    BY <1>7 DEF DropShared, TablesTyped, HistoryTyped, appVars, history, EmptyMap
  <2>2. ThreadsTyped' /\ LocalsTyped'
    BY <1>7 DEF DropShared, TablesTyped, ThreadsTyped, LocalsTyped, localVars, PcValues, Threads, Servers
  <2> QED BY <2>1, <2>2
<1>8. CASE DropOwners
  <2>1. TablesTyped' /\ HistoryTyped'
    BY <1>8 DEF DropOwners, TablesTyped, HistoryTyped, appVars, history, EmptyMap
  <2>2. ThreadsTyped' /\ LocalsTyped'
    BY <1>8 DEF DropOwners, TablesTyped, ThreadsTyped, LocalsTyped, localVars, PcValues, Threads, Servers
  <2> QED BY <2>1, <2>2
<1>9. CASE TupleOf("app")
  BY <1>9, TupleOfTypes DEF Threads
<1> QED
  BY <1>1, <1>2, <1>3, <1>4, <1>5, <1>6, <1>7, <1>8, <1>9 DEF App

(* A step of catalog_and_tuples keeps the types.                           *)
LEMMA CatalogTypes ==
    ASSUME TypeInv, NEW t \in Threads, CatalogAndTuples(t)
    PROVE  TypeInv'
<1> USE DEF TypeInv, TypeOK, AtRest
<1>1. CASE Snapshot(t)
  <2>1. TablesTyped' /\ HistoryTyped'
    BY <1>1 DEF Snapshot, TablesTyped, HistoryTyped, appVars, history
  <2>2. ThreadsTyped' /\ LocalsTyped'
    BY <1>1 DEF Snapshot, TablesTyped, ThreadsTyped, LocalsTyped, localVars, PcValues, Threads, Servers
  <2> QED BY <2>1, <2>2
<1>2. ASSUME NEW id \in Ids, NextRegion(t, id) PROVE TypeInv'
  <2>1. <<id, Group(t)>> \in Pairs
    BY <1>2 DEF NextRegion, LocalsTyped, Pairs, Group
  <2>2. TablesTyped' /\ HistoryTyped'
    BY <1>2 DEF NextRegion, TablesTyped, HistoryTyped, appVars, history
  <2>3. ThreadsTyped' /\ LocalsTyped'
    BY <1>2, <2>1 DEF NextRegion, ThreadsTyped, LocalsTyped, PcValues
  <2> QED BY <2>2, <2>3
<1> QED BY <1>1, <1>2 DEF CatalogAndTuples

(* A step of the service thread keeps the types.                           *)
LEMMA ServiceTypes ==
    ASSUME TypeInv, Service
    PROVE  TypeInv'
<1> USE DEF TypeInv, TypeOK, AtRest
<1>1. ASSUME NEW g \in Groups, WantGroup(g) PROVE TypeInv'
  <2>1. <<0, g>> \in Pairs
    BY <1>1, IdSpaceAssumption DEF Pairs, Ids
  <2>2. TablesTyped' /\ HistoryTyped'
    BY <1>1 DEF WantGroup, TablesTyped, HistoryTyped, appVars, history
  <2>3. ThreadsTyped' /\ LocalsTyped'
    BY <1>1, <2>1 DEF WantGroup, TablesTyped, ThreadsTyped, LocalsTyped, PcValues
  <2> QED BY <2>2, <2>3
<1>2. ASSUME NEW p \in PDs, Accept(p) PROVE TypeInv'
  <2>1. TablesTyped' /\ HistoryTyped'
    BY <1>2 DEF Accept, TablesTyped, HistoryTyped, appVars, history
  <2>2. ThreadsTyped' /\ LocalsTyped'
    BY <1>2 DEF Accept, TablesTyped, ThreadsTyped, LocalsTyped, localVars, PcValues, Threads, Servers
  <2> QED BY <2>1, <2>2
<1>3. CASE AcceptFails
  <2>1. TablesTyped' /\ HistoryTyped'
    BY <1>3 DEF AcceptFails, TablesTyped, HistoryTyped, appVars, history
  <2>2. ThreadsTyped' /\ LocalsTyped'
    BY <1>3 DEF AcceptFails, TablesTyped, ThreadsTyped, LocalsTyped, localVars, PcValues, Threads, Servers
  <2> QED BY <2>1, <2>2
<1>4. CASE JoinGroup
  <2>1. Group("service") \in Groups /\ pd["service"] \in PDs
    BY <1>4 DEF JoinGroup, LocalsTyped, Pairs, Group, Threads, Servers
  <2>2. TablesTyped' /\ HistoryTyped'
    BY <1>4, <2>1 DEF JoinGroup, TablesTyped, HistoryTyped, appVars, history, Put
  <2>3. ThreadsTyped' /\ LocalsTyped'
    BY <1>4 DEF JoinGroup, ThreadsTyped, LocalsTyped, PcValues
  <2> QED BY <2>2, <2>3
<1>5. ASSUME NEW s \in Sessions, SpawnSession(s) PROVE TypeInv'
  <2>1. <<0, Group("service")>> \in Pairs
    BY <1>5, IdSpaceAssumption DEF SpawnSession, LocalsTyped, Pairs, Ids, Group, Threads, Servers
  <2>2. TablesTyped' /\ HistoryTyped'
    BY <1>5 DEF SpawnSession, TablesTyped, HistoryTyped, appVars, history
  <2>3. ThreadsTyped' /\ LocalsTyped'
    BY <1>5, <2>1 DEF SpawnSession, ThreadsTyped, LocalsTyped, PcValues
  <2> QED BY <2>2, <2>3
<1>6. CASE HandshakeSendFails
  <2>1. TablesTyped' /\ HistoryTyped'
    BY <1>6 DEF HandshakeSendFails, TablesTyped, HistoryTyped, appVars, history
  <2>2. ThreadsTyped' /\ LocalsTyped'
    BY <1>6 DEF HandshakeSendFails, TablesTyped, ThreadsTyped, LocalsTyped, localVars, PcValues, Threads, Servers
  <2> QED BY <2>1, <2>2
<1>7. CASE ServiceStops
  <2>1. TablesTyped' /\ HistoryTyped'
    BY <1>7 DEF ServiceStops, TablesTyped, HistoryTyped, appVars, history
  <2>2. ThreadsTyped' /\ LocalsTyped'
    BY <1>7 DEF ServiceStops, TablesTyped, ThreadsTyped, LocalsTyped, localVars, PcValues, Threads, Servers
  <2> QED BY <2>1, <2>2
<1>8. CASE ServiceEnds
  <2>1. TablesTyped' /\ HistoryTyped'
    BY <1>8 DEF ServiceEnds, TablesTyped, HistoryTyped, appVars, history
  <2>2. ThreadsTyped' /\ LocalsTyped'
    BY <1>8 DEF ServiceEnds, TablesTyped, ThreadsTyped, LocalsTyped, localVars, PcValues, Threads, Servers
  <2> QED BY <2>1, <2>2
<1>9. CASE CatalogAndTuples("service") \/ TupleOf("service")
  BY <1>9, CatalogTypes, TupleOfTypes DEF Threads, Servers
<1> QED
  BY <1>1, <1>2, <1>3, <1>4, <1>5, <1>6, <1>7, <1>8, <1>9 DEF Service

(* A step of a session thread keeps the types.                             *)
LEMMA SessionTypes ==
    ASSUME TypeInv, NEW s \in Sessions, Session(s)
    PROVE  TypeInv'
<1> USE DEF TypeInv, TypeOK, AtRest
<1>0. s \in Threads
  BY DEF Threads, Servers
<1>1. CASE SessionLoop(s)
  <2>1. TablesTyped' /\ HistoryTyped'
    BY <1>1 DEF SessionLoop, TablesTyped, HistoryTyped, appVars, history
  <2>2. ThreadsTyped' /\ LocalsTyped'
    BY <1>1 DEF SessionLoop, TablesTyped, ThreadsTyped, LocalsTyped, localVars, PcValues, Threads, Servers
  <2> QED BY <2>1, <2>2
<1>2. CASE ReceiveUpdate(s)
  <2>1. TablesTyped' /\ HistoryTyped'
    BY <1>2 DEF ReceiveUpdate, TablesTyped, HistoryTyped, appVars, history
  <2>2. ThreadsTyped' /\ LocalsTyped'
    BY <1>2 DEF ReceiveUpdate, TablesTyped, ThreadsTyped, LocalsTyped, localVars, PcValues, Threads, Servers
  <2> QED BY <2>1, <2>2
<1>3. CASE ReceiveFails(s)
  <2>1. TablesTyped' /\ HistoryTyped'
    BY <1>3 DEF ReceiveFails, TablesTyped, HistoryTyped, appVars, history
  <2>2. ThreadsTyped' /\ LocalsTyped'
    BY <1>3 DEF ReceiveFails, TablesTyped, ThreadsTyped, LocalsTyped, localVars, PcValues, Threads, Servers
  <2> QED BY <2>1, <2>2
<1>4. CASE SendReply(s)
  <2>1. TablesTyped' /\ HistoryTyped'
    BY <1>4 DEF SendReply, TablesTyped, HistoryTyped, appVars, history
  <2>2. ThreadsTyped' /\ LocalsTyped'
    BY <1>4 DEF SendReply, TablesTyped, ThreadsTyped, LocalsTyped, localVars, PcValues, Threads, Servers
  <2> QED BY <2>1, <2>2
<1>5. CASE CatalogAndTuples(s) \/ TupleOf(s)
  BY <1>0, <1>5, CatalogTypes, TupleOfTypes
<1> QED BY <1>1, <1>2, <1>3, <1>4, <1>5 DEF Session

(* The initial state has the types.                                        *)
LEMMA InitTypes ==
    ASSUME Init
    PROVE  TypeInv
<1>1. TablesTyped /\ HistoryTyped
  BY IdSpaceAssumption DEF Init, TablesTyped, HistoryTyped, EmptyMap, Ids
<1>2. ThreadsTyped /\ LocalsTyped
  BY DEF Init, ThreadsTyped, LocalsTyped, AtRest, PcValues
<1> QED BY <1>1, <1>2 DEF TypeInv, TypeOK

(* The types of the provider's state and of the threads' locals hold in    *)
(* every reachable state.                                                  *)
LEMMA TypesInductive == Spec => []TypeInv
<1>1. Init => TypeInv
  BY InitTypes
<1>2. TypeInv /\ [Next]_vars => TypeInv'
  <2> SUFFICES ASSUME TypeInv, [Next]_vars PROVE TypeInv'
    OBVIOUS
  <2>1. CASE App
    BY <2>1, AppTypes
  <2>2. CASE Service
    BY <2>2, ServiceTypes
  <2>3. ASSUME NEW s \in Sessions, Session(s) PROVE TypeInv'
    BY <2>3, SessionTypes
  <2>4. CASE UNCHANGED vars
    BY <2>4 DEF vars, TypeInv, TypeOK, TablesTyped, ThreadsTyped, HistoryTyped, LocalsTyped
  <2> QED BY <2>1, <2>2, <2>3, <2>4 DEF Next
<1> QED BY <1>1, <1>2, PTL DEF Spec

(* TypeOK holds in every reachable state, for every choice of constants.   *)
THEOREM TypesCorrect == Spec => []TypeOK
BY TypesInductive, PTL DEF TypeInv

-----------------------------------------------------------------------------
(* The inductive invariant, in layers.                                     *)

Dropped == {"cleared", "unshared", "gone"}

(* Which control points each thread can be at, and which threads are done  *)
(* at each phase of the drop.                                              *)
Control ==
    /\ pc["app"] \in {"idle"} \cup InTuple
    /\ pc["service"] \in {"off", "poll", "accept", "join", "snapshot", "next",
                          "joining", "ended"} \cup InTuple
    /\ \A s \in Sessions : pc[s] \in {"off", "loop", "wait", "snapshot", "next"} \cup InTuple
    /\ phase # "alive" => pc["app"] = "idle"
    /\ pc["service"] \in {"off", "ended"} => \A s \in Sessions : pc[s] = "off"
    /\ phase \in Dropped => pc["service"] \in {"off", "ended"} /\ DOMAIN tuples = {}
    /\ phase \in {"unshared", "gone"} => DOMAIN catalog = {} /\ DOMAIN groups = {}
    /\ todo["app"] = {}
    /\ \A t \in Servers : todo[t] # {} => pc[t] \in {"next"} \cup InTuple

(* Ids are not reused, so the owner map keeps what the catalog lists.      *)
Regions ==
    /\ nextId = IF allocated < IdSpace THEN allocated ELSE 0
    /\ \A i \in DOMAIN catalog : /\ i < allocated
                                 /\ i \in DOMAIN owners
                                 /\ owners[i] = catalog[i].addr
                                 /\ catalog[i].addr = i + 1

(* One domain per group; whoever works for a group finds it and holds its  *)
(* domain.                                                                 *)
Domains ==
    /\ \A g \in DOMAIN groups : groups[g].conns = {groups[g].pd}
    /\ pc["service"] = "accept" =>
          pd["service"] = IF Group("service") \in DOMAIN groups
                          THEN groups[Group("service")].pd ELSE NoPd
    /\ pc["service"] = "join" /\ Group("service") \in DOMAIN groups =>
          pd["service"] = groups[Group("service")].pd
    /\ pc["service"] \in {"snapshot", "next"} \cup InTuple =>
          Group("service") \in DOMAIN groups
    /\ \A s \in Sessions : pc[s] # "off" => Group(s) \in DOMAIN groups
    /\ \A t \in Threads : pc[t] \in {"entry", "register", "insert"} =>
          /\ Group(t) \in DOMAIN groups
          /\ pd[t] = groups[Group(t)].pd

(* The regions a thread works on are in the catalog.                       *)
Listed ==
    /\ \A t \in Servers : /\ todo[t] \subseteq DOMAIN catalog
                          /\ pc[t] \in InTuple => req[t][1] \in DOMAIN catalog
    /\ \A t \in Threads : pc[t] = "register" =>
          req[t][1] \in DOMAIN catalog /\ ent[t] = catalog[req[t][1]]
    /\ ServersKnow

(* m is a living registration of p's region in the domain of p's group.    *)
Backed(p, m, live, cat, grp) ==
    /\ m \in live
    /\ p[1] \in DOMAIN cat
    /\ m.addr = cat[p[1]].addr
    /\ m.size = cat[p[1]].size
    /\ p[2] \in DOMAIN grp
    /\ m.pd = grp[p[2]].pd

(* Living registrations have distinct keys and exactly one holder each: an *)
(* entry of the table or a thread about to insert.                         *)
Registrations ==
    /\ \A m, n \in mrs : m.key = n.key => m = n
    /\ \A p \in DOMAIN tuples : Backed(p, tuples[p], mrs, catalog, groups)
    /\ \A t \in Threads : pc[t] = "insert" => Backed(req[t], mr[t], mrs, catalog, groups)
    /\ \A p, q \in DOMAIN tuples : tuples[p] = tuples[q] => p = q
    /\ \A t \in Threads : pc[t] = "insert" =>
          \A p \in DOMAIN tuples : tuples[p] # mr[t]
    /\ \A t, u \in Threads :
          pc[t] = "insert" /\ pc[u] = "insert" /\ mr[t] = mr[u] => t = u
    /\ \A m \in mrs : \/ \E p \in DOMAIN tuples : tuples[p] = m
                      \/ \E t \in Threads : pc[t] = "insert" /\ mr[t] = m

(* As long as nobody else makes it, a pair is made by one thread, which    *)
(* stores it first.                                                        *)
Exclusive ==
    \A p \in Pairs \ contended :
        /\ \A t, u \in Making(p) : t = u
        /\ Making(p) # {} => p \notin DOMAIN tuples

(* What was handed out is still what the table holds.                      *)
Kept ==
    phase \notin Dropped =>
        \A d \in served : <<d.id, d.group>> \notin contended =>
            /\ <<d.id, d.group>> \in DOMAIN tuples
            /\ d = TupleDesc(<<d.id, d.group>>, tuples[<<d.id, d.group>>])

IInv == /\ TypeInv /\ Control /\ Regions /\ Domains /\ Listed
        /\ Registrations /\ Exclusive /\ Kept

(* A thread inside tuple_of moves on in it, or returns; it is not done, so *)
(* the drop has not got past joining it.                                   *)
LEMMA TupleOfControl ==
    ASSUME TypeInv, Control, NEW t \in Threads, pc[t] \in InTuple,
           NEW v \in InTuple \cup {After(t)}, pc' = [pc EXCEPT ![t] = v],
           UNCHANGED <<phase, catalog, groups, todo>>
    PROVE  Control'
<1> USE SessionsAssumption DEF Threads, Servers
<1>0. pc \in [Threads -> PcValues]
  BY DEF TypeInv, TypeOK, ThreadsTyped
<1>1. phase \notin Dropped /\ (t = "app" => phase = "alive")
  BY DEF Control, Dropped, InTuple
<1>2. pc["service"] \in {"off", "ended"} => t = "app"
  BY DEF Control, InTuple
<1>3. CASE t = "app"
  BY <1>0, <1>1, <1>3 DEF Control, Dropped, After, InTuple
<1>4. CASE t = "service"
  BY <1>0, <1>1, <1>4 DEF Control, Dropped, After, InTuple
<1>5. CASE t \in Sessions
  <2>1. pc'["app"] = pc["app"] /\ pc'["service"] = pc["service"]
    BY <1>0, <1>5
  <2>2. \A s \in Sessions : pc'[s] = IF s = t THEN v ELSE pc[s]
    BY <1>0, <1>5
  <2>3. v \in {"next"} \cup InTuple /\ t \notin {"app", "service"}
    BY <1>5 DEF After
  <2> QED BY <1>1, <1>2, <1>5, <2>1, <2>2, <2>3 DEF Control, InTuple
<1> QED BY <1>3, <1>4, <1>5

(* No step of tuple_of takes a thread out of the control structure.        *)
LEMMA TupleOfControlStep ==
    ASSUME TypeInv, Control, NEW t \in Threads, TupleOf(t)
    PROVE  Control'
<1>1. pc[t] \in InTuple /\ UNCHANGED <<phase, catalog, groups, todo>>
  BY DEF TupleOf, Lookup, GetDomain, GetEntry, RegisterAddr, RegisterFails, Insert,
     InTuple, appVars, localVars
<1>2. \E v \in InTuple \cup {After(t)} : pc' = [pc EXCEPT ![t] = v]
  BY DEF TupleOf, Lookup, GetDomain, GetEntry, RegisterAddr, RegisterFails, Insert, InTuple
<1> QED BY <1>1, <1>2, TupleOfControl

(* The control points and the phases of the drop are kept by every step.   *)
LEMMA ControlStep ==
    ASSUME TypeInv, Control, [Next]_vars
    PROVE  Control'
<1> USE SessionsAssumption DEF TypeInv, TypeOK, ThreadsTyped, Control, InTuple, Dropped, Threads, Servers,
        PcValues, appVars, localVars, history, EmptyMap, AppIdle
<1>1. ASSUME NEW size \in Sizes, Register(size) PROVE Control'
  BY <1>1 DEF Register
<1>2. ASSUME NEW a \in Addrs, DropHandle(a) PROVE Control'
  BY <1>2 DEF DropHandle
<1>3. CASE Serve
  BY <1>3 DEF Serve
<1>4. ASSUME NEW p \in Pairs, GetSharedMr(p) PROVE Control'
  BY <1>4 DEF GetSharedMr
<1>5. CASE Stop
  BY <1>5 DEF Stop
<1>6. CASE ClearTuples
  BY <1>6 DEF ClearTuples
<1>7. CASE DropShared
  BY <1>7 DEF DropShared
<1>8. CASE DropOwners
  BY <1>8 DEF DropOwners
<1>9. ASSUME NEW t \in Threads, TupleOf(t) PROVE Control'
  BY <1>9, TupleOfControlStep
<1>10. ASSUME NEW t \in Servers, Snapshot(t) PROVE Control'
  BY <1>10 DEF Snapshot
<1>11. ASSUME NEW t \in Servers, NEW id \in Ids, NextRegion(t, id) PROVE Control'
  BY <1>11 DEF NextRegion
<1>12. ASSUME NEW g \in Groups, WantGroup(g) PROVE Control'
  BY <1>12 DEF WantGroup
<1>13. ASSUME NEW p \in PDs, Accept(p) PROVE Control'
  BY <1>13 DEF Accept
<1>14. CASE AcceptFails
  BY <1>14 DEF AcceptFails
<1>15. CASE JoinGroup
  BY <1>15 DEF JoinGroup
<1>16. ASSUME NEW s \in Sessions, SpawnSession(s) PROVE Control'
  BY <1>16 DEF SpawnSession
<1>17. CASE HandshakeSendFails
  BY <1>17 DEF HandshakeSendFails
<1>18. CASE ServiceStops
  BY <1>18 DEF ServiceStops
<1>19. CASE ServiceEnds
  BY <1>19 DEF ServiceEnds
<1>20. ASSUME NEW s \in Sessions, SessionLoop(s) PROVE Control'
  BY <1>20 DEF SessionLoop
<1>21. ASSUME NEW s \in Sessions, ReceiveUpdate(s) PROVE Control'
  BY <1>21 DEF ReceiveUpdate
<1>22. ASSUME NEW s \in Sessions, ReceiveFails(s) PROVE Control'
  BY <1>22 DEF ReceiveFails
<1>23. ASSUME NEW s \in Sessions, SendReply(s) PROVE Control'
  BY <1>23 DEF SendReply
<1>24. CASE UNCHANGED vars
  BY <1>24 DEF vars
<1> QED
  BY <1>1, <1>2, <1>3, <1>4, <1>5, <1>6, <1>7, <1>8, <1>9, <1>10,
     <1>11, <1>12, <1>13, <1>14, <1>15, <1>16, <1>17, <1>18, <1>19, <1>20,
     <1>21, <1>22, <1>23, <1>24
     DEF Next, App, Service, Session, CatalogAndTuples, Threads, Servers

(* Ids are assigned once: MaxRegions stays within the id space.            *)
LEMMA RegionsStep ==
    ASSUME TypeInv, Control, Regions, [Next]_vars
    PROVE  Regions'
<1>1. ASSUME NEW size \in Sizes, Register(size) PROVE Regions'
  <2>1. /\ allocated \in Nat /\ allocated < IdSpace /\ nextId = allocated
        /\ allocated' = allocated + 1
    BY <1>1, IdSpaceAssumption DEF Register, Regions, TypeInv, TypeOK, TablesTyped
  <2>2. nextId' = IF allocated' < IdSpace THEN allocated' ELSE 0
    BY <1>1, <2>1, IdSpaceAssumption DEF Register
  <2>3. \A i \in DOMAIN catalog : i \in Nat /\ i < allocated /\ i # nextId
    BY <2>1, IdSpaceAssumption DEF Regions, TypeInv, TypeOK, TablesTyped, Ids
  <2> QED BY <1>1, <2>1, <2>2, <2>3 DEF Register, Regions, Put
<1>2. CASE DropShared
  BY <1>2 DEF DropShared, Regions, EmptyMap
<1>3. CASE DropOwners
  BY <1>3 DEF DropOwners, Regions, Control
<1>4. CASE UNCHANGED <<nextId, allocated, catalog, owners>>
  BY <1>4 DEF Regions
<1> QED
  BY <1>1, <1>2, <1>3, <1>4 DEF Next, App, Service, Session, TupleOf, CatalogAndTuples, Serve, GetSharedMr, Stop,
     DropHandle, ClearTuples, Lookup, GetDomain, GetEntry, RegisterAddr, RegisterFails, Insert,
     Snapshot, NextRegion, WantGroup, Accept, AcceptFails, JoinGroup, SpawnSession,
     HandshakeSendFails, ServiceStops, ServiceEnds, SessionLoop, ReceiveUpdate, ReceiveFails,
     SendReply, appVars, vars

(* Groups and domains: every step keeps the layer Domains.                  *)
LEMMA DomainsStep ==
    ASSUME TypeInv, Control, Domains, [Next]_vars
    PROVE  Domains'
<1> USE SessionsAssumption, AbsentAssumption DEF TypeInv, TypeOK, ThreadsTyped, Control, Domains, Group, InTuple, Dropped,
        Threads, Servers, PcValues, appVars, localVars, history, AppIdle
<1>1. ASSUME NEW size \in Sizes, Register(size) PROVE Domains'
  BY <1>1 DEF Register
<1>2. ASSUME NEW a \in Addrs, DropHandle(a) PROVE Domains'
  BY <1>2 DEF DropHandle
<1>3. CASE Serve
  BY <1>3 DEF Serve
<1>4. ASSUME NEW p \in Pairs, GetSharedMr(p) PROVE Domains'
  BY <1>4 DEF GetSharedMr
<1>5. CASE Stop
  BY <1>5 DEF Stop
<1>6. CASE ClearTuples
  BY <1>6 DEF ClearTuples
<1>7. CASE DropShared
  BY <1>7 DEF DropShared, EmptyMap
<1>8. CASE DropOwners
  BY <1>8 DEF DropOwners
<1>9. ASSUME NEW t \in Threads, Lookup(t) PROVE Domains'
  <2>1. \E v \in {"domain", After(t)} : pc' = [pc EXCEPT ![t] = v]
    BY <1>9 DEF Lookup
  <2>2. UNCHANGED <<groups, pd, req>>
    BY <1>9 DEF Lookup
  <2> QED BY <1>9, <2>1, <2>2 DEF Lookup, After
<1>10. ASSUME NEW t \in Threads, GetDomain(t) PROVE Domains'
  BY <1>10 DEF GetDomain, After
<1>11. ASSUME NEW t \in Threads, GetEntry(t) PROVE Domains'
  <2>1. CASE req[t][1] \in DOMAIN catalog
    BY <1>11, <2>1 DEF GetEntry
  <2>2. CASE req[t][1] \notin DOMAIN catalog
    <3>1. /\ pc' = [pc EXCEPT ![t] = After(t)]
          /\ pd' = [pd EXCEPT ![t] = NoPd]
          /\ UNCHANGED <<groups, req>>
      BY <1>11, <2>2 DEF GetEntry
    <3>2. After(t) \in {"idle", "next"} /\ (t = "service" => After(t) = "next")
      BY DEF After
    <3> QED BY <1>11, <3>1, <3>2 DEF GetEntry
  <2> QED BY <2>1, <2>2
<1>12. ASSUME NEW t \in Threads, NEW key \in Keys, RegisterAddr(t, key) PROVE Domains'
  BY <1>12 DEF RegisterAddr
<1>13. ASSUME NEW t \in Threads, RegisterFails(t) PROVE Domains'
  BY <1>13 DEF RegisterFails, After
<1>14. ASSUME NEW t \in Threads, Insert(t) PROVE Domains'
  BY <1>14 DEF Insert, After
<1>15. ASSUME NEW t \in Servers, Snapshot(t) PROVE Domains'
  BY <1>15 DEF Snapshot
<1>16. ASSUME NEW t \in Servers, NEW id \in Ids, NextRegion(t, id) PROVE Domains'
  BY <1>16 DEF NextRegion
<1>17. ASSUME NEW g \in Groups, WantGroup(g) PROVE Domains'
  BY <1>17 DEF WantGroup
<1>18. ASSUME NEW p \in PDs, Accept(p) PROVE Domains'
  BY <1>18 DEF Accept, TablesTyped
<1>19. CASE AcceptFails
  BY <1>19 DEF AcceptFails
<1>20. CASE JoinGroup
  BY <1>20 DEF JoinGroup, Put, TablesTyped
<1>21. ASSUME NEW s \in Sessions, SpawnSession(s) PROVE Domains'
  BY <1>21 DEF SpawnSession
<1>22. CASE HandshakeSendFails
  BY <1>22 DEF HandshakeSendFails
<1>23. CASE ServiceStops
  BY <1>23 DEF ServiceStops
<1>24. CASE ServiceEnds
  BY <1>24 DEF ServiceEnds
<1>25. ASSUME NEW s \in Sessions, SessionLoop(s) PROVE Domains'
  BY <1>25 DEF SessionLoop
<1>26. ASSUME NEW s \in Sessions, ReceiveUpdate(s) PROVE Domains'
  BY <1>26 DEF ReceiveUpdate
<1>27. ASSUME NEW s \in Sessions, ReceiveFails(s) PROVE Domains'
  BY <1>27 DEF ReceiveFails
<1>28. ASSUME NEW s \in Sessions, SendReply(s) PROVE Domains'
  BY <1>28 DEF SendReply
<1>29. CASE UNCHANGED vars
  BY <1>29 DEF vars
<1> QED
  BY <1>1, <1>2, <1>3, <1>4, <1>5, <1>6, <1>7, <1>8, <1>9, <1>10,
     <1>11, <1>12, <1>13, <1>14, <1>15, <1>16, <1>17, <1>18, <1>19, <1>20,
     <1>21, <1>22, <1>23, <1>24, <1>25, <1>26, <1>27, <1>28, <1>29
     DEF Next, App, Service, Session, TupleOf, CatalogAndTuples, Threads, Servers

(* The regions a thread works on stay in the catalog, and the groups of    *)
(* the service and the sessions are there: tuple_of finds both.            *)
LEMMA ListedStep ==
    ASSUME TypeInv, Control, Regions, Domains, Listed, [Next]_vars
    PROVE  Listed'
<1> USE SessionsAssumption DEF TypeInv, TypeOK, ThreadsTyped, Control, Listed, ServersKnow, InTuple, Dropped,
        Threads, Servers, PcValues, appVars, localVars, history, AppIdle
<1>1. ASSUME NEW size \in Sizes, Register(size) PROVE Listed'
  <2>1. DOMAIN catalog \subseteq DOMAIN catalog'
    BY <1>1 DEF Register, Put
  <2>2. \A i \in DOMAIN catalog : catalog'[i] = catalog[i]
    <3>1. \A i \in DOMAIN catalog : i \in Nat /\ i < allocated
      BY DEF Regions, TablesTyped, Ids
    <3>2. nextId = allocated
      BY <1>1, IdSpaceAssumption DEF Register, Regions, TablesTyped
    <3> QED BY <1>1, <3>1, <3>2 DEF Register, Put, TablesTyped
  <2> QED BY <1>1, <2>1, <2>2 DEF Register
<1>2. ASSUME NEW a \in Addrs, DropHandle(a) PROVE Listed'
  BY <1>2 DEF DropHandle
<1>3. CASE Serve
  BY <1>3 DEF Serve
<1>4. ASSUME NEW p \in Pairs, GetSharedMr(p) PROVE Listed'
  BY <1>4 DEF GetSharedMr
<1>5. CASE Stop
  BY <1>5 DEF Stop
<1>6. CASE ClearTuples
  BY <1>6 DEF ClearTuples
<1>7. CASE DropShared
  BY <1>7 DEF DropShared, EmptyMap
<1>8. CASE DropOwners
  BY <1>8 DEF DropOwners
<1>9. ASSUME NEW t \in Threads, Lookup(t) PROVE Listed'
  BY <1>9 DEF Lookup, After
<1>10. ASSUME NEW t \in Threads, GetDomain(t) PROVE Listed'
  BY <1>10 DEF GetDomain, After, Domains, Group
<1>11. ASSUME NEW t \in Threads, GetEntry(t) PROVE Listed'
  BY <1>11 DEF GetEntry, After
<1>12. ASSUME NEW t \in Threads, NEW key \in Keys, RegisterAddr(t, key) PROVE Listed'
  BY <1>12 DEF RegisterAddr
<1>13. ASSUME NEW t \in Threads, RegisterFails(t) PROVE Listed'
  BY <1>13 DEF RegisterFails, After
<1>14. ASSUME NEW t \in Threads, Insert(t) PROVE Listed'
  BY <1>14 DEF Insert, After
<1>15. ASSUME NEW t \in Servers, Snapshot(t) PROVE Listed'
  BY <1>15 DEF Snapshot, AtRest
<1>16. ASSUME NEW t \in Servers, NEW id \in Ids, NextRegion(t, id) PROVE Listed'
  BY <1>16 DEF NextRegion
<1>17. ASSUME NEW g \in Groups, WantGroup(g) PROVE Listed'
  BY <1>17 DEF WantGroup
<1>18. ASSUME NEW p \in PDs, Accept(p) PROVE Listed'
  BY <1>18 DEF Accept
<1>19. CASE AcceptFails
  BY <1>19 DEF AcceptFails
<1>20. CASE JoinGroup
  BY <1>20 DEF JoinGroup
<1>21. ASSUME NEW s \in Sessions, SpawnSession(s) PROVE Listed'
  BY <1>21 DEF SpawnSession
<1>22. CASE HandshakeSendFails
  BY <1>22 DEF HandshakeSendFails
<1>23. CASE ServiceStops
  BY <1>23 DEF ServiceStops
<1>24. CASE ServiceEnds
  BY <1>24 DEF ServiceEnds
<1>25. ASSUME NEW s \in Sessions, SessionLoop(s) PROVE Listed'
  BY <1>25 DEF SessionLoop
<1>26. ASSUME NEW s \in Sessions, ReceiveUpdate(s) PROVE Listed'
  BY <1>26 DEF ReceiveUpdate
<1>27. ASSUME NEW s \in Sessions, ReceiveFails(s) PROVE Listed'
  BY <1>27 DEF ReceiveFails
<1>28. ASSUME NEW s \in Sessions, SendReply(s) PROVE Listed'
  BY <1>28 DEF SendReply
<1>29. CASE UNCHANGED vars
  BY <1>29 DEF vars
<1> QED
  BY <1>1, <1>2, <1>3, <1>4, <1>5, <1>6, <1>7, <1>8, <1>9, <1>10,
     <1>11, <1>12, <1>13, <1>14, <1>15, <1>16, <1>17, <1>18, <1>19, <1>20,
     <1>21, <1>22, <1>23, <1>24, <1>25, <1>26, <1>27, <1>28, <1>29
     DEF Next, App, Service, Session, TupleOf, CatalogAndTuples, Threads, Servers

(* Registering a region changes no other entry of the catalog.             *)
LEMMA RegisterKeepsCatalog ==
    ASSUME TypeInv, Regions, NEW size \in Sizes, Register(size)
    PROVE  \A i \in DOMAIN catalog : i \in DOMAIN catalog' /\ catalog'[i] = catalog[i]
<1>1. \A i \in DOMAIN catalog : i \in Nat /\ i < allocated
  BY DEF Regions, TypeInv, TypeOK, TablesTyped, Ids
<1>2. nextId = allocated /\ allocated \in Nat
  BY IdSpaceAssumption DEF Register, Regions, TypeInv, TypeOK, TablesTyped
<1> QED BY <1>1, <1>2 DEF Register, Put

(* A step that leaves the table, the registrations and the threads about   *)
(* to insert alone, and only adds to the catalog and the groups.           *)
LEMMA RegistrationsFrame ==
    ASSUME Registrations, UNCHANGED <<mrs, tuples>>,
           \A i \in DOMAIN catalog : i \in DOMAIN catalog' /\ catalog'[i] = catalog[i],
           \A g \in DOMAIN groups : g \in DOMAIN groups' /\ groups'[g].pd = groups[g].pd,
           \A t \in Threads : /\ pc'[t] = "insert" <=> pc[t] = "insert"
                              /\ pc[t] = "insert" => mr'[t] = mr[t] /\ req'[t] = req[t]
    PROVE  Registrations'
<1>1. \A p, m : Backed(p, m, mrs, catalog, groups) => Backed(p, m, mrs', catalog', groups')
  BY DEF Backed
<1>2. \A p \in DOMAIN tuples : Backed(p, tuples[p], mrs', catalog', groups')
  BY <1>1 DEF Registrations
<1>3. ASSUME NEW t \in Threads, pc'[t] = "insert"
      PROVE  Backed(req'[t], mr'[t], mrs', catalog', groups')
  <2>1. pc[t] = "insert" /\ req'[t] = req[t] /\ mr'[t] = mr[t]
    BY <1>3
  <2>2. Backed(req[t], mr[t], mrs, catalog, groups)
    BY <2>1 DEF Registrations
  <2> QED BY <1>1, <2>1, <2>2
<1>4. \A t \in Threads : pc'[t] = "insert" => mr'[t] = mr[t] /\ pc[t] = "insert"
  OBVIOUS
<1>5. \A m \in mrs : \/ \E p \in DOMAIN tuples : tuples[p] = m
                     \/ \E t \in Threads : pc'[t] = "insert" /\ mr'[t] = m
  BY DEF Registrations
<1> QED BY <1>2, <1>3, <1>4, <1>5 DEF Registrations

(* The keys of living registrations are distinct, so a new one is neither  *)
(* in the table nor held by another thread; replacing a table entry        *)
(* deregisters that entry and nothing else.                                *)
LEMMA RegistrationsStep ==
    ASSUME TypeInv, Control, Regions, Domains, Listed, Registrations, [Next]_vars
    PROVE  Registrations'
<1>1. ASSUME NEW size \in Sizes, Register(size) PROVE Registrations'
  <2>1. \A i \in DOMAIN catalog : i \in DOMAIN catalog' /\ catalog'[i] = catalog[i]
    BY <1>1, RegisterKeepsCatalog
  <2> QED BY <1>1, <2>1, RegistrationsFrame DEF Register, localVars
<1>2. CASE ClearTuples
  <2>1. \A t \in Threads : pc[t] # "insert"
    BY <1>2 DEF ClearTuples, Control, Threads, Servers
  <2>2. mrs' = {}
    BY <1>2, <2>1 DEF ClearTuples, Registrations
  <2> QED BY <1>2, <2>1, <2>2 DEF ClearTuples, Registrations, EmptyMap
<1>3. CASE DropShared
  <2>1. (\A t \in Threads : pc[t] # "insert") /\ DOMAIN tuples = {}
    BY <1>3 DEF DropShared, Control, Dropped, Threads, Servers
  <2>2. mrs = {}
    BY <2>1 DEF Registrations
  <2> QED BY <1>3, <2>1, <2>2 DEF DropShared, Registrations
<1>4. ASSUME NEW t \in Threads, NEW key \in Keys, RegisterAddr(t, key)
      PROVE  Registrations'
  <2> DEFINE new == [addr |-> ent[t].addr, size |-> ent[t].size, key |-> key, pd |-> pd[t]]
  <2>0. pc \in [Threads -> PcValues] /\ mr \in [Threads -> MRs \cup {NoMr}]
    BY DEF TypeInv, TypeOK, ThreadsTyped
  <2>1. /\ mrs' = mrs \cup {new} /\ mr' = [mr EXCEPT ![t] = new]
        /\ pc' = [pc EXCEPT ![t] = "insert"] /\ pc[t] = "register"
        /\ UNCHANGED <<tuples, catalog, groups, req>>
    BY <1>4 DEF RegisterAddr, appVars
  <2>2. \A m \in mrs : m.key # new.key /\ m # new
    BY <1>4 DEF RegisterAddr
  <2>3. Backed(req'[t], new, mrs', catalog', groups')
    BY <1>4, <2>1 DEF RegisterAddr, Backed, Listed, Domains, Group
  <2>4. \A p, m : Backed(p, m, mrs, catalog, groups) => Backed(p, m, mrs', catalog', groups')
    BY <2>1 DEF Backed
  <2>5. \A u \in Threads : /\ pc'[u] = IF u = t THEN "insert" ELSE pc[u]
                           /\ mr'[u] = IF u = t THEN new ELSE mr[u]
    BY <2>0, <2>1
  <2> HIDE DEF new
  <2>6. \A m, n \in mrs' : m.key = n.key => m = n
    BY <2>1, <2>2 DEF Registrations
  <2>7. \A p \in DOMAIN tuples : tuples[p] \in mrs /\ Backed(p, tuples'[p], mrs', catalog', groups')
    BY <2>1, <2>4 DEF Registrations, Backed
  <2>8. \A u \in Threads : pc'[u] = "insert" => Backed(req'[u], mr'[u], mrs', catalog', groups')
    BY <2>1, <2>3, <2>4, <2>5 DEF Registrations
  <2>9. \A u \in Threads : pc[u] = "insert" => mr[u] \in mrs
    BY DEF Registrations, Backed
  <2>10. \A u \in Threads : pc'[u] = "insert" => \A p \in DOMAIN tuples : tuples[p] # mr'[u]
    BY <2>2, <2>5, <2>7 DEF Registrations
  <2>11. \A u, w \in Threads :
            pc'[u] = "insert" /\ pc'[w] = "insert" /\ mr'[u] = mr'[w] => u = w
    BY <2>2, <2>5, <2>9 DEF Registrations
  <2>12. \A m \in mrs' : \/ \E p \in DOMAIN tuples : tuples[p] = m
                         \/ \E u \in Threads : pc'[u] = "insert" /\ mr'[u] = m
    BY <2>1, <2>5 DEF Registrations
  <2> QED BY <2>1, <2>6, <2>7, <2>8, <2>10, <2>11, <2>12, ZenonT(30) DEF Registrations
<1>5. ASSUME NEW t \in Threads, Insert(t) PROVE Registrations'
  <2> DEFINE p0 == req[t]
             m0 == mr[t]
  <2>0. pc \in [Threads -> PcValues] /\ mr \in [Threads -> MRs \cup {NoMr}]
    BY DEF TypeInv, TypeOK, ThreadsTyped
  <2>1. /\ pc[t] = "insert" /\ UNCHANGED <<catalog, groups, req>>
        /\ mrs' = mrs \ {tuples[p] : p \in DOMAIN tuples \cap {p0}}
        /\ DOMAIN tuples' = DOMAIN tuples \cup {p0}
        /\ \A p \in DOMAIN tuples' : tuples'[p] = IF p = p0 THEN m0 ELSE tuples[p]
    BY <1>5 DEF Insert, appVars, Put
  <2>2. \A u \in Threads \ {t} : pc'[u] = pc[u] /\ mr'[u] = mr[u]
    BY <1>5, <2>0 DEF Insert
  <2>3. pc'[t] # "insert"
    BY <1>5, <2>0 DEF Insert, After
  <2>4. \A p, m : Backed(p, m, mrs, catalog, groups) /\ m \in mrs'
                 => Backed(p, m, mrs', catalog', groups')
    BY <2>1 DEF Backed
  <2>5. Backed(p0, m0, mrs, catalog, groups) /\ m0 \in mrs'
    BY <2>1 DEF Registrations, Backed
  <2> HIDE DEF p0, m0
  <2>6. \A p \in DOMAIN tuples : p # p0 => tuples[p] \in mrs'
    BY <2>1 DEF Registrations, Backed
  <2>7. \A p \in DOMAIN tuples' : Backed(p, tuples'[p], mrs', catalog', groups')
    BY <2>1, <2>4, <2>5, <2>6 DEF Registrations
  <2>8. \A u \in Threads : pc'[u] = "insert" =>
            u # t /\ pc[u] = "insert" /\ mr'[u] = mr[u] /\ mr[u] \in mrs' /\ mr[u] # m0
    BY <2>1, <2>2, <2>3 DEF Registrations, Backed, m0
  <2>9. \A u \in Threads : pc'[u] = "insert" => Backed(req'[u], mr'[u], mrs', catalog', groups')
    BY <2>1, <2>4, <2>8 DEF Registrations
  <2>10. \A p \in DOMAIN tuples : tuples[p] # m0
    BY <2>1 DEF Registrations, m0
  <2>11. \A p, q \in DOMAIN tuples' : tuples'[p] = tuples'[q] => p = q
    BY <2>1, <2>10 DEF Registrations
  <2>12. \A u \in Threads : pc'[u] = "insert" => \A p \in DOMAIN tuples' : tuples'[p] # mr'[u]
    BY <2>1, <2>8 DEF Registrations
  <2>13. \A u, w \in Threads :
            pc'[u] = "insert" /\ pc'[w] = "insert" /\ mr'[u] = mr'[w] => u = w
    BY <2>8 DEF Registrations
  <2>14. \A m \in mrs' : \/ \E p \in DOMAIN tuples' : tuples'[p] = m
                         \/ \E u \in Threads : pc'[u] = "insert" /\ mr'[u] = m
    <3> SUFFICES ASSUME NEW m \in mrs'
                 PROVE  \/ \E p \in DOMAIN tuples' : tuples'[p] = m
                        \/ \E u \in Threads : pc'[u] = "insert" /\ mr'[u] = m
      OBVIOUS
    <3>1. CASE \E p \in DOMAIN tuples : tuples[p] = m
      BY <2>1, <3>1
    <3>2. CASE \E u \in Threads : pc[u] = "insert" /\ mr[u] = m
      BY <2>1, <2>2, <3>2 DEF m0
    <3> QED BY <2>1, <3>1, <3>2 DEF Registrations
  <2>15. \A m, n \in mrs' : m.key = n.key => m = n
    BY <2>1 DEF Registrations
  <2> QED BY <2>7, <2>9, <2>11, <2>12, <2>13, <2>14, <2>15 DEF Registrations
<1>6. CASE JoinGroup
  <2>1. /\ UNCHANGED <<mrs, tuples, catalog, mr, req>>
        /\ \A g \in DOMAIN groups : g \in DOMAIN groups' /\ groups'[g].pd = groups[g].pd
    BY <1>6 DEF JoinGroup, Put, appVars, TypeInv, TypeOK, TablesTyped
  <2>2. \A t \in Threads : pc'[t] = "insert" <=> pc[t] = "insert"
    BY <1>6 DEF JoinGroup, TypeInv, TypeOK, ThreadsTyped
  <2> QED BY <2>1, <2>2, RegistrationsFrame
<1>7. ASSUME UNCHANGED <<mrs, tuples, catalog, groups>>,
             \A t \in Threads : /\ pc'[t] = "insert" <=> pc[t] = "insert"
                                /\ pc[t] = "insert" => mr'[t] = mr[t] /\ req'[t] = req[t]
      PROVE  Registrations'
  BY <1>7, RegistrationsFrame
<1>8. ASSUME NEW a \in Addrs, DropHandle(a) PROVE Registrations'
  BY <1>8, <1>7 DEF DropHandle, appVars, localVars, TypeInv, TypeOK, ThreadsTyped, Threads, Servers
<1>9. CASE Serve
  BY <1>9, <1>7 DEF Serve, appVars, localVars, TypeInv, TypeOK, ThreadsTyped, Threads, Servers
<1>10. ASSUME NEW p \in Pairs, GetSharedMr(p) PROVE Registrations'
  BY <1>10, <1>7 DEF GetSharedMr, AppIdle, appVars, localVars, TypeInv, TypeOK, ThreadsTyped, Threads, Servers
<1>11. CASE Stop
  BY <1>11, <1>7 DEF Stop, appVars, localVars, TypeInv, TypeOK, ThreadsTyped, Threads, Servers
<1>12. CASE DropOwners
  BY <1>12, <1>7 DEF DropOwners, appVars, localVars, TypeInv, TypeOK, ThreadsTyped, Threads, Servers
<1>13. ASSUME NEW t \in Threads, Lookup(t) PROVE Registrations'
  BY <1>13, <1>7 DEF Lookup, After, appVars, localVars, TypeInv, TypeOK, ThreadsTyped, Threads, Servers
<1>14. ASSUME NEW t \in Threads, GetDomain(t) PROVE Registrations'
  BY <1>14, <1>7 DEF GetDomain, After, appVars, localVars, TypeInv, TypeOK, ThreadsTyped, Threads, Servers
<1>15. ASSUME NEW t \in Threads, GetEntry(t) PROVE Registrations'
  BY <1>15, <1>7 DEF GetEntry, After, appVars, localVars, TypeInv, TypeOK, ThreadsTyped, Threads, Servers
<1>16. ASSUME NEW t \in Threads, RegisterFails(t) PROVE Registrations'
  BY <1>16, <1>7 DEF RegisterFails, After, appVars, localVars, TypeInv, TypeOK, ThreadsTyped, Threads, Servers
<1>17. ASSUME NEW t \in Servers, Snapshot(t) PROVE Registrations'
  BY <1>17, <1>7 DEF Snapshot, appVars, localVars, TypeInv, TypeOK, ThreadsTyped, Threads, Servers
<1>18. ASSUME NEW t \in Servers, NEW id \in Ids, NextRegion(t, id) PROVE Registrations'
  BY <1>18, <1>7 DEF NextRegion, appVars, localVars, TypeInv, TypeOK, ThreadsTyped, Threads, Servers
<1>19. ASSUME NEW g \in Groups, WantGroup(g) PROVE Registrations'
  BY <1>19, <1>7 DEF WantGroup, appVars, localVars, TypeInv, TypeOK, ThreadsTyped, Threads, Servers
<1>20. ASSUME NEW p \in PDs, Accept(p) PROVE Registrations'
  BY <1>20, <1>7 DEF Accept, appVars, localVars, TypeInv, TypeOK, ThreadsTyped, Threads, Servers
<1>21. CASE AcceptFails
  BY <1>21, <1>7 DEF AcceptFails, appVars, localVars, TypeInv, TypeOK, ThreadsTyped, Threads, Servers
<1>22. ASSUME NEW s \in Sessions, SpawnSession(s) PROVE Registrations'
  BY <1>22, <1>7 DEF SpawnSession, appVars, localVars, TypeInv, TypeOK, ThreadsTyped, Threads, Servers
<1>23. CASE HandshakeSendFails
  BY <1>23, <1>7 DEF HandshakeSendFails, appVars, localVars, TypeInv, TypeOK, ThreadsTyped, Threads, Servers
<1>24. CASE ServiceStops
  BY <1>24, <1>7 DEF ServiceStops, appVars, localVars, TypeInv, TypeOK, ThreadsTyped, Threads, Servers
<1>25. CASE ServiceEnds
  BY <1>25, <1>7 DEF ServiceEnds, appVars, localVars, TypeInv, TypeOK, ThreadsTyped, Threads, Servers
<1>26. ASSUME NEW s \in Sessions, SessionLoop(s) PROVE Registrations'
  BY <1>26, <1>7 DEF SessionLoop, appVars, localVars, TypeInv, TypeOK, ThreadsTyped, Threads, Servers
<1>27. ASSUME NEW s \in Sessions, ReceiveUpdate(s) PROVE Registrations'
  BY <1>27, <1>7 DEF ReceiveUpdate, appVars, localVars, TypeInv, TypeOK, ThreadsTyped, Threads, Servers
<1>28. ASSUME NEW s \in Sessions, ReceiveFails(s) PROVE Registrations'
  BY <1>28, <1>7 DEF ReceiveFails, appVars, localVars, TypeInv, TypeOK, ThreadsTyped, Threads, Servers
<1>29. ASSUME NEW s \in Sessions, SendReply(s) PROVE Registrations'
  BY <1>29, <1>7 DEF SendReply, appVars, localVars, TypeInv, TypeOK, ThreadsTyped, Threads, Servers
<1>30. CASE UNCHANGED vars
  BY <1>30, <1>7 DEF vars
<1> QED
  BY <1>1, <1>2, <1>3, <1>4, <1>5, <1>6, <1>8, <1>9, <1>10, <1>11,
     <1>12, <1>13, <1>14, <1>15, <1>16, <1>17, <1>18, <1>19, <1>20, <1>21,
     <1>22, <1>23, <1>24, <1>25, <1>26, <1>27, <1>28, <1>29, <1>30
     DEF Next, App, Service, Session, TupleOf, CatalogAndTuples, Threads, Servers

(* A step after which the same threads are making p, and p is in the table *)
(* if and only if it was before.                                           *)
LEMMA ExclusiveFrame ==
    ASSUME Exclusive, UNCHANGED <<contended, tuples>>,
           \A t \in Threads :
               LET making == {"domain", "entry", "register", "insert"}
               IN  pc'[t] \in making => pc[t] \in making /\ req'[t] = req[t]
    PROVE  Exclusive'
<1>1. \A p : Making(p)' \subseteq Making(p)
  BY DEF Making
<1> QED BY <1>1 DEF Exclusive

(* A lookup that misses while nobody is making the pair starts making it   *)
(* alone; otherwise the pair is contended from then on.                    *)
LEMMA ExclusiveStep ==
    ASSUME TypeInv, Control, Exclusive, [Next]_vars
    PROVE  Exclusive'
<1> DEFINE making == {"domain", "entry", "register", "insert"}
<1>0. /\ pc \in [Threads -> PcValues] /\ req \in [Threads -> Pairs \cup {<<>>}]
      /\ \A t \in Threads : pc[t] \in InTuple => req[t] \in Pairs
  BY DEF TypeInv, TypeOK, ThreadsTyped, LocalsTyped, AtRest, InTuple
<1>1. ASSUME NEW t \in Threads, Lookup(t) PROVE Exclusive'
  <2>1. /\ pc[t] = "lookup" /\ UNCHANGED <<tuples, req>> /\ req[t] \in Pairs
        /\ \A u \in Threads \ {t} : pc'[u] = pc[u]
    BY <1>0, <1>1 DEF Lookup, localVars, InTuple
  <2>2. CASE req[t] \in DOMAIN tuples
    <3>1. pc'[t] \in {"idle", "next"} /\ contended' = contended
      BY <1>0, <1>1, <2>2 DEF Lookup, After
    <3> QED BY <2>1, <3>1, ExclusiveFrame
  <2>3. CASE req[t] \notin DOMAIN tuples
    <3>1. /\ pc'[t] = "domain"
          /\ contended' = IF Making(req[t]) = {} THEN contended
                                                 ELSE contended \cup {req[t]}
      BY <1>0, <1>1, <2>3 DEF Lookup
    <3>2. \A p \in Pairs : Making(p)' = IF p = req[t] THEN Making(p) \cup {t} ELSE Making(p)
      BY <2>1, <3>1 DEF Making
    <3> QED BY <2>1, <2>3, <3>1, <3>2 DEF Exclusive
  <2> QED BY <2>2, <2>3
<1>2. ASSUME NEW t \in Threads, Insert(t) PROVE Exclusive'
  <2>1. /\ pc[t] = "insert" /\ UNCHANGED <<req, contended>> /\ req[t] \in Pairs
        /\ DOMAIN tuples' = DOMAIN tuples \cup {req[t]}
        /\ pc'[t] \in {"idle", "next"}
        /\ \A u \in Threads \ {t} : pc'[u] = pc[u]
    BY <1>0, <1>2 DEF Insert, Put, After, InTuple
  <2>2. \A p \in Pairs : Making(p)' = Making(p) \ {t}
    BY <2>1 DEF Making
  <2>3. t \in Making(req[t])
    BY <2>1 DEF Making
  <2> QED BY <2>1, <2>2, <2>3 DEF Exclusive
<1>3. CASE ClearTuples
  <2>1. /\ UNCHANGED <<pc, req, contended>> /\ DOMAIN tuples' = {}
    BY <1>3 DEF ClearTuples, localVars, history, EmptyMap
  <2>2. \A p : Making(p)' = Making(p)
    BY <2>1 DEF Making
  <2> QED BY <2>1, <2>2 DEF Exclusive
<1>4. ASSUME UNCHANGED <<contended, tuples>>,
             \A t \in Threads : pc'[t] \in making => pc[t] \in making /\ req'[t] = req[t]
      PROVE  Exclusive'
  BY <1>4, ExclusiveFrame
<1>5. ASSUME NEW size \in Sizes, Register(size) PROVE Exclusive'
  BY <1>5, <1>0, <1>4 DEF Register, After, localVars, history
<1>6. ASSUME NEW a \in Addrs, DropHandle(a) PROVE Exclusive'
  BY <1>6, <1>0, <1>4 DEF DropHandle, After, localVars, history
<1>7. CASE Serve
  BY <1>7, <1>0, <1>4 DEF Serve, After, localVars, history
<1>8. ASSUME NEW p \in Pairs, GetSharedMr(p) PROVE Exclusive'
  BY <1>8, <1>0, <1>4 DEF GetSharedMr, After, localVars, history
<1>9. CASE Stop
  BY <1>9, <1>0, <1>4 DEF Stop, After, localVars, history
<1>10. CASE DropShared
  BY <1>10, <1>0, <1>4 DEF DropShared, After, localVars, history
<1>11. CASE DropOwners
  BY <1>11, <1>0, <1>4 DEF DropOwners, After, localVars, history
<1>12. ASSUME NEW t \in Threads, GetDomain(t) PROVE Exclusive'
  BY <1>12, <1>0, <1>4 DEF GetDomain, After, localVars, history
<1>13. ASSUME NEW t \in Threads, GetEntry(t) PROVE Exclusive'
  BY <1>13, <1>0, <1>4 DEF GetEntry, After, localVars, history
<1>14. ASSUME NEW t \in Threads, NEW key \in Keys, RegisterAddr(t, key) PROVE Exclusive'
  BY <1>14, <1>0, <1>4 DEF RegisterAddr, After, localVars, history
<1>15. ASSUME NEW t \in Threads, RegisterFails(t) PROVE Exclusive'
  BY <1>15, <1>0, <1>4 DEF RegisterFails, After, localVars, history
<1>16. ASSUME NEW t \in Servers, Snapshot(t) PROVE Exclusive'
  BY <1>16, <1>0, <1>4 DEF Snapshot, After, localVars, history
<1>17. ASSUME NEW t \in Servers, NEW id \in Ids, NextRegion(t, id) PROVE Exclusive'
  BY <1>17, <1>0, <1>4 DEF NextRegion, After, localVars, history
<1>18. ASSUME NEW g \in Groups, WantGroup(g) PROVE Exclusive'
  BY <1>18, <1>0, <1>4 DEF WantGroup, After, localVars, history
<1>19. ASSUME NEW p \in PDs, Accept(p) PROVE Exclusive'
  BY <1>19, <1>0, <1>4 DEF Accept, After, localVars, history
<1>20. CASE AcceptFails
  BY <1>20, <1>0, <1>4 DEF AcceptFails, After, localVars, history
<1>21. CASE JoinGroup
  BY <1>21, <1>0, <1>4 DEF JoinGroup, After, localVars, history
<1>22. ASSUME NEW s \in Sessions, SpawnSession(s) PROVE Exclusive'
  BY <1>22, <1>0, <1>4 DEF SpawnSession, After, localVars, history
<1>23. CASE HandshakeSendFails
  BY <1>23, <1>0, <1>4 DEF HandshakeSendFails, After, localVars, history
<1>24. CASE ServiceStops
  BY <1>24, <1>0, <1>4 DEF ServiceStops, After, localVars, history
<1>25. CASE ServiceEnds
  BY <1>25, <1>0, <1>4 DEF ServiceEnds, After, localVars, history
<1>26. ASSUME NEW s \in Sessions, SessionLoop(s) PROVE Exclusive'
  BY <1>26, <1>0, <1>4 DEF SessionLoop, After, localVars, history
<1>27. ASSUME NEW s \in Sessions, ReceiveUpdate(s) PROVE Exclusive'
  BY <1>27, <1>0, <1>4 DEF ReceiveUpdate, After, localVars, history
<1>28. ASSUME NEW s \in Sessions, ReceiveFails(s) PROVE Exclusive'
  BY <1>28, <1>0, <1>4 DEF ReceiveFails, After, localVars, history
<1>29. ASSUME NEW s \in Sessions, SendReply(s) PROVE Exclusive'
  BY <1>29, <1>0, <1>4 DEF SendReply, After, localVars, history
<1>30. CASE UNCHANGED vars
  BY <1>30, <1>4 DEF vars
<1> QED
  BY <1>1, <1>2, <1>3, <1>5, <1>6, <1>7, <1>8, <1>9, <1>10, <1>11,
     <1>12, <1>13, <1>14, <1>15, <1>16, <1>17, <1>18, <1>19, <1>20, <1>21,
     <1>22, <1>23, <1>24, <1>25, <1>26, <1>27, <1>28, <1>29, <1>30
     DEF Next, App, Service, Session, TupleOf, CatalogAndTuples, Threads, Servers

(* Only Lookup and Insert hand out tuples, and only Insert and ClearTuples *)
(* change the table; contended only grows.                                 *)
LEMMA KeptStep ==
    ASSUME TypeInv, Control, Exclusive, Kept, [Next]_vars
    PROVE  Kept'
<1>0. /\ pc \in [Threads -> PcValues]
      /\ \A t \in Threads : pc[t] \in InTuple => req[t] \in Pairs
      /\ \A d \in served : <<d.id, d.group>> \in Pairs
  BY DEF TypeInv, TypeOK, ThreadsTyped, HistoryTyped, LocalsTyped, AtRest, InTuple,
     TupleDescs, Pairs
<1>1. ASSUME NEW p \in Pairs, NEW m
      PROVE  <<TupleDesc(p, m).id, TupleDesc(p, m).group>> = p
  BY <1>1 DEF TupleDesc, Pairs
<1>2. ASSUME NEW t \in Threads, Lookup(t) PROVE Kept'
  <2>1. /\ req[t] \in Pairs /\ UNCHANGED <<tuples, phase>>
        /\ contended \subseteq contended'
        /\ \A d \in served' : \/ d \in served
                              \/ /\ req[t] \in DOMAIN tuples
                                 /\ d = TupleDesc(req[t], tuples[req[t]])
    BY <1>0, <1>2 DEF Lookup, InTuple
  <2> QED BY <1>1, <2>1 DEF Kept
<1>3. ASSUME NEW t \in Threads, Insert(t) PROVE Kept'
  <2>1. /\ req[t] \in Pairs /\ UNCHANGED <<contended, phase>>
        /\ DOMAIN tuples' = DOMAIN tuples \cup {req[t]}
        /\ \A p \in DOMAIN tuples' : tuples'[p] = IF p = req[t] THEN mr[t] ELSE tuples[p]
        /\ served' = served \cup {TupleDesc(req[t], mr[t])}
    BY <1>0, <1>3 DEF Insert, Put, InTuple
  <2>2. t \in Making(req[t])
    BY <1>3 DEF Insert, Making
  <2>3. req[t] \notin contended => req[t] \notin DOMAIN tuples
    BY <2>1, <2>2 DEF Exclusive
  <2>4. \A d \in served :
            phase \notin Dropped /\ <<d.id, d.group>> \notin contended =>
                <<d.id, d.group>> # req[t]
    BY <2>3 DEF Kept
  <2>5. ASSUME NEW d \in served', phase \notin Dropped, <<d.id, d.group>> \notin contended
        PROVE  /\ <<d.id, d.group>> \in DOMAIN tuples'
               /\ d = TupleDesc(<<d.id, d.group>>, tuples'[<<d.id, d.group>>])
    <3>1. CASE d \in served
      BY <2>1, <2>4, <2>5, <3>1 DEF Kept
    <3>2. CASE d = TupleDesc(req[t], mr[t])
      BY <1>1, <2>1, <3>2
    <3> QED BY <2>1, <3>1, <3>2
  <2> QED BY <2>1, <2>5 DEF Kept
<1>4. CASE ClearTuples \/ DropShared \/ DropOwners
  BY <1>4 DEF ClearTuples, DropShared, DropOwners, Kept, Dropped
<1>5. CASE Stop
  BY <1>5 DEF Stop, AppIdle, Kept, Dropped, history
<1>6. CASE UNCHANGED <<served, contended, tuples, phase>>
  BY <1>6 DEF Kept
<1>7. ASSUME NEW t \in Threads, TupleOf(t) PROVE Kept'
  BY <1>2, <1>3, <1>6, <1>7 DEF TupleOf, GetDomain, GetEntry, RegisterAddr, RegisterFails, history
<1>8. CASE App
  BY <1>4, <1>5, <1>6, <1>7, <1>8 DEF App, Register, DropHandle, Serve, GetSharedMr, Threads, history
<1>9. ASSUME NEW t \in Threads, CatalogAndTuples(t) PROVE Kept'
  BY <1>6, <1>9 DEF CatalogAndTuples, Snapshot, NextRegion, history
<1>10. CASE Service
  BY <1>6, <1>7, <1>9, <1>10 DEF Service, WantGroup, Accept, AcceptFails, JoinGroup, SpawnSession,
     HandshakeSendFails, ServiceStops, ServiceEnds, Threads, Servers, history
<1>11. ASSUME NEW s \in Sessions, Session(s) PROVE Kept'
  BY <1>6, <1>7, <1>9, <1>11 DEF Session, SessionLoop, ReceiveUpdate, ReceiveFails, SendReply,
     Threads, Servers, history
<1>12. CASE UNCHANGED vars
  BY <1>6, <1>12 DEF vars
<1> QED BY <1>8, <1>10, <1>11, <1>12 DEF Next

-----------------------------------------------------------------------------
(* The inductive invariant holds in every reachable state.                 *)
LEMMA Inductive == Spec => []IInv
<1>1. Init => IInv
  <2> SUFFICES ASSUME Init PROVE IInv
    OBVIOUS
  <2>1. TypeInv
    BY InitTypes
  <2>2. Control /\ Regions
    BY SessionsAssumption, IdSpaceAssumption
       DEF Init, Control, Regions, InTuple, Dropped, Threads, Servers, EmptyMap
  <2>3. Domains /\ Listed
    BY SessionsAssumption DEF Init, Domains, Listed, ServersKnow, InTuple, Threads, Servers, EmptyMap
  <2>4. Registrations /\ Exclusive /\ Kept
    BY DEF Init, Registrations, Exclusive, Making, Kept, EmptyMap
  <2> QED BY <2>1, <2>2, <2>3, <2>4 DEF IInv
<1>2. TypeInv /\ TypeInv' /\ IInv /\ [Next]_vars => IInv'
  BY ControlStep, RegionsStep, DomainsStep, ListedStep, RegistrationsStep, ExclusiveStep, KeptStep
     DEF IInv
<1> QED BY <1>1, <1>2, TypesInductive, PTL DEF Spec

(* The tuple table is sound in every reachable state: a registration in it *)
(* is alive, of the right buffer, in the domain of all the group's         *)
(* connections, however the threads' tuple_of calls interleave.            *)
THEOREM TableIsSound == Spec => []TableSound
<1>1. IInv => TableSound
  <2> SUFFICES ASSUME IInv, NEW p \in DOMAIN tuples
               PROVE  /\ tuples[p] \in mrs
                      /\ phase \in {"alive", "stopping"}
                      /\ p[1] \in DOMAIN catalog
                      /\ tuples[p].addr = catalog[p[1]].addr
                      /\ tuples[p].size = catalog[p[1]].size
                      /\ p[2] \in DOMAIN groups
                      /\ \A q \in groups[p[2]].conns : q = tuples[p].pd
    BY DEF TableSound
  <2>1. Backed(p, tuples[p], mrs, catalog, groups)
    BY DEF IInv, Registrations
  <2>2. phase \in {"alive", "stopping"}
    BY DEF IInv, Control, Dropped, TypeInv, TypeOK, ThreadsTyped
  <2> QED BY <2>1, <2>2 DEF Backed, IInv, Domains
<1> QED BY <1>1, Inductive, PTL

(* No registration leaks, and none is left once the provider is dropped.   *)
THEOREM NothingLeaks == Spec => []NoLeak
<1>1. IInv => NoLeak
  <2> SUFFICES ASSUME IInv PROVE NoLeak
    OBVIOUS
  <2>1. \A m \in mrs : \/ \E p \in DOMAIN tuples : tuples[p] = m
                       \/ \E t \in Threads : pc[t] = "insert" /\ mr[t] = m
    BY DEF IInv, Registrations
  <2>2. ASSUME phase \in Dropped PROVE mrs = {}
    <3>1. (\A t \in Threads : pc[t] # "insert") /\ DOMAIN tuples = {}
      BY <2>2 DEF IInv, Control, Dropped, Threads, Servers
    <3> QED BY <2>1, <3>1
  <2> QED BY <2>1, <2>2 DEF NoLeak, Dropped
<1> QED BY <1>1, Inductive, PTL

(* A registration never outlives its buffer or its protection domain.      *)
THEOREM RegistrationsPinned == Spec => []Pinned
<1>1. IInv => Pinned
  <2> SUFFICES ASSUME IInv, NEW m \in mrs PROVE m.addr \in LiveBuffers /\ m.pd \in LivePds
    BY DEF Pinned
  <2>1. \E p : Backed(p, m, mrs, catalog, groups)
    BY DEF IInv, Registrations
  <2>2. PICK p : Backed(p, m, mrs, catalog, groups)
    BY <2>1
  <2>3. m.addr = owners[p[1]] /\ p[1] \in DOMAIN owners
    BY <2>2 DEF Backed, IInv, Regions
  <2>4. m.addr \in LiveBuffers
    BY <2>3 DEF LiveBuffers
  <2>5. m.pd = groups[p[2]].pd /\ p[2] \in DOMAIN groups
    BY <2>2 DEF Backed
  <2>6. m.pd \in UNION {{groups[g].pd} \cup groups[g].conns : g \in DOMAIN groups}
    <3> DEFINE F(g) == {groups[g].pd} \cup groups[g].conns
    <3>1. m.pd \in F(p[2])
      BY <2>5
    <3>2. F(p[2]) \in {F(g) : g \in DOMAIN groups}
      BY <2>5
    <3> QED BY <3>1, <3>2
  <2>7. m.pd \in LivePds
    BY <2>6 DEF LivePds
  <2> QED BY <2>4, <2>7
<1> QED BY <1>1, Inductive, PTL

(* A tuple handed out stays valid until the provider is dropped, unless    *)
(* two threads were making that pair's tuple at the same time.             *)
THEOREM ServedTuplesStayValid == Spec => []ServedStaysValid
<1>1. IInv => ServedStaysValid
  <2> SUFFICES ASSUME IInv, phase \in {"alive", "stopping"}, NEW d \in served,
                      <<d.id, d.group>> \notin contended
               PROVE  \E m \in mrs : /\ <<d.id, d.group>> \in DOMAIN tuples
                                     /\ m = tuples[<<d.id, d.group>>]
                                     /\ d = TupleDesc(<<d.id, d.group>>, m)
    BY DEF ServedStaysValid
  <2>1. /\ <<d.id, d.group>> \in DOMAIN tuples
        /\ d = TupleDesc(<<d.id, d.group>>, tuples[<<d.id, d.group>>])
    BY DEF IInv, Kept, Dropped
  <2>2. tuples[<<d.id, d.group>>] \in mrs
    BY <2>1 DEF IInv, Registrations, Backed
  <2> QED BY <2>1, <2>2
<1> QED BY <1>1, Inductive, PTL

(* The service and the sessions never get Ok(None) from tuple_of.          *)
THEOREM ServersAlwaysKnow == Spec => []ServersKnow
<1>1. IInv => ServersKnow
  BY DEF IInv, Listed
<1> QED BY <1>1, Inductive, PTL

-----------------------------------------------------------------------------
(* The registration a thread inserts fits in beside the others: its own    *)
(* key, and the memory its region has for every group.                     *)
LEMMA InsertFits ==
    ASSUME IInv, NEW t \in Threads, pc[t] = "insert"
    PROVE  Registry!Fits(req[t], Registered(mr[t]))
<1> DEFINE table == [p \in DOMAIN tuples |-> Registered(tuples[p])]
<1> SUFFICES ASSUME NEW q \in DOMAIN tuples \ {req[t]}
             PROVE  /\ mr[t].key # tuples[q].key
                    /\ mr[t].addr = tuples[q].addr <=> req[t][1] = q[1]
                    /\ req[t][1] = q[1] => mr[t].size = tuples[q].size
  BY DEF Registry!Fits, Registered
<1>1. /\ Backed(q, tuples[q], mrs, catalog, groups)
      /\ Backed(req[t], mr[t], mrs, catalog, groups)
      /\ tuples[q] # mr[t]
  BY DEF IInv, Registrations
<1>2. mr[t].key # tuples[q].key
  BY <1>1 DEF IInv, Registrations, Backed
<1>3. /\ q[1] \in Nat /\ req[t][1] \in Nat
      /\ tuples[q].addr = q[1] + 1 /\ mr[t].addr = req[t][1] + 1
  BY <1>1, IdSpaceAssumption DEF IInv, Regions, Backed, TypeInv, TypeOK, TablesTyped, Ids
<1>4. req[t][1] = q[1] => mr[t].size = tuples[q].size
  BY <1>1 DEF Backed
<1> QED BY <1>2, <1>3, <1>4

(* An insert publishes a new pair, or replaces one that was raced for.     *)
LEMMA InsertPublishes ==
    ASSUME IInv, NEW t \in Threads, Insert(t)
    PROVE  Registry!Next
<1> DEFINE p == req[t]
           d == Registered(mr[t])
<1>1. pc[t] = "insert" /\ tuples' = Put(tuples, p, mr[t]) /\ UNCHANGED <<phase, contended>>
  BY DEF Insert
<1>2. p \in Pairs /\ mr[t] \in MRs
  BY <1>1 DEF IInv, TypeInv, LocalsTyped, AtRest
<1>3. d \in [addr : Addrs, size : Sizes, key : Keys]
  BY <1>2 DEF Registered, MRs
<1>4. Alive /\ Alive'
  BY <1>1, SessionsAssumption DEF IInv, Control, Dropped, InTuple, Threads, Servers, Alive,
     TypeInv, TypeOK, ThreadsTyped
<1>5. Registry!Fits(p, d)
  BY <1>1, InsertFits
<1>6. [q \in DOMAIN tuples' |-> Registered(tuples'[q])]
        = [q \in DOMAIN tuples \cup {p} |-> IF q = p THEN d ELSE Registered(tuples[q])]
  BY <1>1 DEF Put
<1>7. CASE p \notin DOMAIN tuples
  <2>1. Registry!Publish(p, d)
    BY <1>1, <1>4, <1>5, <1>6, <1>7 DEF Registry!Publish
  <2> QED BY <1>2, <1>3, <2>1 DEF Registry!Next
<1>8. CASE p \in DOMAIN tuples
  <2>1. p \in contended
    BY <1>1, <1>2, <1>8 DEF IInv, Exclusive, Making
  <2>2. d.addr = Registered(tuples[p]).addr /\ d.size = Registered(tuples[p]).size
    BY <1>1, <1>8 DEF IInv, Registrations, Backed, Registered
  <2>3. Registry!Replace(p, d)
    BY <1>1, <1>4, <1>5, <1>6, <1>8, <2>1, <2>2 DEF Registry!Replace
  <2> QED BY <1>2, <1>3, <2>3 DEF Registry!Next
<1> QED BY <1>7, <1>8

(* The provider's maps and threads implement the registry its readers rely *)
(* on: entries appear one by one, keep their memory and, unless raced for, *)
(* their key, and go only with the provider.                               *)
THEOREM ImplementsRegistry == Spec => ServesRegistry
<1>1. Init => Registry!Init
  BY DEF Init, Registry!Init, EmptyMap, Alive
<1>2. IInv /\ [Next]_vars => [Registry!Next]_(Registry!vars)
  <2> SUFFICES ASSUME IInv, [Next]_vars PROVE [Registry!Next]_(Registry!vars)
    OBVIOUS
  <2>1. ASSUME NEW t \in Threads, Insert(t) PROVE Registry!Next
    BY <2>1, InsertPublishes
  <2>2. ASSUME NEW t \in Threads, Lookup(t) PROVE [Registry!Next]_(Registry!vars)
    <3>1. /\ UNCHANGED <<tuples, phase>>
          /\ contended' = contended \/ contended' = contended \cup {req[t]}
      BY <2>2 DEF Lookup
    <3>2. req[t] \in Pairs
      BY <2>2 DEF Lookup, IInv, TypeInv, LocalsTyped, AtRest
    <3>3. Alive
      BY <2>2, SessionsAssumption DEF Lookup, IInv, Control, Dropped, InTuple, Threads, Servers,
         Alive, TypeInv, TypeOK, ThreadsTyped
    <3>4. CASE contended' = contended \cup {req[t]}
      <4>1. Registry!Race(req[t])
        BY <3>1, <3>3, <3>4 DEF Registry!Race, Alive
      <4> QED BY <3>2, <4>1 DEF Registry!Next
    <3>5. CASE contended' = contended
      BY <3>1, <3>5 DEF Registry!vars, Alive
    <3> QED BY <3>1, <3>4, <3>5
  <2>3. CASE ClearTuples
    <3>1. Registry!Close
      BY <2>3 DEF ClearTuples, Registry!Close, Alive, EmptyMap, history
    <3> QED BY <3>1 DEF Registry!Next
  <2>4. CASE /\ UNCHANGED <<tuples, contended>>
             /\ Alive' = Alive
    BY <2>4 DEF Registry!vars
  <2>5. CASE Stop \/ DropShared \/ DropOwners
    BY <2>4, <2>5 DEF Stop, DropShared, DropOwners, Alive, AppIdle, history
  <2>6. CASE UNCHANGED <<tuples, contended, phase>>
    BY <2>4, <2>6 DEF Alive
  <2> QED
    BY <2>1, <2>2, <2>3, <2>5, <2>6 DEF Next, App, Service, Session, TupleOf, CatalogAndTuples,
       Threads, Servers, Register, Serve, GetSharedMr, DropHandle, GetDomain, GetEntry,
       RegisterAddr, RegisterFails, Snapshot, NextRegion, WantGroup, Accept, AcceptFails,
       JoinGroup, SpawnSession, HandshakeSendFails, ServiceStops, ServiceEnds, SessionLoop,
       ReceiveUpdate, ReceiveFails, SendReply, appVars, history, vars
<1> QED BY <1>1, <1>2, Inductive, PTL DEF Spec, ServesRegistry, Registry!Spec
=============================================================================
