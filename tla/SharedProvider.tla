--------------------------- MODULE SharedProvider ---------------------------
(***************************************************************************)
(* The provider side of rdmalib (src/src/providers.rs): the region         *)
(* catalog, the reader groups with their protection domains, and the table *)
(* of (region, group) tuples, used at the same time by the application     *)
(* thread, the service thread and the session threads.                     *)
(*                                                                         *)
(* Each of the three maps has a mutex of its own and tuple_of takes them   *)
(* one at a time, never nested; a step here is the code between two lock   *)
(* acquisitions.  What happens on the wire (greeting, group join, update   *)
(* requests, failures and timeouts of sends and receives) is the           *)
(* environment here, and is modelled in Rendezvous.                        *)
(***************************************************************************)
EXTENDS Naturals, FiniteSets

CONSTANTS
    Groups,      \* group ids readers may ask for
    Sessions,    \* slots for session threads; bounds the sessions open at once
    Sizes,       \* byte sizes of the buffers the application shares
    Keys,        \* rkeys the device hands out
    PDs,         \* protection domains the device hands out
    NoKey, NoPd, \* stand for "no rkey" and "no domain"
    IdSpace,     \* number of region ids: 2^32 in the code (next_id is a u32)
    MaxRegions   \* bound: calls of register / register_typed

ASSUME SessionsAssumption == "app" \notin Sessions /\ "service" \notin Sessions
ASSUME SizesAssumption    == Sizes \subseteq Nat
ASSUME AbsentAssumption   == NoKey \notin Keys /\ NoPd \notin PDs
(* next_id does not wrap: at most 2^32 regions in a provider's lifetime.   *)
ASSUME IdSpaceAssumption  == /\ IdSpace \in Nat \ {0}
                             /\ MaxRegions \in Nat
                             /\ MaxRegions <= IdSpace

VARIABLES
    nextId,     \* Cell<u32>: the next region id
    allocated,  \* buffers allocated so far; a buffer's address is its number
    catalog,    \* id -> address and size captured at registration
    owners,     \* id -> address: the provider's share of each buffer
    handles,    \* addresses of the buffers whose application handle lives
    groups,     \* group -> its domain and the domains of its connections
    tuples,     \* <<id, group>> -> the registration in the group's domain
    mrs,        \* registrations alive on the device
    shutdown,   \* the flag shared with the service and session threads
    phase,      \* progress of the provider's drop
    pc,         \* where each thread is
    todo,       \* regions of the snapshot a thread has not come to yet
    req,        \* the <<id, group>> a thread's tuple_of is about
    pd,         \* the domain handle a thread has cloned
    ent,        \* the address and size a thread has copied from the catalog
    mr,         \* the registration a thread holds and has not stored yet
    served,     \* history: tuples returned by tuple_of
    contended,  \* history: pairs two threads were making at the same time
    unknown     \* history: threads that got Ok(None) from tuple_of

vars == <<nextId, allocated, catalog, owners, handles, groups, tuples, mrs,
          shutdown, phase, pc, todo, req, pd, ent, mr, served, contended,
          unknown>>

appVars    == <<nextId, allocated, catalog, owners, handles>>
localVars  == <<todo, req, pd, ent, mr>>
history    == <<served, contended, unknown>>

Servers == {"service"} \cup Sessions    \* threads that run catalog_and_tuples
Threads == {"app"} \cup Servers
Ids     == 0 .. IdSpace - 1
Addrs   == 1 .. MaxRegions
Pairs   == Ids \X Groups

Entries == [addr : Addrs, size : Sizes]
MRs     == [addr : Addrs, size : Sizes, key : Keys, pd : PDs]
NoEntry == [addr |-> 0, size |-> 0]
NoMr    == [addr |-> 0, size |-> 0, key |-> NoKey, pd |-> NoPd]

(* HashMap::insert.                                                        *)
Put(f, k, v) == [x \in DOMAIN f \cup {k} |-> IF x = k THEN v ELSE f[x]]
EmptyMap     == [x \in {} |-> 0]

(* A Vec lives while the provider's owner map or a handle shares it.       *)
LiveBuffers == {owners[i] : i \in DOMAIN owners} \cup handles

(* A domain lives while a group, one of its connections, or a thread in    *)
(* the middle of tuple_of or of an accept holds a handle to it.  (A        *)
(* registration only keeps the raw pointer: MemoryRegion.pd.)              *)
LivePds == UNION {{groups[g].pd} \cup groups[g].conns : g \in DOMAIN groups}
             \cup ({pd[t] : t \in Threads} \ {NoPd})

(* Threads between their miss in the table and their insert.               *)
Making(p) == {t \in Threads : /\ req[t] = p
                              /\ pc[t] \in {"domain", "entry", "register", "insert"}}

Init ==
    /\ nextId = 0 /\ allocated = 0
    /\ catalog = EmptyMap /\ owners = EmptyMap /\ handles = {}
    /\ groups = EmptyMap /\ tuples = EmptyMap /\ mrs = {}
    /\ shutdown = FALSE /\ phase = "alive"
    /\ pc = [t \in Threads |-> IF t = "app" THEN "idle" ELSE "off"]
    /\ todo = [t \in Threads |-> {}]
    /\ req = [t \in Threads |-> <<>>]
    /\ pd = [t \in Threads |-> NoPd]
    /\ ent = [t \in Threads |-> NoEntry]
    /\ mr = [t \in Threads |-> NoMr]
    /\ served = {} /\ contended = {} /\ unknown = {}

-----------------------------------------------------------------------------
(* The application thread.  The provider is not Sync: it makes its calls   *)
(* one at a time.                                                          *)

AppIdle == phase = "alive" /\ pc["app"] = "idle"

(* Mutants: the buffer is left to the handle alone; the counter is wider.  *)
OwnedByHandle(id, a) == owners
NextIdWide == nextId + 1

Owned(id, a) == Put(owners, id, a)
NextId == (nextId + 1) % IdSpace

(* register_typed: a fresh buffer under the next id; in a release build    *)
(* the u32 counter wraps.                                                  *)
Register(size) ==
    /\ AppIdle
    /\ allocated < MaxRegions
    /\ allocated' = allocated + 1
    /\ nextId' = NextId
    /\ owners' = Owned(nextId, allocated + 1)
    /\ handles' = handles \cup {allocated + 1}
    /\ catalog' = Put(catalog, nextId, [addr |-> allocated + 1, size |-> size])
    /\ UNCHANGED <<groups, tuples, mrs, shutdown, phase, pc, localVars, history>>

(* The application drops a region's handle, before or after the provider.  *)
DropHandle(a) ==
    /\ a \in handles
    /\ handles' = handles \ {a}
    /\ UNCHANGED <<nextId, allocated, catalog, owners, groups, tuples, mrs,
                   shutdown, phase, pc, localVars, history>>

(* serve: starts the service thread; an error when it already runs.        *)
Serve ==
    /\ AppIdle
    /\ pc["service"] = "off"
    /\ pc' = [pc EXCEPT !["service"] = "poll"]
    /\ UNCHANGED <<appVars, groups, tuples, mrs, shutdown, phase, localVars, history>>

(* get_shared_mr, for any id and group, known or not.                      *)
GetSharedMr(p) ==
    /\ AppIdle
    /\ pc' = [pc EXCEPT !["app"] = "lookup"]
    /\ req' = [req EXCEPT !["app"] = p]
    /\ UNCHANGED <<appVars, groups, tuples, mrs, shutdown, phase, todo, pd,
                   ent, mr, history>>

(* Drop, first half: raise the flag, then wait in join for the service.    *)
Stop ==
    /\ AppIdle
    /\ phase' = "stopping"
    /\ shutdown' = (pc["service"] # "off")
    /\ UNCHANGED <<appVars, groups, tuples, mrs, pc, localVars, history>>

(* Drop, second half: the service is joined (or never ran), every          *)
(* registration in the table is dropped.                                   *)
ClearTuples ==
    /\ phase = "stopping"
    /\ pc["service"] \in {"off", "ended"}
    /\ phase' = "cleared"
    /\ mrs' = mrs \ {tuples[p] : p \in DOMAIN tuples}
    /\ tuples' = EmptyMap
    /\ UNCHANGED <<appVars, groups, shutdown, pc, localVars, history>>

(* The fields then drop in their order: shared (with the groups, their     *)
(* connections and domains), then owners.                                  *)
DropShared ==
    /\ phase = "cleared"
    /\ phase' = "unshared"
    /\ catalog' = EmptyMap
    /\ groups' = EmptyMap
    /\ UNCHANGED <<nextId, allocated, owners, handles, tuples, mrs, shutdown,
                   pc, localVars, history>>

DropOwners ==
    /\ phase = "unshared"
    /\ phase' = "gone"
    /\ owners' = EmptyMap
    /\ UNCHANGED <<nextId, allocated, catalog, handles, groups, tuples, mrs,
                   shutdown, pc, localVars, history>>

-----------------------------------------------------------------------------
(* tuple_of, for the thread t and the pair req[t].                         *)

(* Where a thread goes when tuple_of returns.                              *)
After(t) == IF t = "app" THEN "idle" ELSE "next"

TupleDesc(p, m) == [id |-> p[1], group |-> p[2], addr |-> m.addr,
                    size |-> m.size, key |-> m.key]

(* Mutant: the table is never consulted.                                   *)
HitNever(p) == FALSE

Hit(p) == p \in DOMAIN tuples

(* Under the tuples lock: a hit returns the stored registration's tuple.   *)
Lookup(t) ==
    /\ pc[t] = "lookup"
    /\ IF Hit(req[t])
       THEN /\ pc' = [pc EXCEPT ![t] = After(t)]
            /\ served' = served \cup {TupleDesc(req[t], tuples[req[t]])}
            /\ UNCHANGED contended
       ELSE /\ pc' = [pc EXCEPT ![t] = "domain"]
            /\ contended' = IF Making(req[t]) = {} THEN contended
                                                   ELSE contended \cup {req[t]}
            /\ UNCHANGED served
    /\ UNCHANGED <<appVars, groups, tuples, mrs, shutdown, phase, localVars, unknown>>

(* Under the groups lock: clone the domain handle, or return Ok(None).     *)
GetDomain(t) ==
    /\ pc[t] = "domain"
    /\ IF req[t][2] \in DOMAIN groups
       THEN /\ pd' = [pd EXCEPT ![t] = groups[req[t][2]].pd]
            /\ pc' = [pc EXCEPT ![t] = "entry"]
            /\ UNCHANGED unknown
       ELSE /\ pc' = [pc EXCEPT ![t] = After(t)]
            /\ unknown' = unknown \cup {t}
            /\ UNCHANGED pd
    /\ UNCHANGED <<appVars, groups, tuples, mrs, shutdown, phase, todo, req,
                   ent, mr, served, contended>>

(* Under the catalog lock: copy the address and size, or return Ok(None).  *)
GetEntry(t) ==
    /\ pc[t] = "entry"
    /\ IF req[t][1] \in DOMAIN catalog
       THEN /\ ent' = [ent EXCEPT ![t] = catalog[req[t][1]]]
            /\ pc' = [pc EXCEPT ![t] = "register"]
            /\ UNCHANGED <<pd, unknown>>
       ELSE /\ pc' = [pc EXCEPT ![t] = After(t)]
            /\ unknown' = unknown \cup {t}
            /\ pd' = [pd EXCEPT ![t] = NoPd]
            /\ UNCHANGED ent
    /\ UNCHANGED <<appVars, groups, tuples, mrs, shutdown, phase, todo, req,
                   mr, served, contended>>

(* register_addr with no lock held: the device picks a key no living       *)
(* registration has.                                                       *)
RegisterAddr(t, key) ==
    /\ pc[t] = "register"
    /\ ent[t].size # 0
    /\ \A m \in mrs : m.key # key
    /\ LET new == [addr |-> ent[t].addr, size |-> ent[t].size,
                   key |-> key, pd |-> pd[t]]
       IN  /\ mrs' = mrs \cup {new}
           /\ mr' = [mr EXCEPT ![t] = new]
    /\ pc' = [pc EXCEPT ![t] = "insert"]
    /\ ent' = [ent EXCEPT ![t] = NoEntry]
    /\ UNCHANGED <<appVars, groups, tuples, shutdown, phase, todo, req, pd, history>>

(* register_addr fails: always for an empty buffer, and whenever           *)
(* ibv_reg_mr does.  tuple_of returns Err, the domain handle is dropped.   *)
RegisterFails(t) ==
    /\ pc[t] = "register"
    /\ pc' = [pc EXCEPT ![t] = After(t)]
    /\ ent' = [ent EXCEPT ![t] = NoEntry]
    /\ pd' = [pd EXCEPT ![t] = NoPd]
    /\ UNCHANGED <<appVars, groups, tuples, mrs, shutdown, phase, todo, req, mr, history>>

(* Mutant: the registration that is replaced stays.                        *)
ReplacedNone(p) == {}

Replaced(p) == {tuples[q] : q \in DOMAIN tuples \cap {p}}

(* Under the tuples lock: HashMap::insert drops the registration it        *)
(* replaces, which deregisters it.                                         *)
Insert(t) ==
    /\ pc[t] = "insert"
    /\ mrs' = mrs \ Replaced(req[t])
    /\ tuples' = Put(tuples, req[t], mr[t])
    /\ served' = served \cup {TupleDesc(req[t], mr[t])}
    /\ mr' = [mr EXCEPT ![t] = NoMr]
    /\ pd' = [pd EXCEPT ![t] = NoPd]
    /\ pc' = [pc EXCEPT ![t] = After(t)]
    /\ UNCHANGED <<appVars, groups, shutdown, phase, todo, req, ent, contended, unknown>>

TupleOf(t) ==
    \/ Lookup(t)
    \/ GetDomain(t)
    \/ GetEntry(t)
    \/ \E key \in Keys : RegisterAddr(t, key)
    \/ RegisterFails(t)
    \/ Insert(t)

-----------------------------------------------------------------------------
(* catalog_and_tuples, for a thread serving group req[t][2].               *)

Group(t) == req[t][2]

(* Mutant: the id that is handed out next is taken for a region's.         *)
CatalogIdsToNext == 0 .. nextId

CatalogIds == DOMAIN catalog

(* The catalog is copied under its lock, which is then released.           *)
Snapshot(t) ==
    /\ pc[t] = "snapshot"
    /\ todo' = [todo EXCEPT ![t] = CatalogIds]
    /\ pc' = [pc EXCEPT ![t] = "next"]
    /\ UNCHANGED <<appVars, groups, tuples, mrs, shutdown, phase, req, pd,
                   ent, mr, history>>

(* The next region of the snapshot, in the HashMap's arbitrary order.      *)
NextRegion(t, id) ==
    /\ pc[t] = "next"
    /\ id \in todo[t]
    /\ todo' = [todo EXCEPT ![t] = @ \ {id}]
    /\ req' = [req EXCEPT ![t] = <<id, Group(t)>>]
    /\ pc' = [pc EXCEPT ![t] = "lookup"]
    /\ UNCHANGED <<appVars, groups, tuples, mrs, shutdown, phase, pd, ent, mr, history>>

CatalogAndTuples(t) == Snapshot(t) \/ \E id \in Ids : NextRegion(t, id)

-----------------------------------------------------------------------------
(* The service thread.                                                     *)

(* A reader asked for g: the group's domain is looked up and cloned before *)
(* the blocking accept.                                                    *)
WantGroup(g) ==
    /\ pc["service"] = "poll"
    /\ ~shutdown
    /\ \E s \in Sessions : pc[s] = "off"
    /\ pd' = [pd EXCEPT !["service"] =
                IF g \in DOMAIN groups THEN groups[g].pd ELSE NoPd]
    /\ req' = [req EXCEPT !["service"] = <<0, g>>]
    /\ pc' = [pc EXCEPT !["service"] = "accept"]
    /\ UNCHANGED <<appVars, groups, tuples, mrs, shutdown, phase, todo, ent, mr, history>>

(* Mutant: every connection gets a domain of its own.                      *)
OwnDomain(p) == p \notin LivePds

DomainOf(p) == IF pd["service"] # NoPd THEN p = pd["service"] ELSE p \notin LivePds

(* accept_into the group's domain, or accept with a domain of its own.     *)
Accept(p) ==
    /\ pc["service"] = "accept"
    /\ DomainOf(p)
    /\ pd' = [pd EXCEPT !["service"] = p]
    /\ pc' = [pc EXCEPT !["service"] = "join"]
    /\ UNCHANGED <<appVars, groups, tuples, mrs, shutdown, phase, todo, req,
                   ent, mr, history>>

(* The accept fails: handshake returns, the next reader is polled for.     *)
AcceptFails ==
    /\ pc["service"] = "accept"
    /\ pd' = [pd EXCEPT !["service"] = NoPd]
    /\ pc' = [pc EXCEPT !["service"] = "poll"]
    /\ UNCHANGED <<appVars, groups, tuples, mrs, shutdown, phase, todo, req,
                   ent, mr, history>>

(* entry(group).or_insert_with(connection's domain), push the connection.  *)
JoinGroup ==
    LET g == Group("service")
        p == pd["service"]
        old == IF g \in DOMAIN groups THEN groups[g] ELSE [pd |-> p, conns |-> {}]
    IN  /\ pc["service"] = "join"
        /\ groups' = Put(groups, g, [old EXCEPT !.conns = @ \cup {p}])
        /\ pd' = [pd EXCEPT !["service"] = NoPd]
        /\ pc' = [pc EXCEPT !["service"] = "snapshot"]
        /\ UNCHANGED <<appVars, tuples, mrs, shutdown, phase, todo, req, ent,
                       mr, history>>

(* Both messages are sent: the session continues on a thread of its own.   *)
SpawnSession(s) ==
    /\ pc["service"] = "next" /\ todo["service"] = {}
    /\ pc[s] = "off"
    /\ pc' = [pc EXCEPT !["service"] = "poll", ![s] = "loop"]
    /\ req' = [req EXCEPT ![s] = <<0, Group("service")>>]
    /\ UNCHANGED <<appVars, groups, tuples, mrs, shutdown, phase, todo, pd,
                   ent, mr, history>>

(* A send fails: handshake returns and no session is spawned.              *)
HandshakeSendFails ==
    /\ pc["service"] = "next" /\ todo["service"] = {}
    /\ pc' = [pc EXCEPT !["service"] = "poll"]
    /\ UNCHANGED <<appVars, groups, tuples, mrs, shutdown, phase, localVars, history>>

(* The flag is up: leave the loop and join the open sessions.              *)
ServiceStops ==
    /\ pc["service"] = "poll"
    /\ shutdown
    /\ pc' = [pc EXCEPT !["service"] = "joining"]
    /\ UNCHANGED <<appVars, groups, tuples, mrs, shutdown, phase, localVars, history>>

(* run's last loop: every session has been joined.                         *)
ServiceEnds ==
    /\ pc["service"] = "joining"
    /\ \A s \in Sessions : pc[s] = "off"
    /\ pc' = [pc EXCEPT !["service"] = "ended"]
    /\ UNCHANGED <<appVars, groups, tuples, mrs, shutdown, phase, localVars, history>>

-----------------------------------------------------------------------------
(* A session thread: wait_for_updates.                                     *)

(* Mutant: the session does not look at the flag.                          *)
StopsNever == FALSE

Stops == shutdown

(* The loop condition: the flag is only looked at between two requests.    *)
SessionLoop(s) ==
    /\ pc[s] = "loop"
    /\ pc' = [pc EXCEPT ![s] = IF Stops THEN "off" ELSE "wait"]
    /\ UNCHANGED <<appVars, groups, tuples, mrs, shutdown, phase, localVars, history>>

ReceiveUpdate(s) ==
    /\ pc[s] = "wait"
    /\ pc' = [pc EXCEPT ![s] = "snapshot"]
    /\ UNCHANGED <<appVars, groups, tuples, mrs, shutdown, phase, localVars, history>>

(* Another message, a hang-up or the message timeout ends the session.     *)
ReceiveFails(s) ==
    /\ pc[s] = "wait"
    /\ pc' = [pc EXCEPT ![s] = "off"]
    /\ UNCHANGED <<appVars, groups, tuples, mrs, shutdown, phase, localVars, history>>

(* Both messages are sent, or one of the sends fails.                      *)
SendReply(s) ==
    /\ pc[s] = "next" /\ todo[s] = {}
    /\ \E next \in {"loop", "off"} : pc' = [pc EXCEPT ![s] = next]
    /\ UNCHANGED <<appVars, groups, tuples, mrs, shutdown, phase, localVars, history>>

-----------------------------------------------------------------------------
App ==
    \/ \E size \in Sizes : Register(size)
    \/ \E a \in Addrs : DropHandle(a)
    \/ Serve
    \/ \E p \in Pairs : GetSharedMr(p)
    \/ Stop
    \/ ClearTuples
    \/ DropShared
    \/ DropOwners
    \/ TupleOf("app")

Service ==
    \/ \E g \in Groups : WantGroup(g)
    \/ \E p \in PDs : Accept(p)
    \/ AcceptFails
    \/ JoinGroup
    \/ \E s \in Sessions : SpawnSession(s)
    \/ HandshakeSendFails
    \/ ServiceStops
    \/ ServiceEnds
    \/ CatalogAndTuples("service")
    \/ TupleOf("service")

Session(s) ==
    \/ SessionLoop(s)
    \/ ReceiveUpdate(s)
    \/ ReceiveFails(s)
    \/ SendReply(s)
    \/ CatalogAndTuples(s)
    \/ TupleOf(s)

Next == App \/ Service \/ \E s \in Sessions : Session(s)

Spec == Init /\ [][Next]_vars

(* The scheduling the code has: every thread keeps running.  A receive     *)
(* returns within IO_TIMEOUT, so a session never stays in "wait"; nothing  *)
(* bounds the RDMA accept, so nothing is assumed of it.                    *)
AppFinishes == TupleOf("app") \/ ClearTuples \/ DropShared \/ DropOwners

Fairness ==
    /\ WF_vars(AppFinishes)
    /\ WF_vars(pc["service"] # "accept" /\ Service)
    /\ \A s \in Sessions : WF_vars(Session(s))

FairSpec == Spec /\ Fairness

-----------------------------------------------------------------------------
PcValues == {"idle", "off", "poll", "accept", "join", "snapshot", "next",
             "lookup", "domain", "entry", "register", "insert", "joining",
             "ended", "loop", "wait"}

TupleDescs == [id : Ids, group : Groups, addr : Addrs, size : Sizes, key : Keys]

TablesTyped ==
    /\ nextId \in Ids
    /\ allocated \in 0 .. MaxRegions
    /\ DOMAIN catalog \subseteq Ids
    /\ \A i \in DOMAIN catalog : catalog[i] \in Entries
    /\ DOMAIN owners \subseteq Ids
    /\ \A i \in DOMAIN owners : owners[i] \in Addrs
    /\ handles \subseteq Addrs
    /\ DOMAIN groups \subseteq Groups
    /\ \A g \in DOMAIN groups : groups[g] \in [pd : PDs, conns : SUBSET PDs]
    /\ DOMAIN tuples \subseteq Pairs
    /\ \A p \in DOMAIN tuples : tuples[p] \in MRs
    /\ mrs \subseteq MRs

ThreadsTyped ==
    /\ shutdown \in BOOLEAN
    /\ phase \in {"alive", "stopping", "cleared", "unshared", "gone"}
    /\ pc \in [Threads -> PcValues]
    /\ todo \in [Threads -> SUBSET Ids]
    /\ req \in [Threads -> Pairs \cup {<<>>}]
    /\ pd \in [Threads -> PDs \cup {NoPd}]
    /\ ent \in [Threads -> Entries \cup {NoEntry}]
    /\ mr \in [Threads -> MRs \cup {NoMr}]

HistoryTyped ==
    /\ served \subseteq TupleDescs
    /\ contended \subseteq Pairs
    /\ unknown \subseteq Threads

(* The types of the provider's maps and of the threads' local variables.   *)
TypeOK == TablesTyped /\ ThreadsTyped /\ HistoryTyped

(* Every entry of the tuple table is a registration that is alive on the   *)
(* device, of the buffer the catalog has under that id, in the domain all  *)
(* connections of that group were accepted into (tuple_of, handshake).     *)
TableSound ==
    \A p \in DOMAIN tuples :
        /\ tuples[p] \in mrs
        /\ phase \in {"alive", "stopping"}
        /\ p[1] \in DOMAIN catalog
        /\ tuples[p].addr = catalog[p[1]].addr
        /\ tuples[p].size = catalog[p[1]].size
        /\ p[2] \in DOMAIN groups
        /\ \A q \in groups[p[2]].conns : q = tuples[p].pd

(* No registration is lost, whatever the interleaving of tuple_of calls:   *)
(* one that is alive is in the table, or about to be put there by exactly  *)
(* one thread.  So none survives the provider's drop.                      *)
NoLeak ==
    /\ \A m \in mrs :
         \/ \E p \in DOMAIN tuples : tuples[p] = m
         \/ \E t \in Threads : pc[t] = "insert" /\ mr[t] = m
    /\ phase \in {"cleared", "unshared", "gone"} => mrs = {}

(* A registration never outlives the buffer it pins or the domain it is    *)
(* in: the safety contract of rdma::ProtectionDomain and of register_addr, *)
(* which the order of the provider's drop and the joined threads keep.     *)
Pinned ==
    \A m \in mrs : m.addr \in LiveBuffers /\ m.pd \in LivePds

(* A tuple that was handed out stays usable until the provider goes away   *)
(* (its registration is "kept alive for as long as the provider is"),      *)
(* provided no two threads were making that pair's tuple at once.          *)
ServedStaysValid ==
    phase \in {"alive", "stopping"} =>
        \A d \in served :
            <<d.id, d.group>> \notin contended =>
                \E m \in mrs : /\ <<d.id, d.group>> \in DOMAIN tuples
                             /\ m = tuples[<<d.id, d.group>>]
                             /\ d = TupleDesc(<<d.id, d.group>>, m)

(* The same promise without the proviso, as the comments on tuple_of and   *)
(* get_shared_mr make it: repeated requests return the same tuple.         *)
SameTuple ==
    \A d, e \in served : d.id = e.id /\ d.group = e.group => d = e

(* The service and the sessions never get Ok(None) from tuple_of: the      *)
(* group they serve was joined before and every id of their snapshot stays *)
(* in the catalog, so a reply lacks a region's tuple only when             *)
(* register_addr failed.                                                   *)
ServersKnow == unknown \cap Servers = {}

(* The three maps and their threads implement the registry of tuples the   *)
(* readers rely on.                                                        *)
Alive == phase \in {"alive", "stopping"}
Registered(m) == [addr |-> m.addr, size |-> m.size, key |-> m.key]

Registry == INSTANCE TupleRegistry
              WITH Tuples <- [addr : Addrs, size : Sizes, key : Keys],
                   table <- [p \in DOMAIN tuples |-> Registered(tuples[p])],
                   raced <- contended,
                   open <- Alive
ServesRegistry == Registry!Spec

(* Dropping the provider ends, unless the service stays blocked in the     *)
(* RDMA accept: every session and the service leave, and the buffers are   *)
(* released.                                                               *)
DropEnds ==
    []<>(pc["service"] # "accept") => ((phase = "stopping") ~> (phase = "gone"))
=============================================================================
