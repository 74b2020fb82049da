---------------------------- MODULE ReaderCache ----------------------------
(***************************************************************************)
(* What a reader process knows of a provider (src/src/readers.rs): the     *)
(* catalog, the cached tuples of each region and group, the connection     *)
(* slots, and the RemoteMemoryRegions handed out, while the provider       *)
(* registers regions and is restarted under the same address.  The         *)
(* RemoteMemoryProvider is not Sync: its calls run one at a time.  How a   *)
(* session is set up is Rendezvous' subject: it works or fails here.       *)
(*                                                                         *)
(* A region is its number in the provider's catalog, a tuple is the region *)
(* and the provider's incarnation it was made by: a restarted provider     *)
(* numbers its regions from the start and may reuse addresses and keys.    *)
(***************************************************************************)
EXTENDS Naturals, Sequences, Subsequences

CONSTANTS
    Groups,      \* groups the application updates
    Names,       \* region names, which need not be unique
    Layouts,     \* element size and alignment, as one value
    MaxStarts,   \* bound: incarnations of the provider
    MaxRegions,  \* bound: regions of an incarnation
    MaxUpdates   \* bound: calls of update

ASSUME BoundsAssumption ==
    MaxStarts \in Nat \ {0} /\ MaxRegions \in Nat /\ MaxUpdates \in Nat

VARIABLES
    now,       \* the running incarnation of the provider
    catalog,   \* incarnation -> its catalog
    opened,    \* groups with a GroupSession
    channel,   \* group -> incarnation its channel leads to, 0 for None
    slot,      \* group -> incarnation its RDMA connection leads to, 0 for None
    metadata,  \* id -> name and layout, as last advertised
    regions,   \* <<name, id>> -> cached tuples, one per group
    handed,    \* the RemoteMemoryRegions handed out
    call,      \* the update that is running
    reply,     \* the exchange on its way to it
    calls,     \* updates so far
    last,      \* group -> result of its last update
    answer     \* history: group -> the exchange its last Ok update took in

remote == <<now, catalog>>
cache  == <<metadata, regions, answer>>
vars   == <<remote, opened, channel, slot, cache, handed, call, reply, calls, last>>

Starts  == 1 .. MaxStarts
Ids     == 1 .. MaxRegions
Regions == [name : Names, layout : Layouts]
CachedRegions == [group : Groups, id : Ids, from : Starts, layout : Layouts]

NoCall  == [group |-> "none", to |-> 0]
NoReply == [from |-> 0, regions |-> <<>>, tuples |-> {}]

Init ==
    /\ now = 1
    /\ catalog = [e \in Starts |-> <<>>]
    /\ opened = {}
    /\ channel = [g \in Groups |-> 0] /\ slot = [g \in Groups |-> 0]
    /\ metadata = <<>> /\ regions = <<>> /\ handed = {}
    /\ call = NoCall /\ reply = NoReply
    /\ calls = 0
    /\ last = [g \in Groups |-> "none"] /\ answer = [g \in Groups |-> NoReply]

-----------------------------------------------------------------------------
(* The provider.                                                           *)

Register(region) ==
    /\ Len(catalog[now]) < MaxRegions
    /\ catalog' = [catalog EXCEPT ![now] = Append(@, region)]
    /\ UNCHANGED <<now, opened, channel, slot, cache, handed, call, reply, calls, last>>

(* The process ends and is started again: what it sent may still arrive.   *)
Restart ==
    /\ now < MaxStarts
    /\ now' = now + 1
    /\ UNCHANGED <<catalog, opened, channel, slot, cache, handed, call, reply, calls, last>>

(* catalog_and_tuples: every region, and the tuples of those register_addr *)
(* did not fail for.                                                       *)
Serve ==
    /\ call # NoCall
    /\ call.to = now
    /\ reply = NoReply
    /\ \E ids \in SUBSET DOMAIN catalog[now] :
           reply' = [from |-> now, regions |-> catalog[now], tuples |-> ids]
    /\ UNCHANGED <<remote, opened, channel, slot, cache, handed, call, calls, last>>

-----------------------------------------------------------------------------
(* update, for a group.                                                    *)

Session(g) == opened \cup {g}

Enter(g) ==
    /\ call = NoCall
    /\ calls < MaxUpdates
    /\ calls' = calls + 1
    /\ opened' = Session(g)

(* An open channel: the catalog and the tuples are asked for again.        *)
Refresh(g) ==
    /\ Enter(g)
    /\ channel[g] # 0
    /\ call' = [group |-> g, to |-> channel[g]]
    /\ UNCHANGED <<remote, channel, slot, cache, handed, reply, last>>

(* Mutant: a slot that holds a connection is not filled again.             *)
FillEmpty(g) == [slot EXCEPT ![g] = IF @ = 0 THEN now ELSE @]

Fill(g) == [slot EXCEPT ![g] = now]

(* No channel: a fresh session, whose connection fills the group's slot    *)
(* before its exchange is received.                                        *)
Connect(g) ==
    /\ Enter(g)
    /\ channel[g] = 0
    /\ slot' = Fill(g)
    /\ call' = [group |-> g, to |-> now]
    /\ UNCHANGED <<remote, channel, cache, handed, reply, last>>

(* The session fails before it has a connection.                           *)
ConnectFails(g) ==
    /\ Enter(g)
    /\ channel[g] = 0
    /\ last' = [last EXCEPT ![g] = "err"]
    /\ UNCHANGED <<remote, channel, slot, cache, handed, call, reply>>

Return(result) ==
    /\ last' = [last EXCEPT ![call.group] = result]
    /\ call' = NoCall
    /\ reply' = NoReply

(* The exchange fails: the remote went away, or a time-out.  The channel   *)
(* is dropped, or was never kept; the slot is not emptied.                 *)
ExchangeFails ==
    /\ call # NoCall
    /\ channel' = [channel EXCEPT ![call.group] = 0]
    /\ Return("err")
    /\ UNCHANGED <<remote, opened, slot, cache, handed, calls>>

(* ingest refuses what some other program answered: not a catalog and      *)
(* tuples, or another group's.  The channel stays.                         *)
IngestRefuses ==
    /\ reply # NoReply
    /\ channel' = [channel EXCEPT ![call.group] = call.to]
    /\ Return("err")
    /\ UNCHANGED <<remote, opened, slot, cache, handed, calls>>

(* Mutant: the cache is keyed by the element type.                         *)
KeyByType(rs, i) == <<rs[i].layout, i>>

Key(rs, i) == <<rs[i].name, i>>

(* Mutant: the layout is looked up in the metadata of the last update.     *)
CachedRegionStale(g, i) ==
    [group |-> g, id |-> i, from |-> reply.from,
     layout |-> IF i \in DOMAIN metadata THEN metadata[i].layout
                                         ELSE reply.regions[i].layout]

CachedRegion(g, i) == [group |-> g, id |-> i, from |-> reply.from,
                       layout |-> reply.regions[i].layout]

Cached(key) == IF key \in DOMAIN regions THEN regions[key] ELSE <<>>

(* Mutant: the other groups' tuples are replaced too.                      *)
RetainNone(g, entries) == <<>>

Retain(g, entries) == Keep(entries, {c \in CachedRegions : c.group # g})

(* Mutant: regions gone from the catalog stay.                             *)
LiveKeysKept == DOMAIN regions \cup {Key(reply.regions, i) : i \in DOMAIN reply.regions}

LiveKeys == {Key(reply.regions, i) : i \in DOMAIN reply.regions}

(* ingest: the catalog replaces the metadata; the group's tuples replace   *)
(* its older ones; regions gone from the catalog go from the cache.        *)
Ingest(g) ==
    /\ metadata' = reply.regions
    /\ regions' = [key \in LiveKeys |->
           LET i == key[2]
           IN  Retain(g, Cached(key))
                 \o (IF i \in reply.tuples THEN <<CachedRegion(g, i)>> ELSE <<>>)]
    /\ answer' = [answer EXCEPT ![g] = reply]

ReceiveExchange ==
    /\ reply # NoReply
    /\ channel' = [channel EXCEPT ![call.group] = call.to]
    /\ Ingest(call.group)
    /\ Return("ok")
    /\ UNCHANGED <<remote, opened, slot, handed, calls>>

-----------------------------------------------------------------------------
(* get_remote_mr, with a group or with None for the first tuple known; the *)
(* region shares the group's slot, or has an empty one of its own.         *)

Suits(group, c) == group \in {"any", c.group}

Hits(key, group) == {n \in DOMAIN regions[key] : Suits(group, regions[key][n])}

GetRemoteMr(key, group) ==
    /\ call = NoCall
    /\ key \in DOMAIN regions
    /\ \E n \in Hits(key, group) :
           /\ \A m \in Hits(key, group) : n <= m
           /\ handed' = handed \cup
                  {[cached |-> regions[key][n], shares |-> regions[key][n].group \in opened]}
    /\ UNCHANGED <<remote, opened, channel, slot, cache, call, reply, calls, last>>

Next ==
    \/ \E region \in Regions : Register(region)
    \/ Restart
    \/ Serve
    \/ \E g \in Groups : Refresh(g) \/ Connect(g) \/ ConnectFails(g)
    \/ ExchangeFails \/ IngestRefuses \/ ReceiveExchange
    \/ \E key \in Names \X Ids, group \in Groups \cup {"any"} : GetRemoteMr(key, group)

Spec == Init /\ [][Next]_vars

-----------------------------------------------------------------------------
Replies == [from : Starts, regions : Seq(Regions), tuples : SUBSET Ids] \cup {NoReply}

TypeOK ==
    /\ now \in Starts /\ catalog \in [Starts -> Seq(Regions)]
    /\ opened \subseteq Groups
    /\ channel \in [Groups -> 0 .. MaxStarts] /\ slot \in [Groups -> 0 .. MaxStarts]
    /\ metadata \in Seq(Regions)
    /\ DOMAIN regions \subseteq Names \X Ids
    /\ \A key \in DOMAIN regions : regions[key] \in Seq(CachedRegions)
    /\ handed \subseteq [cached : CachedRegions, shares : BOOLEAN]
    /\ call = NoCall \/ call \in [group : Groups, to : Starts]
    /\ reply \in Replies /\ answer \in [Groups -> Replies]
    /\ calls \in 0 .. MaxUpdates
    /\ last \in [Groups -> {"none", "ok", "err"}]

(* The tuples cached for a group, with the keys they are under.            *)
TuplesOf(g) ==
    {p \in UNION {{<<key, regions[key][n]>> : n \in DOMAIN regions[key]} :
                  key \in DOMAIN regions} : p[2].group = g}

(* The cache lists exactly the regions of the catalog, each with at most   *)
(* one tuple per group, under its own id: however updates of several       *)
(* groups, failures and restarts alternate.                                *)
MirrorsCatalog ==
    /\ DOMAIN regions = {Key(metadata, i) : i \in DOMAIN metadata}
    /\ \A key \in DOMAIN regions :
           /\ \A m, n \in DOMAIN regions[key] :
                  regions[key][m].group = regions[key][n].group => m = n
           /\ \A n \in DOMAIN regions[key] : regions[key][n].id = key[2]

(* After an update that returned Ok, every tuple get_remote_mr can find    *)
(* for the group was made by the provider the group's slot is connected    *)
(* to: keys of an earlier incarnation are not used on a new connection.    *)
SlotMatchesTuples ==
    \A g \in Groups :
        last[g] = "ok" => \A p \in TuplesOf(g) : p[2].from = slot[g]

(* The updates of other groups lose nothing: as long as they reach the     *)
(* same provider, each region the group's last update brought a tuple for  *)
(* can still be looked up.                                                 *)
NothingLost ==
    \A g \in Groups :
        (/\ last[g] = "ok"
         /\ \A h \in Groups : answer[h].from \in {0, slot[g]}) =>
            {p[2].id : p \in TuplesOf(g)} = answer[g].tuples

(* A region handed out can be used, and used safely: typed accesses are    *)
(* checked against the layout of the region its tuple reaches, never       *)
(* another's, and it shares its group's slot, so that a later update       *)
(* reconnects it (the empty slot is never needed).  Across a restart the   *)
(* tuple itself is stale: see SlotMatchesTuples.                           *)
HandlesUsable ==
    \A h \in handed :
        /\ h.shares
        /\ h.cached.id \in DOMAIN catalog[h.cached.from]
        /\ h.cached.layout = catalog[h.cached.from][h.cached.id].layout
=============================================================================
