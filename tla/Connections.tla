---------------------------- MODULE Connections ----------------------------
(***************************************************************************)
(* The connection manager and verbs objects of one process                 *)
(* (src/src/rdma/verbs.rs): how Connection::connect, Listener::bind and    *)
(* accept_impl create them step by step, each step failing or not, and how *)
(* Drop releases them.  A domain is named after the connection it was      *)
(* allocated for.  Event contents are Rendezvous' subject, registrations   *)
(* are SharedProvider's and OneSided's.                                    *)
(***************************************************************************)
EXTENDS Naturals, Sequences

CONSTANTS
    Conns,    \* connections; bounds how many are ever made
    Devices,  \* RDMA devices of the machine
    NoPd      \* stands for "no domain"

ASSUME ConnsAssumption == "listener" \notin Conns /\ NoPd \notin Conns

VARIABLES
    alive,     \* objects that exist: <<kind, whose>>
    at,        \* each connection's state
    accepted,  \* connections made by accept_impl
    dev,       \* the device a connection's id is bound to
    holds,     \* objects a Connection's non-null fields lead to
    pd,        \* Connection.pd
    arg,       \* the domain a running set-up has not stored in pd yet
    clones,    \* domains the application holds a handle of
    lst,       \* the Listener
    lost       \* history: objects no variable of the program leads to

vars == <<alive, at, accepted, dev, holds, pd, arg, clones, lst, lost>>

Init ==
    /\ alive = {} /\ lost = {}
    /\ at = [k \in Conns |-> "unused"]
    /\ accepted = {}
    /\ dev \in [Conns -> Devices]
    /\ holds = [k \in Conns |-> {}]
    /\ pd = [k \in Conns |-> NoPd] /\ arg = [k \in Conns |-> NoPd]
    /\ clones = {}
    /\ lst = "none"

(* The handles of a domain: the Arc's count.                               *)
Holders(p, pds, args, cs) == {k \in Conns : pds[k] = p \/ args[k] = p}
                               \cup {c \in cs : c = p}

-----------------------------------------------------------------------------
(* Set-up.                                                                 *)

(* connect: the channel, and a Connection that owns it.                    *)
Connect(k) ==
    /\ at[k] = "unused"
    /\ at' = [at EXCEPT ![k] = "building"]
    /\ alive' = alive \cup {<<"channel", k>>}
    /\ holds' = [holds EXCEPT ![k] = {"channel"}]
    /\ UNCHANGED <<accepted, dev, pd, arg, clones, lst, lost>>

(* One thread at a time is in accept_impl: the Listener is not Sync.       *)
Accepting == \E k \in accepted : at[k] = "building"

(* accept_impl: a connection request, whose child id the Connection owns;  *)
(* its channel is the listener's.  (Another event is an error, and leaves  *)
(* everything as it is.)                                                   *)
Request(k) ==
    /\ lst = "up" /\ ~Accepting
    /\ at[k] = "unused"
    /\ at' = [at EXCEPT ![k] = "building"]
    /\ accepted' = accepted \cup {k}
    /\ alive' = alive \cup {<<"id", k>>}
    /\ holds' = [holds EXCEPT ![k] = {"id"}]
    /\ UNCHANGED <<dev, pd, arg, clones, lst, lost>>

Building(k, has, lacks) ==
    at[k] = "building" /\ has \subseteq holds[k] /\ lacks \cap holds[k] = {}

Create(k, kind) ==
    /\ alive' = alive \cup {<<kind, k>>}
    /\ holds' = [holds EXCEPT ![k] = @ \cup {kind}]

CreateId(k) ==
    /\ Building(k, {"channel"}, {"id"})
    /\ Create(k, "id")
    /\ UNCHANGED <<at, accepted, dev, pd, arg, clones, lst, lost>>

(* ProtectionDomain::alloc: connect, once the address and the route are    *)
(* resolved, and accept.                                                   *)
AllocPd(k) ==
    /\ Building(k, {"id"}, {"cq"})
    /\ arg[k] = NoPd
    /\ alive' = alive \cup {<<"pd", k>>}
    /\ arg' = [arg EXCEPT ![k] = k]
    /\ UNCHANGED <<at, accepted, dev, holds, pd, clones, lst, lost>>

(* Mutant: any device will do.                                             *)
AnyDevice(k, p) == TRUE

SameDevice(k, p) == dev[k] = dev[p]

(* accept_into: a clone of the group's domain, if it is on the device the  *)
(* request arrived on; Fail is what happens otherwise.                     *)
ClonePd(k, p) ==
    /\ k \in accepted
    /\ Building(k, {"id"}, {"cq"})
    /\ arg[k] = NoPd
    /\ p \in clones
    /\ SameDevice(k, p)
    /\ arg' = [arg EXCEPT ![k] = p]
    /\ UNCHANGED <<alive, at, accepted, dev, holds, pd, clones, lst, lost>>

CreateCq(k) ==
    /\ Building(k, {"id"}, {"cq"})
    /\ arg[k] # NoPd
    /\ Create(k, "cq")
    /\ UNCHANGED <<at, accepted, dev, pd, arg, clones, lst, lost>>

(* rdma_create_qp; only then does the connection hold the domain.          *)
CreateQp(k) ==
    /\ Building(k, {"cq"}, {"qp"})
    /\ Create(k, "qp")
    /\ pd' = [pd EXCEPT ![k] = arg[k]]
    /\ arg' = [arg EXCEPT ![k] = NoPd]
    /\ UNCHANGED <<at, accepted, dev, clones, lst, lost>>

(* rdma_connect or rdma_accept, and the ESTABLISHED event.                 *)
Establish(k) ==
    /\ Building(k, {"qp"}, {})
    /\ at' = [at EXCEPT ![k] = "up"]
    /\ UNCHANGED <<alive, accepted, dev, holds, pd, arg, clones, lst, lost>>

(* The objects that die with a domain's last handle.                       *)
Unused(pds, args, cs) ==
    {o \in alive : o[1] = "pd" /\ Holders(o[2], pds, args, cs) = {}}

(* Any step of the set-up fails: the domain not yet stored is dropped when *)
(* create_resources returns, the Connection by its caller.                 *)
Fail(k) ==
    /\ at[k] = "building"
    /\ at' = [at EXCEPT ![k] = "dropping"]
    /\ arg' = [arg EXCEPT ![k] = NoPd]
    /\ alive' = alive \ Unused(pd, arg', clones)
    /\ UNCHANGED <<accepted, dev, holds, pd, clones, lst, lost>>

(* The accept's wait_event takes another reader's request: that child id   *)
(* is acknowledged and forgotten, and the accept fails.                    *)
Swallow(k, other) ==
    /\ k \in accepted
    /\ Building(k, {"qp"}, {})
    /\ at[other] = "unused"
    /\ at' = [at EXCEPT ![k] = "dropping", ![other] = "gone"]
    /\ accepted' = accepted \cup {other}
    /\ alive' = alive \cup {<<"id", other>>}
    /\ lost' = lost \cup {<<"id", other>>}
    /\ UNCHANGED <<dev, holds, pd, arg, clones, lst>>

-----------------------------------------------------------------------------
(* Use and release.                                                        *)

(* Mutant: a connection is handed out before it is established.            *)
InUseEarly(k) == at[k] \in {"building", "up"}

InUse(k) == at[k] = "up"

(* protection_domain: the application takes a handle.                      *)
TakeHandle(k) ==
    /\ InUse(k)
    /\ clones' = clones \cup {pd[k]}
    /\ UNCHANGED <<alive, at, accepted, dev, holds, pd, arg, lst, lost>>

DropHandle(p) ==
    /\ p \in clones
    /\ clones' = clones \ {p}
    /\ alive' = alive \ Unused(pd, arg, clones')
    /\ UNCHANGED <<at, accepted, dev, holds, pd, arg, lst, lost>>

Drop(k) ==
    /\ at[k] = "up"
    /\ at' = [at EXCEPT ![k] = "dropping"]
    /\ UNCHANGED <<alive, accepted, dev, holds, pd, arg, clones, lst, lost>>

(* Mutants: the id goes first; the completion queue is forgotten.          *)
DropOrderIdFirst == <<"id", "qp", "cq", "channel">>
DropOrderNoCq == <<"qp", "id", "channel">>

DropOrder == <<"qp", "id", "cq", "channel">>

(* What is left to destroy, as indices of DropOrder.                       *)
Left(k) == {i \in DOMAIN DropOrder : DropOrder[i] \in holds[k]}

(* Drop for Connection: the queue pair is disconnected and destroyed, then *)
(* the id, the completion queue and the connection's own channel.          *)
DropNext(k) ==
    /\ at[k] = "dropping"
    /\ \E i \in Left(k) :
           /\ \A j \in Left(k) : i <= j
           /\ holds' = [holds EXCEPT ![k] = @ \ {DropOrder[i]}]
           /\ alive' = alive \ {<<DropOrder[i], k>>}
    /\ UNCHANGED <<at, accepted, dev, pd, arg, clones, lst, lost>>

(* The field pd drops last, and the domain with its last handle.           *)
DropPd(k) ==
    /\ at[k] = "dropping"
    /\ Left(k) = {}
    /\ at' = [at EXCEPT ![k] = "gone"]
    /\ holds' = [holds EXCEPT ![k] = {}]
    /\ pd' = [pd EXCEPT ![k] = NoPd]
    /\ alive' = alive \ Unused(pd', arg, clones)
    /\ UNCHANGED <<accepted, dev, arg, clones, lst, lost>>

-----------------------------------------------------------------------------
(* The Listener.                                                           *)

Lst(from, to) ==
    /\ lst = from /\ lst' = to
    /\ UNCHANGED <<at, accepted, dev, holds, pd, arg, clones>>

(* bind: the channel ...                                                   *)
BindChannel ==
    /\ Lst("none", "channel")
    /\ alive' = alive \cup {<<"channel", "listener">>}
    /\ UNCHANGED lost

(* ... the id; without one the early return leaves the channel behind ...  *)
BindId ==
    /\ Lst("channel", "id")
    /\ alive' = alive \cup {<<"id", "listener">>}
    /\ UNCHANGED lost

BindIdFails ==
    /\ Lst("channel", "gone")
    /\ lost' = lost \cup {<<"channel", "listener">>}
    /\ UNCHANGED alive

(* ... rdma_bind_addr and rdma_listen.                                     *)
Listen == Lst("id", "up") /\ UNCHANGED <<alive, lost>>

ListenFails == Lst("id", "closing") /\ UNCHANGED <<alive, lost>>

(* Drop for Listener; no accept is running.                                *)
DropListener == ~Accepting /\ Lst("up", "closing") /\ UNCHANGED <<alive, lost>>

(* Both ways out destroy the id, then the channel.                         *)
CloseId ==
    /\ Lst("closing", "closing")
    /\ <<"id", "listener">> \in alive
    /\ alive' = alive \ {<<"id", "listener">>}
    /\ UNCHANGED lost

CloseChannel ==
    /\ Lst("closing", "gone")
    /\ <<"id", "listener">> \notin alive
    /\ alive' = alive \ {<<"channel", "listener">>}
    /\ UNCHANGED lost

-----------------------------------------------------------------------------
Next ==
    \/ \E k \in Conns :
           \/ Connect(k) \/ Request(k) \/ CreateId(k) \/ AllocPd(k)
           \/ CreateCq(k) \/ CreateQp(k) \/ Establish(k) \/ Fail(k)
           \/ TakeHandle(k) \/ DropHandle(k) \/ Drop(k) \/ DropNext(k) \/ DropPd(k)
    \/ \E k, p \in Conns : ClonePd(k, p) \/ Swallow(k, p)
    \/ BindChannel \/ BindId \/ BindIdFails \/ Listen \/ ListenFails
    \/ DropListener \/ CloseId \/ CloseChannel

Spec == Init /\ [][Next]_vars

-----------------------------------------------------------------------------
TypeOK ==
    /\ alive \subseteq {"channel", "id", "cq", "qp", "pd"} \X (Conns \cup {"listener"})
    /\ lost \subseteq alive
    /\ at \in [Conns -> {"unused", "building", "up", "dropping", "gone"}]
    /\ accepted \subseteq Conns /\ clones \subseteq Conns
    /\ dev \in [Conns -> Devices]
    /\ holds \in [Conns -> SUBSET {"channel", "id", "cq", "qp"}]
    /\ pd \in [Conns -> Conns \cup {NoPd}] /\ arg \in [Conns -> Conns \cup {NoPd}]
    /\ lst \in {"none", "channel", "id", "up", "closing", "gone"}

(* What an object is used through, by the contract of the two libraries.   *)
ChannelOf(o) == IF o[2] \in accepted THEN "listener" ELSE o[2]
Needs(o) ==
    CASE o[1] = "id" -> {<<"channel", ChannelOf(o)>>}
      [] o[1] = "qp" -> {<<"id", o[2]>>, <<"cq", o[2]>>, <<"pd", pd[o[2]]>>}
      [] OTHER -> {}

(* Nothing is destroyed before what is used through it: neither in the     *)
(* order of a drop, nor after a set-up that failed half-way, nor when the  *)
(* connections of a group share a domain.  The one exception is a          *)
(* connection that outlives its listener, whose channel it shares.         *)
Supported ==
    \A o \in alive :
        Needs(o) \ alive \subseteq
            IF lst = "gone" /\ o[2] \in accepted THEN {<<"channel", "listener">>} ELSE {}

(* A queue pair is in a domain of its own device, however many devices a   *)
(* wildcard listener serves: "Fails, releasing the connection, if it       *)
(* arrives on a different device than the one `pd` belongs to."            *)
DomainOnDevice ==
    \A k \in Conns : <<"qp", k>> \in alive => dev[pd[k]] = dev[k]

(* Whatever step of a set-up fails, everything that exists is still        *)
(* reachable from the program, so that some drop releases it: all but the  *)
(* channel of a bind that got no id and the child ids of requests that a   *)
(* wait for another event took.                                            *)
Reachable ==
    \A o \in alive \ lost :
        CASE o[2] = "listener" -> lst \notin {"none", "gone"}
          [] o[1] = "pd" -> Holders(o[2], pd, arg, clones) # {}
          [] OTHER -> o[1] \in holds[o[2]] /\ at[o[2]] # "gone"
=============================================================================
