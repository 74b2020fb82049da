----------------------------- MODULE Rendezvous -----------------------------
(***************************************************************************)
(* The session between readers and a provider: RemoteMemoryProvider::update*)
(* (src/src/readers.rs) against Service and SessionThread                  *)
(* (src/src/providers.rs), over a TCP connection per session (meta.rs) and *)
(* the RDMA connection manager, whose listener delivers the events of      *)
(* every accepted connection through one queue (rdma/verbs.rs).            *)
(*                                                                         *)
(* A connection id c = <<r, k>> is reader r's k-th fresh session: its TCP  *)
(* connection and the RDMA connection that goes with it.  Each reader      *)
(* updates one group; a process that updates several groups is several     *)
(* readers.  The catalog is its version, the number of regions registered. *)
(***************************************************************************)
EXTENDS Naturals, Sequences, Subsequences

CONSTANTS
    Readers,      \* reader processes
    GroupOf,      \* reader -> the group it updates
    Matching,     \* readers that speak the provider's PROTOCOL_VERSION
    FaultSets,    \* which failures may happen together: see FaultKinds
    MaxSessions,  \* bound: fresh sessions of a reader
    MaxUpdates,   \* bound: failures -> reader -> its calls of update
    MaxVer        \* bound: regions registered

(* leave   - a reader drops its RemoteMemoryProvider between two updates   *)
(* crash   - a reader dies in the middle of an update                      *)
(* idle    - a reader is silent for longer than IO_TIMEOUT                 *)
(* timeout - an answer takes longer than IO_TIMEOUT, or the connection     *)
(*           manager gives up on a connection request                      *)
(* refuse  - the reader's RDMA connect fails before its request is sent    *)
FaultKinds == {"leave", "crash", "idle", "timeout", "refuse"}

ASSUME FaultsAssumption == FaultSets \subseteq SUBSET FaultKinds
ASSUME ReadersAssumption == Matching \subseteq Readers
ASSUME BoundsAssumption ==
    /\ MaxSessions \in Nat \ {0} /\ MaxVer \in Nat
    /\ MaxUpdates \in [FaultSets -> [Readers -> Nat]]

VARIABLES
    faults,    \* the failures this behaviour may have; nothing changes it
    ver,       \* regions in the provider's catalog
    shutdown,  \* the provider's drop has raised the flag
    svc,       \* the service thread: where it is in run / handshake
    cur,       \* the session whose handshake is running
    acc,       \* the RDMA connection that handshake is accepting
    backlog,   \* TCP connections waiting to be accepted
    events,    \* the listener's event channel
    cm,        \* each RDMA connection's state
    joined,    \* RDMA connection -> the group whose domain it is in
    session,   \* sessions handed to a thread of their own
    toP, toR,  \* messages in flight to the provider, to the reader
    pOpen,     \* TCP connections the provider has open
    rOpen,     \* TCP connections the reader has open
    pc,        \* where each reader is in update
    att,       \* fresh sessions each reader has started
    chan,      \* GroupSession.channel is Some
    slot,      \* which session's RDMA connection GroupConnection holds
    calls,     \* calls of update
    need,      \* history: the catalog's version when update was called
    seen,      \* the catalog's version in the reader's cache
    last       \* the result of the reader's last update

providerVars == <<ver, shutdown, faults>>
serviceVars  == <<svc, cur, acc, session>>
cmVars       == <<events, cm, joined>>
tcpVars      == <<backlog, toP, toR, pOpen, rOpen>>
readerVars   == <<pc, att, chan, slot, calls, need, seen, last>>
vars == <<providerVars, serviceVars, cmVars, tcpVars, readerVars>>

Ids  == Readers \X (1 .. MaxSessions)
None == <<>>

Hello     == [type |-> "hello"]
Welcome   == [type |-> "welcome"]
WantGroup == [type |-> "want"]
Update    == [type |-> "update"]
Exchange(v) == [type |-> "exchange", ver |-> v]  \* Metadata, then Tuples

Event(type, c) == [type |-> type, id |-> c]
Events == [type : {"request", "established", "disconnected"}, id : Ids]

Conn(r) == <<r, att[r]>>     \* the reader's current session

Init ==
    /\ faults \in FaultSets
    /\ ver = 0 /\ shutdown = FALSE
    /\ svc = "poll" /\ cur = None /\ acc = None
    /\ backlog = <<>> /\ events = <<>>
    /\ cm = [c \in Ids |-> "none"]
    /\ joined = [c \in Ids |-> None]
    /\ session = {}
    /\ toP = [c \in Ids |-> <<>>] /\ toR = [c \in Ids |-> <<>>]
    /\ pOpen = {} /\ rOpen = {}
    /\ pc = [r \in Readers |-> "idle"]
    /\ att = [r \in Readers |-> 0]
    /\ chan = [r \in Readers |-> FALSE]
    /\ slot = [r \in Readers |-> None]
    /\ calls = [r \in Readers |-> 0]
    /\ need = [r \in Readers |-> 0]
    /\ seen = [r \in Readers |-> 0]
    /\ last = [r \in Readers |-> "none"]

-----------------------------------------------------------------------------
(* The connection manager, external: what the reader's and the provider's  *)
(* ends see of each other.                                                 *)

(* The reader destroys its ends of the connections in cs.  The provider    *)
(* hears of those it has accepted; a request already queued stays queued.  *)
Abandon(cs) == [c \in Ids |-> IF c \in cs /\ cm[c] \in {"req", "accepted", "est"}
                              THEN "gone" ELSE cm[c]]

Disconnects(c) ==
    IF svc # "ended" /\ c \in Ids /\ cm[c] \in {"accepted", "est"}
    THEN <<Event("disconnected", c)>> ELSE <<>>

(* The provider destroys its end: queued events of that id go with it.     *)
ProviderDrops(c, evs) ==
    /\ cm' = [cm EXCEPT ![c] = IF @ = "gone" THEN "gone" ELSE "dead"]
    /\ events' = Keep(evs, {e \in Events : e.id # c})

-----------------------------------------------------------------------------
(* A reader: RemoteMemoryProvider::update.                                 *)

Return(r, result) ==
    /\ pc' = [pc EXCEPT ![r] = "idle"]
    /\ last' = [last EXCEPT ![r] = result]

Call(r) ==
    /\ pc[r] = "idle"
    /\ calls[r] < MaxUpdates[faults][r]
    /\ calls' = [calls EXCEPT ![r] = @ + 1]
    /\ need' = [need EXCEPT ![r] = ver]

(* An open channel: refresh sends Update and waits for the exchange.       *)
StartRefresh(r) ==
    /\ Call(r)
    /\ chan[r]
    /\ toP' = [toP EXCEPT ![Conn(r)] = Append(@, Update)]
    /\ pc' = [pc EXCEPT ![r] = "refresh"]
    /\ UNCHANGED <<providerVars, serviceVars, cmVars, backlog, toR, pOpen, rOpen,
                   att, chan, slot, seen, last>>

(* No channel: connect over TCP and greet.                                 *)
StartFresh(r) ==
    LET c == <<r, att[r] + 1>>
    IN  /\ Call(r)
        /\ ~chan[r]
        /\ att[r] < MaxSessions
        /\ svc # "ended"
        /\ att' = [att EXCEPT ![r] = @ + 1]
        /\ rOpen' = rOpen \cup {c}
        /\ pOpen' = pOpen \cup {c}
        /\ backlog' = Append(backlog, c)
        /\ toP' = [toP EXCEPT ![c] = <<Hello>>]
        /\ pc' = [pc EXCEPT ![r] = "greet"]
        /\ UNCHANGED <<providerVars, serviceVars, cmVars, toR, chan, slot, seen,
                       last>>

(* The provider is gone: the TCP connect is refused.                       *)
ConnectRefused(r) ==
    /\ Call(r)
    /\ ~chan[r]
    /\ svc = "ended"
    /\ Return(r, "err")
    /\ UNCHANGED <<providerVars, serviceVars, cmVars, tcpVars, att, chan, slot,
                   seen>>

(* The greeting is answered: ask for the group.  The reader compares the   *)
(* version too, but the provider answers no greeting of another one.       *)
ReceiveWelcome(r) ==
    LET c == Conn(r)
    IN  /\ pc[r] = "greet"
        /\ toR[c] # <<>>
        /\ toR' = [toR EXCEPT ![c] = Tail(@)]
        /\ toP' = [toP EXCEPT ![c] = Append(@, WantGroup)]
        /\ pc' = [pc EXCEPT ![r] = "resolve"]
        /\ UNCHANGED <<providerVars, serviceVars, cmVars, backlog, pOpen, rOpen,
                       att, chan, slot, calls, need, seen, last>>

(* Mutant: the RDMA connection does not wait for the group join.           *)
MayConnectEarly(r) == pc[r] \in {"greet", "resolve"}

MayConnect(r) == pc[r] = "resolve"

(* rdma_connect: the request reaches the listener's event channel.         *)
RdmaConnect(r) ==
    LET c == Conn(r)
    IN  /\ MayConnect(r)
        /\ svc # "ended"
        /\ cm' = [cm EXCEPT ![c] = "req"]
        /\ events' = Append(events, Event("request", c))
        /\ pc' = [pc EXCEPT ![r] = "connect"]
        /\ UNCHANGED <<providerVars, serviceVars, joined, tcpVars, att, chan, slot,
                       calls, need, seen, last>>

(* Established: the connection goes into the group's slot, and the one it  *)
(* replaces is dropped.                                                    *)
Established(r) ==
    LET c == Conn(r)
        old == slot[r]
    IN  /\ pc[r] = "connect"
        /\ cm[c] = "accepted"
        /\ cm' = [Abandon({old}) EXCEPT ![c] = "est"]
        /\ events' = Append(events, Event("established", c)) \o Disconnects(old)
        /\ slot' = [slot EXCEPT ![r] = c]
        /\ pc' = [pc EXCEPT ![r] = "exchange"]
        /\ UNCHANGED <<providerVars, serviceVars, joined, tcpVars, att, chan,
                       calls, need, seen, last>>

(* The catalog and the tuples arrive: the channel is kept, the cache       *)
(* filled.                                                                 *)
ReceiveExchange(r) ==
    LET c == Conn(r)
    IN  /\ pc[r] \in {"exchange", "refresh"}
        /\ toR[c] # <<>>
        /\ toR' = [toR EXCEPT ![c] = Tail(@)]
        /\ chan' = [chan EXCEPT ![r] = TRUE]
        /\ seen' = [seen EXCEPT ![r] = Head(toR[c]).ver]
        /\ Return(r, "ok")
        /\ UNCHANGED <<providerVars, serviceVars, cmVars, backlog, toP, pOpen, rOpen,
                       att, slot, calls, need>>

(* Mutants: receives have no timeout; the timeout is zero.                 *)
GivesUpOnHangup(c) == c \notin pOpen
GivesUpAtOnce(c) == TRUE

GivesUp(c) == c \notin pOpen \/ "timeout" \in faults

(* Mutant: the channel is kept after a failed exchange.                    *)
KeepChannel(r) == UNCHANGED <<rOpen, chan>>

DropChannel(r) ==
    /\ rOpen' = rOpen \ {Conn(r)}
    /\ chan' = [chan EXCEPT ![r] = FALSE]

(* A receive fails: the provider hung up, or IO_TIMEOUT passed.  The       *)
(* channel is dropped; an RDMA connection already in the slot stays.       *)
ReceiveFails(r) ==
    /\ pc[r] \in {"greet", "exchange", "refresh"}
    /\ toR[Conn(r)] = <<>>
    /\ GivesUp(Conn(r))
    /\ DropChannel(r)
    /\ Return(r, "err")
    /\ UNCHANGED <<providerVars, serviceVars, cmVars, backlog, toP, toR, pOpen,
                   att, slot, calls, need, seen>>

(* The RDMA connect fails: before the request is sent, because the         *)
(* provider dropped its end, or because the connection manager gave up.    *)
ConnectFails(r) ==
    LET c == Conn(r)
    IN  /\ \/ pc[r] = "resolve" /\ ("refuse" \in faults \/ svc = "ended")
           \/ pc[r] = "connect" /\ cm[c] = "dead"
           \/ pc[r] = "connect" /\ cm[c] = "req" /\ ("timeout" \in faults \/ svc = "ended")
        /\ cm' = Abandon({c})
        /\ events' = events \o Disconnects(c)
        /\ rOpen' = rOpen \ {c}
        /\ Return(r, "err")
        /\ UNCHANGED <<providerVars, serviceVars, joined, backlog, toP, toR, pOpen,
                       att, chan, slot, calls, need, seen>>

(* The reader goes away: its channel and its RDMA connection are dropped.  *)
Leave(r) ==
    /\ pc[r] # "gone"
    /\ att[r] > 0
    /\ IF pc[r] = "idle" THEN "leave" \in faults ELSE "crash" \in faults
    /\ cm' = Abandon({Conn(r), slot[r]})
    /\ events' = events \o Disconnects(Conn(r))
                   \o (IF slot[r] = Conn(r) THEN <<>> ELSE Disconnects(slot[r]))
    /\ DropChannel(r)
    /\ pc' = [pc EXCEPT ![r] = "gone"]
    /\ UNCHANGED <<providerVars, serviceVars, joined, backlog, toP, toR, pOpen,
                   att, slot, calls, need, seen, last>>

Reader(r) ==
    \/ StartRefresh(r) \/ StartFresh(r) \/ ConnectRefused(r)
    \/ ReceiveWelcome(r) \/ RdmaConnect(r) \/ Established(r)
    \/ ReceiveExchange(r) \/ ReceiveFails(r) \/ ConnectFails(r) \/ Leave(r)

-----------------------------------------------------------------------------
(* The service thread: run and handshake.                                  *)

(* Mutant: the finished handshake is not forgotten.                        *)
HangupKeepsCur == svc' = "poll" /\ UNCHANGED cur /\ pOpen' = pOpen \ {cur}

(* handshake returns: the session's TCP connection is closed.              *)
Hangup == svc' = "poll" /\ cur' = None /\ pOpen' = pOpen \ {cur}

AcceptTcp ==
    /\ svc = "poll"
    /\ ~shutdown
    /\ backlog # <<>>
    /\ cur' = Head(backlog)
    /\ backlog' = Tail(backlog)
    /\ svc' = "hello"
    /\ UNCHANGED <<providerVars, acc, session, cmVars, toP, toR, pOpen, rOpen,
                   readerVars>>

(* Mutant: the version is not compared.                                    *)
GreetsAny(c) == TRUE

Greets(c) == c[1] \in Matching

(* A greeting of the right version is answered, any other ends the         *)
(* session.                                                                *)
ReceiveHello ==
    /\ svc = "hello"
    /\ toP[cur] # <<>>
    /\ toP' = [toP EXCEPT ![cur] = Tail(@)]
    /\ IF Greets(cur)
       THEN /\ toR' = [toR EXCEPT ![cur] = Append(@, Welcome)]
            /\ svc' = "want"
            /\ UNCHANGED <<cur, pOpen>>
       ELSE Hangup /\ UNCHANGED toR
    /\ UNCHANGED <<providerVars, acc, session, cmVars, backlog, rOpen, readerVars>>

(* The group join: the service goes on to the blocking RDMA accept.        *)
ReceiveWant ==
    /\ svc = "want"
    /\ toP[cur] # <<>>
    /\ toP' = [toP EXCEPT ![cur] = Tail(@)]
    /\ svc' = "accept"
    /\ UNCHANGED <<providerVars, cur, acc, session, cmVars, backlog, toR, pOpen,
                   rOpen, readerVars>>

(* The reader hung up, or stayed silent for IO_TIMEOUT.                    *)
HandshakeReceiveFails ==
    /\ svc \in {"hello", "want"}
    /\ toP[cur] = <<>>
    /\ cur \notin rOpen \/ "timeout" \in faults
    /\ Hangup
    /\ UNCHANGED <<providerVars, acc, session, cmVars, backlog, toP, toR, rOpen,
                   readerVars>>

(* accept_impl takes the next event of the channel, whatever it is: a      *)
(* request whose reader still waits is accepted, anything else is an       *)
(* error that ends the handshake.                                          *)
RdmaAccept ==
    /\ svc = "accept"
    /\ events # <<>>
    /\ LET e == Head(events)
       IN  IF e.type = "request" /\ cm[e.id] = "req"
           THEN /\ acc' = e.id
                /\ cm' = [cm EXCEPT ![e.id] = "accepted"]
                /\ events' = Tail(events)
                /\ svc' = "established"
                /\ UNCHANGED <<cur, pOpen>>
           ELSE /\ events' = Tail(events)
                /\ Hangup
                /\ UNCHANGED <<acc, cm>>
    /\ UNCHANGED <<providerVars, session, joined, backlog, toP, toR, rOpen, readerVars>>

(* wait_event takes the next event and accepts only ESTABLISHED; on any    *)
(* other the connection is dropped.                                        *)
WaitEstablished ==
    /\ svc = "established"
    /\ events # <<>>
    /\ acc' = None
    /\ IF Head(events).type = "established"
       THEN /\ joined' = [joined EXCEPT ![acc] = GroupOf[cur[1]]]
            /\ events' = Tail(events)
            /\ svc' = "reply"
            /\ UNCHANGED <<cm, cur, pOpen>>
       ELSE /\ ProviderDrops(acc, Tail(events))
            /\ Hangup
            /\ UNCHANGED joined
    /\ UNCHANGED <<providerVars, session, backlog, toP, toR, rOpen, readerVars>>

(* catalog_and_tuples, both sends, and the session's own thread.           *)
Reply ==
    /\ svc = "reply"
    /\ toR' = [toR EXCEPT ![cur] = Append(@, Exchange(ver))]
    /\ session' = session \cup {cur}
    /\ svc' = "poll" /\ cur' = None
    /\ UNCHANGED <<providerVars, acc, cmVars, backlog, toP, pOpen, rOpen,
                   readerVars>>

(* A send fails because the reader is gone: no session thread.             *)
ReplyFails ==
    /\ svc = "reply"
    /\ cur \notin rOpen
    /\ Hangup
    /\ UNCHANGED <<providerVars, acc, session, cmVars, backlog, toP, toR, rOpen,
                   readerVars>>

(* Mutant: the sessions are not joined.                                    *)
Unjoined == TRUE

SessionsJoined == session = {}

(* The flag is up: leave the loop; end once the sessions are joined.  The  *)
(* listeners close with the thread, and with them the waiting connections. *)
ServiceEnds ==
    /\ svc = "poll"
    /\ shutdown
    /\ SessionsJoined
    /\ svc' = "ended"
    /\ backlog' = <<>>
    /\ pOpen' = pOpen \ {backlog[i] : i \in DOMAIN backlog}
    /\ events' = <<>>
    /\ UNCHANGED <<providerVars, cur, acc, session, cm, joined, toP, toR, rOpen,
                   readerVars>>

Service ==
    \/ AcceptTcp \/ ReceiveHello \/ ReceiveWant \/ HandshakeReceiveFails
    \/ RdmaAccept \/ WaitEstablished \/ Reply \/ ReplyFails \/ ServiceEnds

-----------------------------------------------------------------------------
(* A session thread: wait_for_updates.                                     *)

(* An update is answered; then the loop condition looks at the flag.       *)
ServeUpdate(c) ==
    /\ c \in session
    /\ toP[c] # <<>>
    /\ toP' = [toP EXCEPT ![c] = Tail(@)]
    /\ toR' = [toR EXCEPT ![c] = Append(@, Exchange(ver))]
    /\ session' = IF shutdown THEN session \ {c} ELSE session
    /\ pOpen' = IF shutdown THEN pOpen \ {c} ELSE pOpen
    /\ UNCHANGED <<providerVars, svc, cur, acc, cmVars, backlog, rOpen, readerVars>>

(* Mutants: a waiting session only ends when its reader hangs up; or       *)
(* whenever no request is waiting.                                         *)
OverOnHangup(c) == toP[c] = <<>> /\ c \notin rOpen
OverAtOnce(c) == toP[c] = <<>>

Over(c) == \/ toP[c] = <<>> /\ (c \notin rOpen \/ "idle" \in faults)
           \/ shutdown

(* The reader hung up, IO_TIMEOUT passed, or the flag is up before the     *)
(* thread waits: the session ends and its connection closes.               *)
SessionEnds(c) ==
    /\ c \in session
    /\ Over(c)
    /\ session' = session \ {c}
    /\ pOpen' = pOpen \ {c}
    /\ UNCHANGED <<providerVars, svc, cur, acc, cmVars, backlog, toP, toR, rOpen,
                   readerVars>>

SessionThread(c) == ServeUpdate(c) \/ SessionEnds(c)

-----------------------------------------------------------------------------
(* The application registers a region, or drops the provider.              *)

Register ==
    /\ ~shutdown
    /\ ver < MaxVer
    /\ ver' = ver + 1
    /\ UNCHANGED <<shutdown, faults, serviceVars, cmVars, tcpVars, readerVars>>

Stop ==
    /\ ~shutdown
    /\ shutdown' = TRUE
    /\ UNCHANGED <<ver, faults, serviceVars, cmVars, tcpVars, readerVars>>

Next ==
    \/ \E r \in Readers : Reader(r)
    \/ Service
    \/ \E c \in Ids : SessionThread(c)
    \/ Register
    \/ Stop

Spec == Init /\ [][Next]_vars

(* Threads keep running: a reader inside update, the service and the       *)
(* sessions take the steps the code lets them take.  Nobody is obliged to  *)
(* call update, to leave or to drop the provider.                          *)
Continue(r) ==
    \/ ReceiveWelcome(r) \/ RdmaConnect(r) \/ Established(r)
    \/ ReceiveExchange(r) \/ ReceiveFails(r) \/ ConnectFails(r)

Fairness ==
    /\ \A r \in Readers : WF_vars(Continue(r))
    /\ WF_vars(Service)
    /\ \A c \in Ids : WF_vars(SessionThread(c))

FairSpec == Spec /\ Fairness

-----------------------------------------------------------------------------
Messages == [type : {"hello", "welcome", "want", "update"}]
              \cup [type : {"exchange"}, ver : 0 .. MaxVer]
GroupIds == {GroupOf[r] : r \in Readers}

TypeOK ==
    /\ faults \in FaultSets
    /\ ver \in 0 .. MaxVer /\ shutdown \in BOOLEAN
    /\ svc \in {"poll", "hello", "want", "accept", "established", "reply", "ended"}
    /\ cur \in Ids \cup {None} /\ acc \in Ids \cup {None}
    /\ svc \in {"poll", "ended"} <=> cur = None
    /\ svc = "established" <=> acc # None
    /\ backlog \in Seq(Ids)
    /\ events \in Seq(Events)
    /\ cm \in [Ids -> {"none", "req", "accepted", "est", "gone", "dead"}]
    /\ joined \in [Ids -> GroupIds \cup {None}]
    /\ session \subseteq Ids /\ pOpen \subseteq Ids /\ rOpen \subseteq Ids
    /\ toP \in [Ids -> Seq(Messages)] /\ toR \in [Ids -> Seq(Messages)]
    /\ pc \in [Readers -> {"idle", "greet", "resolve", "connect", "exchange",
                           "refresh", "gone"}]
    /\ att \in [Readers -> 0 .. MaxSessions]
    /\ chan \in [Readers -> BOOLEAN]
    /\ slot \in [Readers -> Ids \cup {None}]
    /\ calls \in [Readers -> Nat] /\ \A r \in Readers : calls[r] <= MaxUpdates[faults][r]
    /\ need \in [Readers -> 0 .. MaxVer] /\ seen \in [Readers -> 0 .. MaxVer]
    /\ last \in [Readers -> {"none", "ok", "err"}]

(* An update that returns Ok has picked up every region registered before  *)
(* it was called, whatever timed out, broke or was re-sent before: no      *)
(* exchange left over from an abandoned update is taken for the answer.    *)
Fresh ==
    \A r \in Readers : pc[r] = "idle" /\ last[r] = "ok" => seen[r] >= need[r]

(* Each RDMA connection is accepted into the domain of the group its own   *)
(* reader asked to join: "then connects over RDMA, which the provider      *)
(* accepts into that group's protection domain" (meta.rs).                 *)
OwnGroup ==
    \A c \in Ids : joined[c] \in {None, GroupOf[c[1]]}

Undisturbed == faults = {}

(* It is while no reader or message fails, although sessions and RDMA      *)
(* requests are matched by the order of arrival only.                      *)
OwnGroupUndisturbed == Undisturbed => OwnGroup

NoErrors == ~shutdown => \A r \in Matching : last[r] # "err"

(* While nothing fails and the provider is not dropped, no update of a     *)
(* reader that speaks the same version returns an error.                   *)
NoUpdateFails == Undisturbed => NoErrors

(* The rendezvous keeps out a reader of another protocol version.          *)
VersionsKeptApart ==
    \A r \in Readers \ Matching : last[r] # "ok" /\ slot[r] = None

(* When the service thread has ended, and the provider goes on to drop the *)
(* tuples, no session thread is left and every TCP connection is closed.   *)
AllClosed ==
    svc = "ended" => session = {} /\ pOpen = {}

(* A session serves its reader "until the reader hangs up or the provider  *)
(* is dropped": while no reader is silent for IO_TIMEOUT, a reader with an *)
(* open channel has a session thread at the other end.                     *)
SessionStaysOpen ==
    "idle" \notin faults => \A r \in Readers : chan[r] /\ ~shutdown => Conn(r) \in session

(* Every call of update returns.                                           *)
UpdateReturns ==
    \A r \in Readers :
        (pc[r] \notin {"idle", "gone"}) ~> (pc[r] \in {"idle", "gone"})

(* Dropping the provider ends: "A reader mid-exchange can hold the service *)
(* thread for up to one message timeout" (providers.rs), not forever.      *)
DropEnds == shutdown ~> (svc = "ended")

(* It does when no reader or message fails, with sessions open and readers *)
(* queued behind the running handshake.                                    *)
DropEndsUndisturbed == (Undisturbed /\ shutdown) ~> (svc = "ended")
=============================================================================
