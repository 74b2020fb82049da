-------------------------- MODULE RendezvousProofs --------------------------
(* Proofs about Rendezvous, for any readers, groups, failures and bounds.  *)
EXTENDS Rendezvous, DataLemmas

(* A reader that is inside update, or keeps a channel: its current session *)
(* is one it still believes in.                                            *)
Open(r) == pc[r] \notin {"idle", "gone"} \/ chan[r]
Active(c) == c[2] = att[c[1]] /\ Open(c[1])

Connecting == {"resolve", "connect", "exchange"}
Queued(c) == \E i \in 1 .. Len(backlog) : backlog[i] = c

(* The answer to the update that is running, and nothing else, is waiting  *)
(* for it.                                                                 *)
Answered(c) == \E v \in 0 .. ver : v >= need[c[1]] /\ toR[c] = <<Exchange(v)>>

(* Where a session is at the provider's end: in one place.                 *)
Places ==
    /\ \A i, j \in 1 .. Len(backlog) : i # j => backlog[i] # backlog[j]
    /\ \A c \in Ids : Queued(c) => c # cur /\ c \notin session
    /\ cur \notin session
    /\ \A c \in Ids : c \in pOpen <=> Queued(c) \/ c = cur \/ c \in session
    /\ svc = "ended" => session = {} /\ backlog = <<>> /\ shutdown

(* What a reader knows of its own session.                                 *)
ProgressOf(r) ==
    /\ Open(r) => att[r] > 0 /\ Conn(r) \in rOpen
    /\ chan[r] => pc[r] \in {"idle", "refresh"}
    /\ pc[r] = "refresh" => chan[r]
    /\ need[r] <= ver

Progress == \A r \in Readers : ProgressOf(r)

(* The messages in flight, by how far each end has come.                   *)
Talk(c) ==
    /\ c[2] > att[c[1]] => ~Queued(c) /\ c # cur /\ c \notin session /\ toR[c] = <<>>
    /\ Active(c) =>
        /\ pc[c[1]] = "greet" =>
               toR[c] = <<>> \/ (toR[c] = <<Welcome>> /\ toP[c] = <<>>)
        /\ pc[c[1]] \in Connecting => toR[c] = <<>> \/ (Answered(c) /\ toP[c] = <<>>)
        /\ pc[c[1]] = "idle" => toR[c] = <<>> /\ toP[c] = <<>>
        /\ pc[c[1]] = "refresh" => \/ toP[c] = <<Update>> /\ toR[c] = <<>>
                                   \/ toP[c] = <<>> /\ Answered(c)
        /\ Queued(c) \/ (c = cur /\ svc = "hello") =>
               pc[c[1]] = "greet" /\ toP[c] = <<Hello>> /\ toR[c] = <<>>
        /\ c = cur /\ svc = "want" =>
               \/ pc[c[1]] = "greet" /\ toP[c] = <<>> /\ toR[c] = <<Welcome>>
               \/ pc[c[1]] \in Connecting /\ toP[c] = <<WantGroup>> /\ toR[c] = <<>>
        /\ c = cur /\ svc \in {"accept", "established", "reply"} =>
               pc[c[1]] \in Connecting /\ toP[c] = <<>> /\ toR[c] = <<>>
        /\ c \in session => /\ pc[c[1]] # "greet"
                            /\ pc[c[1]] # "refresh" => toP[c] = <<>>
                            /\ pc[c[1]] \in Connecting => Answered(c)

Talks == \A c \in Ids : Talk(c)

(* A reader of another version gets no further than its greeting, and no   *)
(* session of its own either.                                              *)
ForeignReader(r) ==
    /\ pc[r] \in {"idle", "greet", "gone"} /\ ~chan[r]
    /\ slot[r] = None /\ last[r] # "ok"

ForeignSession(c) == toR[c] = <<>> /\ c \notin session /\ (c = cur => svc = "hello")

Foreign ==
    /\ \A r \in Readers \ Matching : ForeignReader(r)
    /\ \A c \in Ids : c[1] \notin Matching => ForeignSession(c)

FreshOf(r) == pc[r] = "idle" /\ last[r] = "ok" => seen[r] >= need[r]

IInv == TypeOK /\ Places /\ Progress /\ Talks /\ Foreign /\ \A r \in Readers : FreshOf(r)

(* A reader that keeps a channel, or to which an exchange is on its way.   *)
Serving(r) == chan[r] \/ (pc[r] \in Connecting /\ toR[Conn(r)] # <<>>)

(* With no reader silent for IO_TIMEOUT, a session thread serves it.       *)
Served ==
    "idle" \notin faults /\ ~shutdown =>
        \A r \in Readers : Serving(r) => Conn(r) \in session

(* Without failures the handshake's reader waits for it to the end, and    *)
(* the listener's events are those of that handshake.                      *)
Alone ==
    /\ svc \in {"poll", "hello", "ended"} => events = <<>>
    /\ cur # None =>
           /\ Active(cur)
           /\ pc[cur[1]] \in {"greet", "resolve", "connect"} => slot[cur[1]] = None
    /\ svc \in {"want", "accept"} =>
           \/ pc[cur[1]] \in {"greet", "resolve"} /\ events = <<>>
           \/ /\ pc[cur[1]] = "connect" /\ cm[cur] = "req"
              /\ events = <<Event("request", cur)>>
    /\ svc = "established" =>
           /\ acc = cur
           /\ \/ pc[cur[1]] = "connect" /\ cm[cur] = "accepted" /\ events = <<>>
              \/ pc[cur[1]] = "exchange" /\ events = <<Event("established", cur)>>
    /\ svc = "reply" => pc[cur[1]] = "exchange" /\ events = <<>>

InHandshake(r) ==
    \/ pc[r] \in {"resolve", "connect"}
    \/ pc[r] = "exchange" /\ toR[Conn(r)] = <<>>
    \/ pc[r] = "greet" /\ toR[Conn(r)] # <<>>

(* A reader past its greeting and not yet answered is the one whose        *)
(* handshake is running; one that greets is that or waits to be accepted.  *)
Waits(r) ==
    /\ pc[r] # "gone"
    /\ InHandshake(r) => cur = Conn(r)
    /\ ~shutdown =>
           /\ slot[r] # None => pc[r] = "exchange" \/ chan[r]
           /\ pc[r] = "greet" /\ r \in Matching => Queued(Conn(r)) \/ cur = Conn(r)

Calm ==
    /\ Alone /\ OwnGroup /\ NoErrors
    /\ \A r \in Readers : Waits(r)
    /\ \A c \in Ids : Queued(c) => Active(c)

-----------------------------------------------------------------------------
(* Ids, messages and the connection manager's operators.                   *)

LEMMA IdFacts ==
    ASSUME NEW c \in Ids
    PROVE  c[1] \in Readers /\ c[2] \in 1 .. MaxSessions /\ c = <<c[1], c[2]>> /\ c # None
BY DEF Ids, None

LEMMA ConnFacts ==
    ASSUME TypeOK, NEW r \in Readers
    PROVE  /\ Conn(r)[1] = r /\ Conn(r)[2] = att[r] /\ att[r] \in Nat
           /\ att[r] > 0 => Conn(r) \in Ids
           /\ \A c \in Ids : c[1] = r /\ c[2] = att[r] => c = Conn(r)
<1>1. att[r] \in 0 .. MaxSessions /\ MaxSessions \in Nat
  BY BoundsAssumption DEF TypeOK
<1>2. att[r] > 0 => att[r] \in 1 .. MaxSessions
  BY <1>1
<1>3. \A c \in Ids : c = <<c[1], c[2]>>
  BY IdFacts
<1> QED BY <1>1, <1>2, <1>3 DEF Conn, Ids

LEMMA MessageFacts ==
    /\ Hello \in Messages /\ Welcome \in Messages /\ WantGroup \in Messages
    /\ Update \in Messages
    /\ \A v \in 0 .. MaxVer : Exchange(v) \in Messages /\ Exchange(v).ver = v
BY DEF Messages, Hello, Welcome, WantGroup, Update, Exchange

LEMMA EventFacts ==
    ASSUME NEW c \in Ids
    PROVE  /\ Event("request", c) \in Events
           /\ Event("established", c) \in Events
           /\ Event("disconnected", c) \in Events
BY DEF Event, Events

LEMMA AbandonFacts ==
    ASSUME TypeOK, NEW cs
    PROVE  Abandon(cs) \in [Ids -> {"none", "req", "accepted", "est", "gone", "dead"}]
BY DEF Abandon, TypeOK

LEMMA DisconnectsFacts == ASSUME NEW c PROVE Disconnects(c) \in Seq(Events)
<1>1. CASE c \in Ids
  <2>1. Event("disconnected", c) \in Events
    BY <1>1, EventFacts
  <2> QED BY <2>1 DEF Disconnects
<1>2. CASE c \notin Ids
  BY <1>2 DEF Disconnects
<1> QED BY <1>1, <1>2

LEMMA DropsFacts ==
    ASSUME TypeOK, NEW c \in Ids, NEW evs \in Seq(Events), ProviderDrops(c, evs)
    PROVE  /\ cm' \in [Ids -> {"none", "req", "accepted", "est", "gone", "dead"}]
           /\ events' \in Seq(Events)
<1>1. Keep(evs, {e \in Events : e.id # c}) \in Seq(Events)
  BY KeepSelects
<1> QED BY <1>1 DEF ProviderDrops, TypeOK

-----------------------------------------------------------------------------
(* What a step leaves alone.                                               *)

(* Nothing that Talk(c) is about moves, except that a stage of the session *)
(* is left, or passed on to the next one that asks for the same.           *)
Quiet(c) ==
    /\ toP'[c] = toP[c] /\ toR'[c] = toR[c]
    /\ att'[c[1]] >= att[c[1]]
    /\ Active(c)' => /\ Active(c) /\ need'[c[1]] = need[c[1]]
                     /\ \/ pc'[c[1]] = pc[c[1]]
                        \/ pc[c[1]] \in Connecting /\ pc'[c[1]] \in Connecting
    /\ Queued(c)' => Queued(c)
    /\ c = cur' => \/ c = cur /\ svc' = svc
                   \/ c = cur /\ svc \in {"accept", "established"}
                              /\ svc' \in {"established", "reply"}
                   \/ Queued(c) /\ svc' = "hello"
    /\ c \in session' => c \in session

LEMMA TalkKept ==
    ASSUME TypeOK, TypeOK', ver <= ver', NEW c \in Ids, Talk(c), Quiet(c)
    PROVE  Talk(c)'
<1>0. c[1] \in Readers /\ c[2] \in Nat
  BY IdFacts, BoundsAssumption
<1>1. toP'[c] = toP[c] /\ toR'[c] = toR[c]
  BY DEF Quiet
<1>2. ASSUME c[2] > att'[c[1]]
      PROVE  ~Queued(c)' /\ c # cur' /\ c \notin session' /\ toR'[c] = <<>>
  <2>0. att[c[1]] \in 0 .. MaxSessions /\ att'[c[1]] \in 0 .. MaxSessions /\ MaxSessions \in Nat
    BY <1>0, BoundsAssumption DEF TypeOK
  <2>1. c[2] > att[c[1]]
    BY <1>0, <1>2, <2>0 DEF Quiet
  <2>2. ~Queued(c) /\ c # cur /\ c \notin session /\ toR[c] = <<>>
    BY <2>1 DEF Talk
  <2> QED BY <1>1, <2>2 DEF Quiet
<1>3. ASSUME Active(c)', Answered(c) PROVE Answered(c)'
  <2>1. need'[c[1]] = need[c[1]]
    BY <1>3 DEF Quiet
  <2>2. ver \in Nat /\ ver' \in Nat /\ \A v \in 0 .. ver : v \in 0 .. ver'
    BY BoundsAssumption DEF TypeOK
  <2> QED BY <1>1, <1>3, <2>1, <2>2 DEF Answered
<1>4. ASSUME Active(c)'
      PROVE  /\ Active(c)
             /\ \/ pc'[c[1]] = pc[c[1]]
                \/ pc[c[1]] \in Connecting /\ pc'[c[1]] \in Connecting
             /\ Queued(c)' => Queued(c)
             /\ c = cur' => \/ c = cur /\ svc' = svc
                            \/ c = cur /\ svc \in {"accept", "established"}
                                       /\ svc' \in {"established", "reply"}
                            \/ Queued(c) /\ svc' = "hello"
             /\ c \in session' => c \in session
  BY <1>4 DEF Quiet
<1>5. ASSUME Active(c)'
      PROVE  /\ pc'[c[1]] = "greet" =>
                    toR'[c] = <<>> \/ (toR'[c] = <<Welcome>> /\ toP'[c] = <<>>)
             /\ pc'[c[1]] \in Connecting => toR'[c] = <<>> \/ (Answered(c)' /\ toP'[c] = <<>>)
             /\ pc'[c[1]] = "idle" => toR'[c] = <<>> /\ toP'[c] = <<>>
             /\ pc'[c[1]] = "refresh" => \/ toP'[c] = <<Update>> /\ toR'[c] = <<>>
                                         \/ toP'[c] = <<>> /\ Answered(c)'
  BY <1>1, <1>3, <1>4, <1>5 DEF Talk, Connecting
<1>6. ASSUME Active(c)'
      PROVE  /\ Queued(c)' \/ (c = cur' /\ svc' = "hello") =>
                    pc'[c[1]] = "greet" /\ toP'[c] = <<Hello>> /\ toR'[c] = <<>>
             /\ c = cur' /\ svc' = "want" =>
                    \/ pc'[c[1]] = "greet" /\ toP'[c] = <<>> /\ toR'[c] = <<Welcome>>
                    \/ pc'[c[1]] \in Connecting /\ toP'[c] = <<WantGroup>> /\ toR'[c] = <<>>
             /\ c = cur' /\ svc' \in {"accept", "established", "reply"} =>
                    pc'[c[1]] \in Connecting /\ toP'[c] = <<>> /\ toR'[c] = <<>>
  BY <1>1, <1>4, <1>6 DEF Talk, Connecting
<1>7. ASSUME Active(c)', c \in session'
      PROVE  /\ pc'[c[1]] # "greet"
             /\ pc'[c[1]] # "refresh" => toP'[c] = <<>>
             /\ pc'[c[1]] \in Connecting => Answered(c)'
  BY <1>1, <1>3, <1>4, <1>7 DEF Talk, Connecting
<1> QED BY <1>2, <1>5, <1>6, <1>7 DEF Talk, Connecting

(* The service thread and the sessions are where they were.                *)
NoService ==
    /\ svc' = svc /\ cur' = cur /\ backlog' = backlog /\ session' = session
    /\ pOpen' = pOpen /\ shutdown' = shutdown /\ ver' = ver

LEMMA PlacesKept == ASSUME Places, NoService PROVE Places'
BY DEF Places, NoService, Queued

(* So are the readers other than r.                                        *)
Others(r) ==
    \A q \in Readers \ {r} :
        /\ pc'[q] = pc[q] /\ att'[q] = att[q] /\ chan'[q] = chan[q]
        /\ slot'[q] = slot[q] /\ need'[q] = need[q] /\ seen'[q] = seen[q]
        /\ last'[q] = last[q]
        /\ Conn(q) \in rOpen => Conn(q) \in rOpen'

(* A step of reader r that is about its current session.                   *)
LEMMA ReaderStep ==
    ASSUME IInv, TypeOK', NEW r \in Readers, NoService, Others(r), att' = att,
           \A c \in Ids : c # Conn(r) => toP'[c] = toP[c] /\ toR'[c] = toR[c],
           \A c \in Ids : c[1] = r /\ c[2] = att[r] => Talk(c)',
           ProgressOf(r)', FreshOf(r)',
           r \notin Matching => ForeignReader(r)' /\ toR' = toR
    PROVE  IInv'
<1>0. TypeOK /\ Places /\ Progress /\ Talks /\ Foreign /\ \A q \in Readers : FreshOf(q)
  BY DEF IInv
<1>1. Places'
  BY <1>0, PlacesKept
<1>2. ASSUME NEW q \in Readers PROVE ProgressOf(q)'
  <2>1. CASE q = r
    BY <2>1
  <2>2. CASE q # r
    <3>1. ProgressOf(q)
      BY <1>0 DEF Progress
    <3>2. Conn(q)' = Conn(q)
      BY DEF Conn
    <3> QED BY <2>2, <3>1, <3>2 DEF ProgressOf, Others, Open, NoService
  <2> QED BY <2>1, <2>2
<1>3. ASSUME NEW q \in Readers PROVE FreshOf(q)'
  <2>1. CASE q = r
    BY <2>1
  <2>2. CASE q # r
    BY <1>0, <2>2 DEF FreshOf, Others
  <2> QED BY <2>1, <2>2
<1>4. ASSUME NEW c \in Ids PROVE Talk(c)'
  <2>0. /\ c[1] \in Readers /\ Talk(c) /\ att[c[1]] \in Nat /\ c[2] \in Nat
        /\ c = <<c[1], c[2]>> /\ ver \in Nat
    <3>1. c[1] \in Readers /\ c[2] \in 1 .. MaxSessions /\ c = <<c[1], c[2]>>
      BY IdFacts
    <3>2. MaxSessions \in Nat /\ MaxVer \in Nat
      BY BoundsAssumption
    <3>3. att[c[1]] \in 0 .. MaxSessions /\ ver \in 0 .. MaxVer
      BY <1>0, <3>1 DEF TypeOK
    <3> QED BY <1>0, <3>1, <3>2, <3>3 DEF Talks
  <2>1. CASE c[1] = r /\ c[2] = att[r]
    BY <2>1
  <2>2. CASE ~(c[1] = r /\ c[2] = att[r])
    <3>1. c # Conn(r)
      BY <2>2 DEF Conn
    <3>2. Active(c)' => Active(c) /\ need'[c[1]] = need[c[1]] /\ pc'[c[1]] = pc[c[1]]
      BY <2>0, <2>2 DEF Active, Open, Others
    <3>3. Queued(c)' => Queued(c)
      BY DEF NoService, Queued
    <3>4. Quiet(c)
      BY <2>0, <3>1, <3>2, <3>3 DEF Quiet, NoService
    <3>5. ver <= ver'
      BY <2>0 DEF NoService
    <3> QED BY <1>0, <2>0, <3>4, <3>5, TalkKept
  <2> QED BY <2>1, <2>2
<1>5. ASSUME NEW q \in Readers \ Matching PROVE ForeignReader(q)'
  <2>1. CASE q = r
    BY <2>1
  <2>2. CASE q # r
    BY <1>0, <2>2 DEF Foreign, ForeignReader, Others
  <2> QED BY <2>1, <2>2
<1>6. ASSUME NEW c \in Ids, c[1] \notin Matching PROVE ForeignSession(c)'
  <2>1. ForeignSession(c)
    BY <1>0, <1>6 DEF Foreign
  <2>2. toR'[c] = toR[c]
    <3>1. CASE c = Conn(r)
      BY <1>6, <3>1 DEF Conn
    <3>2. CASE c # Conn(r)
      BY <3>2
    <3> QED BY <3>1, <3>2
  <2> QED BY <2>1, <2>2 DEF ForeignSession, NoService
<1> QED BY <1>1, <1>2, <1>3, <1>4, <1>5, <1>6 DEF IInv, Progress, Talks, Foreign

(* A step of the provider: no reader moves.                                *)
LEMMA ProviderStep ==
    ASSUME IInv, TypeOK', UNCHANGED readerVars, rOpen' = rOpen, ver <= ver',
           Places', Talks',
           \A c \in Ids : c[1] \notin Matching =>
               /\ toR'[c] = toR[c] /\ (c \in session' => c \in session)
               /\ c = cur' => svc' = "hello"
    PROVE  IInv'
<1>0. TypeOK /\ Progress /\ Foreign /\ \A q \in Readers : FreshOf(q)
  BY DEF IInv
<1>1. /\ pc' = pc /\ att' = att /\ chan' = chan /\ slot' = slot /\ need' = need
      /\ seen' = seen /\ last' = last
  BY DEF readerVars
<1>2. Progress'
  <2>1. \A q \in Readers : need[q] \in Nat /\ ver \in Nat /\ ver' \in Nat
    BY <1>0, BoundsAssumption DEF TypeOK
  <2> QED BY <1>0, <1>1, <2>1 DEF Progress, ProgressOf, Open, Conn
<1>3. \A q \in Readers : FreshOf(q)'
  BY <1>0, <1>1 DEF FreshOf
<1>4. Foreign'
  BY <1>0, <1>1 DEF Foreign, ForeignReader, ForeignSession
<1> QED BY <1>2, <1>3, <1>4 DEF IInv
-----------------------------------------------------------------------------
(* The steps of a reader.                                                  *)

LEMMA CallFacts ==
    ASSUME TypeOK, NEW r \in Readers, Call(r)
    PROVE  /\ calls' \in [Readers -> Nat] /\ \A q \in Readers : calls'[q] <= MaxUpdates[faults][q]
           /\ need' \in [Readers -> 0 .. MaxVer] /\ need'[r] = ver
           /\ \A q \in Readers \ {r} : need'[q] = need[q]
<1>1. calls \in [Readers -> Nat] /\ \A q \in Readers : calls[q] <= MaxUpdates[faults][q]
  BY DEF TypeOK
<1>2. calls' = [calls EXCEPT ![r] = @ + 1] /\ calls[r] < MaxUpdates[faults][r]
  BY DEF Call
<1>3. MaxUpdates[faults][r] \in Nat /\ calls[r] \in Nat /\ calls[r] + 1 \in Nat
  BY <1>1, BoundsAssumption DEF TypeOK
<1>4. calls' \in [Readers -> Nat]
  BY <1>1, <1>2, <1>3
<1>5. ASSUME NEW q \in Readers PROVE calls'[q] <= MaxUpdates[faults][q]
  <2>1. CASE q = r
    BY <1>1, <1>2, <1>3, <2>1
  <2>2. CASE q # r
    BY <1>1, <1>2, <2>2
  <2> QED BY <2>1, <2>2
<1>6. /\ need' \in [Readers -> 0 .. MaxVer] /\ need'[r] = ver
      /\ \A q \in Readers \ {r} : need'[q] = need[q]
  BY DEF Call, TypeOK
<1> QED BY <1>4, <1>5, <1>6

LEMMA StartRefreshStep == ASSUME IInv, NEW r \in Readers, StartRefresh(r) PROVE IInv'
<1>0. TypeOK /\ Places /\ Progress /\ Talks /\ Foreign /\ \A q \in Readers : FreshOf(q)
  BY DEF IInv
<1>1. /\ pc[r] = "idle" /\ chan[r] /\ calls[r] < MaxUpdates[faults][r]
      /\ calls' = [calls EXCEPT ![r] = @ + 1] /\ need' = [need EXCEPT ![r] = ver]
      /\ toP' = [toP EXCEPT ![Conn(r)] = Append(@, Update)]
      /\ pc' = [pc EXCEPT ![r] = "refresh"]
      /\ ver' = ver /\ shutdown' = shutdown /\ faults' = faults
      /\ svc' = svc /\ cur' = cur /\ acc' = acc
      /\ session' = session /\ events' = events /\ cm' = cm /\ joined' = joined
      /\ backlog' = backlog /\ toR' = toR /\ pOpen' = pOpen /\ rOpen' = rOpen
      /\ att' = att /\ chan' = chan /\ slot' = slot /\ seen' = seen /\ last' = last
  BY DEF StartRefresh, Call, providerVars, serviceVars, cmVars
<1>2. PICK c \in Ids : c = Conn(r) /\ c[1] = r /\ c[2] = att[r]
  <2>1. att[r] > 0
    BY <1>0, <1>1 DEF Progress, ProgressOf, Open
  <2> QED BY <1>0, <2>1, ConnFacts
<1>3. toR[c] = <<>> /\ toP[c] = <<>> /\ Talk(c) /\ Active(c)
  BY <1>0, <1>1, <1>2 DEF Talks, Talk, Active, Open
<1>4. /\ toP'[c] = <<Update>> /\ (\A d \in Ids : d # c => toP'[d] = toP[d])
      /\ toP' \in [Ids -> Seq(Messages)]
  <2>1. Append(toP[c], Update) = <<Update>> /\ Append(toP[c], Update) \in Seq(Messages)
    BY <1>3, MessageFacts
  <2> QED BY <1>0, <1>1, <1>2, <2>1 DEF TypeOK
<1>5. /\ pc'[r] = "refresh" /\ need'[r] = ver
      /\ \A q \in Readers \ {r} : pc'[q] = pc[q] /\ need'[q] = need[q]
  BY <1>0, <1>1 DEF TypeOK
<1>6. TypeOK'
  <2>1. pc' \in [Readers -> {"idle", "greet", "resolve", "connect", "exchange", "refresh", "gone"}]
    BY <1>0, <1>1 DEF TypeOK
  <2>2. need' \in [Readers -> 0 .. MaxVer]
    BY <1>0, <1>1 DEF TypeOK
  <2>3. calls' \in [Readers -> Nat] /\ \A q \in Readers : calls'[q] <= MaxUpdates[faults][q]
    BY <1>0, CallFacts DEF StartRefresh
  <2> QED BY <1>0, <1>1, <1>4, <2>1, <2>2, <2>3 DEF TypeOK
<1>7. NoService /\ Others(r)
  BY <1>1, <1>5 DEF NoService, Others
<1>8. ASSUME NEW d \in Ids, d[1] = r, d[2] = att[r] PROVE Talk(d)'
  <2>1. d = c
    BY <1>0, <1>2, <1>8, ConnFacts
  <2>2. Queued(c)' <=> Queued(c)
    BY <1>1 DEF Queued
  <2> QED BY <1>1, <1>2, <1>3, <1>4, <1>5, <2>1, <2>2 DEF Talk, Active, Connecting
<1>9. ProgressOf(r)' /\ FreshOf(r)'
  <2>1. ver <= ver
    BY <1>0, BoundsAssumption DEF TypeOK
  <2> QED BY <1>0, <1>1, <1>5, <2>1 DEF Progress, ProgressOf, FreshOf, Open, Conn
<1>10. r \in Matching
  BY <1>0, <1>1 DEF Foreign, ForeignReader
<1>11. \A d \in Ids : d # Conn(r) => toP'[d] = toP[d] /\ toR'[d] = toR[d]
  BY <1>1, <1>2, <1>4
<1> QED BY <1>1, <1>6, <1>7, <1>8, <1>9, <1>10, <1>11, ReaderStep

LEMMA ConnectRefusedStep == ASSUME IInv, NEW r \in Readers, ConnectRefused(r) PROVE IInv'
<1>0. TypeOK /\ Places /\ Progress /\ Talks /\ Foreign /\ \A q \in Readers : FreshOf(q)
  BY DEF IInv
<1>1. /\ pc[r] = "idle" /\ ~chan[r] /\ calls[r] < MaxUpdates[faults][r]
      /\ calls' = [calls EXCEPT ![r] = @ + 1] /\ need' = [need EXCEPT ![r] = ver]
      /\ pc' = [pc EXCEPT ![r] = "idle"] /\ last' = [last EXCEPT ![r] = "err"]
      /\ ver' = ver /\ shutdown' = shutdown /\ faults' = faults
      /\ svc' = svc /\ cur' = cur /\ acc' = acc
      /\ session' = session /\ events' = events /\ cm' = cm /\ joined' = joined
      /\ backlog' = backlog /\ toP' = toP /\ toR' = toR /\ pOpen' = pOpen /\ rOpen' = rOpen
      /\ att' = att /\ chan' = chan /\ slot' = slot /\ seen' = seen
  BY DEF ConnectRefused, Call, Return, providerVars, serviceVars, cmVars, tcpVars
<1>2. /\ pc'[r] = "idle" /\ need'[r] = ver /\ last'[r] = "err"
      /\ \A q \in Readers \ {r} : pc'[q] = pc[q] /\ need'[q] = need[q] /\ last'[q] = last[q]
  BY <1>0, <1>1 DEF TypeOK
<1>3. TypeOK'
  <2>1. pc' \in [Readers -> {"idle", "greet", "resolve", "connect", "exchange", "refresh", "gone"}]
    BY <1>0, <1>1 DEF TypeOK
  <2>2. need' \in [Readers -> 0 .. MaxVer] /\ last' \in [Readers -> {"none", "ok", "err"}]
    BY <1>0, <1>1 DEF TypeOK
  <2>3. calls' \in [Readers -> Nat] /\ \A q \in Readers : calls'[q] <= MaxUpdates[faults][q]
    BY <1>0, CallFacts DEF ConnectRefused
  <2> QED BY <1>0, <1>1, <2>1, <2>2, <2>3 DEF TypeOK
<1>4. NoService /\ Others(r)
  BY <1>1, <1>2 DEF NoService, Others
<1>5. ASSUME NEW d \in Ids, d[1] = r, d[2] = att[r] PROVE Talk(d)'
  <2>1. Talk(d) /\ (Queued(d)' <=> Queued(d))
    BY <1>0, <1>1 DEF Talks, Queued
  <2>2. ~Active(d)'
    BY <1>1, <1>2, <1>5 DEF Active, Open
  <2> QED BY <1>1, <2>1, <2>2 DEF Talk
<1>6. ProgressOf(r)' /\ FreshOf(r)'
  <2>1. ver <= ver
    BY <1>0, BoundsAssumption DEF TypeOK
  <2> QED BY <1>0, <1>1, <1>2, <2>1 DEF Progress, ProgressOf, FreshOf, Open, Conn
<1>7. r \notin Matching => ForeignReader(r)'
  BY <1>0, <1>1, <1>2 DEF Foreign, ForeignReader
<1> QED BY <1>1, <1>3, <1>4, <1>5, <1>6, <1>7, ReaderStep

LEMMA ReceiveWelcomeStep == ASSUME IInv, NEW r \in Readers, ReceiveWelcome(r) PROVE IInv'
<1>0. TypeOK /\ Places /\ Progress /\ Talks /\ Foreign /\ \A q \in Readers : FreshOf(q)
  BY DEF IInv
<1>1. /\ pc[r] = "greet" /\ toR[Conn(r)] # <<>>
      /\ toR' = [toR EXCEPT ![Conn(r)] = Tail(@)]
      /\ toP' = [toP EXCEPT ![Conn(r)] = Append(@, WantGroup)]
      /\ pc' = [pc EXCEPT ![r] = "resolve"]
      /\ ver' = ver /\ shutdown' = shutdown /\ faults' = faults
      /\ svc' = svc /\ cur' = cur /\ acc' = acc
      /\ session' = session /\ events' = events /\ cm' = cm /\ joined' = joined
      /\ backlog' = backlog /\ pOpen' = pOpen /\ rOpen' = rOpen
      /\ att' = att /\ chan' = chan /\ slot' = slot /\ calls' = calls /\ need' = need
      /\ seen' = seen /\ last' = last
  BY DEF ReceiveWelcome, providerVars, serviceVars, cmVars
<1>2. PICK c \in Ids : c = Conn(r) /\ c[1] = r /\ c[2] = att[r]
  <2>1. att[r] > 0
    BY <1>0, <1>1 DEF Progress, ProgressOf, Open
  <2> QED BY <1>0, <2>1, ConnFacts
<1>3. toR[c] = <<Welcome>> /\ toP[c] = <<>> /\ Talk(c) /\ Active(c)
  BY <1>0, <1>1, <1>2 DEF Talks, Talk, Active, Open
<1>4. /\ toP'[c] = <<WantGroup>> /\ (\A d \in Ids : d # c => toP'[d] = toP[d])
      /\ toP' \in [Ids -> Seq(Messages)]
      /\ toR'[c] = <<>> /\ (\A d \in Ids : d # c => toR'[d] = toR[d])
      /\ toR' \in [Ids -> Seq(Messages)]
  <2>1. Append(toP[c], WantGroup) = <<WantGroup>> /\ Append(toP[c], WantGroup) \in Seq(Messages)
    BY <1>3, MessageFacts
  <2>2. Tail(toR[c]) = <<>> /\ Tail(toR[c]) \in Seq(Messages)
    BY <1>3, MessageFacts
  <2> QED BY <1>0, <1>1, <1>2, <2>1, <2>2 DEF TypeOK
<1>5. pc'[r] = "resolve" /\ \A q \in Readers \ {r} : pc'[q] = pc[q]
  BY <1>0, <1>1 DEF TypeOK
<1>6. TypeOK'
  <2>1. pc' \in [Readers -> {"idle", "greet", "resolve", "connect", "exchange", "refresh", "gone"}]
    BY <1>0, <1>1 DEF TypeOK
  <2> QED BY <1>0, <1>1, <1>4, <2>1 DEF TypeOK
<1>7. NoService /\ Others(r)
  BY <1>1, <1>5 DEF NoService, Others
<1>8. ASSUME NEW d \in Ids, d[1] = r, d[2] = att[r] PROVE Talk(d)'
  <2>1. d = c
    BY <1>0, <1>2, <1>8, ConnFacts
  <2>2. ~Queued(c)'
    BY <1>1, <1>3 DEF Queued, Talk
  <2> QED BY <1>1, <1>2, <1>3, <1>4, <1>5, <2>1, <2>2 DEF Talk, Active, Connecting
<1>9. ProgressOf(r)' /\ FreshOf(r)'
  BY <1>0, <1>1, <1>5 DEF Progress, ProgressOf, FreshOf, Open, Conn
<1>10. r \in Matching
  BY <1>0, <1>1, <1>2 DEF Foreign, ForeignSession
<1>11. \A d \in Ids : d # Conn(r) => toP'[d] = toP[d] /\ toR'[d] = toR[d]
  BY <1>2, <1>4
<1> QED BY <1>1, <1>6, <1>7, <1>8, <1>9, <1>10, <1>11, ReaderStep

(* A step that takes the reader on, with no message.                       *)
LEMMA ConnectingStep ==
    ASSUME IInv, TypeOK', NEW r \in Readers, NoService,
           pc[r] \in Connecting, pc'[r] \in Connecting,
           \A q \in Readers \ {r} : pc'[q] = pc[q] /\ slot'[q] = slot[q],
           att' = att, chan' = chan, need' = need, seen' = seen, last' = last,
           toP' = toP, toR' = toR, rOpen' = rOpen
    PROVE  IInv'
<1>0. TypeOK /\ Places /\ Progress /\ Talks /\ Foreign /\ \A q \in Readers : FreshOf(q)
  BY DEF IInv
<1>1. Others(r)
  BY DEF Others
<1>2. ASSUME NEW d \in Ids, d[1] = r, d[2] = att[r] PROVE Talk(d)'
  <2>1. Active(d)
    BY <1>2 DEF Active, Open, Connecting
  <2>2. (Queued(d)' <=> Queued(d)) /\ Talk(d) /\ ver <= ver' /\ att[d[1]] \in Nat
    <3>1. MaxSessions \in Nat /\ MaxVer \in Nat /\ ver \in 0 .. MaxVer /\ att[r] \in 0 .. MaxSessions
      BY <1>0, BoundsAssumption DEF TypeOK
    <3> QED BY <1>0, <1>2, <3>1 DEF NoService, Queued, Talks
  <2>3. Quiet(d)
    BY <1>2, <2>1, <2>2 DEF Quiet, NoService
  <2> QED BY <1>0, <2>2, <2>3, TalkKept
<1>3. ProgressOf(r)' /\ FreshOf(r)'
  BY <1>0 DEF Progress, ProgressOf, FreshOf, Open, Conn, Connecting, NoService
<1>4. r \in Matching
  BY <1>0 DEF Foreign, ForeignReader, Connecting
<1> QED BY <1>1, <1>2, <1>3, <1>4, ReaderStep

LEMMA RdmaConnectStep == ASSUME IInv, NEW r \in Readers, RdmaConnect(r) PROVE IInv'
<1>0. TypeOK /\ Progress
  BY DEF IInv
<1>1. /\ pc[r] = "resolve"
      /\ cm' = [cm EXCEPT ![Conn(r)] = "req"] /\ events' = Append(events, Event("request", Conn(r)))
      /\ pc' = [pc EXCEPT ![r] = "connect"]
      /\ ver' = ver /\ shutdown' = shutdown /\ faults' = faults
      /\ svc' = svc /\ cur' = cur /\ acc' = acc
      /\ session' = session /\ joined' = joined
      /\ backlog' = backlog /\ pOpen' = pOpen /\ rOpen' = rOpen /\ toP' = toP /\ toR' = toR
      /\ att' = att /\ chan' = chan /\ slot' = slot /\ calls' = calls /\ need' = need
      /\ seen' = seen /\ last' = last
  BY DEF RdmaConnect, MayConnect, providerVars, serviceVars, tcpVars
<1>2. Conn(r) \in Ids
  <2>1. att[r] > 0
    BY <1>0, <1>1 DEF Progress, ProgressOf, Open
  <2> QED BY <1>0, <2>1, ConnFacts
<1>3. pc'[r] = "connect" /\ \A q \in Readers \ {r} : pc'[q] = pc[q]
  BY <1>0, <1>1 DEF TypeOK
<1>4. TypeOK'
  <2>1. pc' \in [Readers -> {"idle", "greet", "resolve", "connect", "exchange", "refresh", "gone"}]
    BY <1>0, <1>1 DEF TypeOK
  <2>2. events' \in Seq(Events)
    BY <1>0, <1>1, <1>2, EventFacts DEF TypeOK
  <2>3. cm' \in [Ids -> {"none", "req", "accepted", "est", "gone", "dead"}]
    BY <1>0, <1>1, <1>2 DEF TypeOK
  <2> QED BY <1>0, <1>1, <2>1, <2>2, <2>3 DEF TypeOK
<1>5. NoService
  BY <1>1 DEF NoService
<1> QED BY <1>1, <1>3, <1>4, <1>5, ConnectingStep DEF Connecting

LEMMA EstablishedStep == ASSUME IInv, NEW r \in Readers, Established(r) PROVE IInv'
<1>0. TypeOK /\ Progress
  BY DEF IInv
<1>1. /\ pc[r] = "connect"
      /\ cm' = [Abandon({slot[r]}) EXCEPT ![Conn(r)] = "est"]
      /\ events' = Append(events, Event("established", Conn(r))) \o Disconnects(slot[r])
      /\ slot' = [slot EXCEPT ![r] = Conn(r)]
      /\ pc' = [pc EXCEPT ![r] = "exchange"]
      /\ ver' = ver /\ shutdown' = shutdown /\ faults' = faults
      /\ svc' = svc /\ cur' = cur /\ acc' = acc
      /\ session' = session /\ joined' = joined
      /\ backlog' = backlog /\ pOpen' = pOpen /\ rOpen' = rOpen /\ toP' = toP /\ toR' = toR
      /\ att' = att /\ chan' = chan /\ calls' = calls /\ need' = need
      /\ seen' = seen /\ last' = last
  BY DEF Established, providerVars, serviceVars, tcpVars
<1>2. Conn(r) \in Ids
  <2>1. att[r] > 0
    BY <1>0, <1>1 DEF Progress, ProgressOf, Open
  <2> QED BY <1>0, <2>1, ConnFacts
<1>3. /\ pc'[r] = "exchange" /\ \A q \in Readers \ {r} : pc'[q] = pc[q] /\ slot'[q] = slot[q]
  BY <1>0, <1>1 DEF TypeOK
<1>4. TypeOK'
  <2>1. pc' \in [Readers -> {"idle", "greet", "resolve", "connect", "exchange", "refresh", "gone"}]
    BY <1>0, <1>1 DEF TypeOK
  <2>2. events' \in Seq(Events)
    <3>1. Append(events, Event("established", Conn(r))) \in Seq(Events)
      BY <1>0, <1>2, EventFacts DEF TypeOK
    <3>2. Disconnects(slot[r]) \in Seq(Events)
      BY DisconnectsFacts
    <3> QED BY <1>1, <3>1, <3>2
  <2>3. cm' \in [Ids -> {"none", "req", "accepted", "est", "gone", "dead"}]
    <3>1. Abandon({slot[r]}) \in [Ids -> {"none", "req", "accepted", "est", "gone", "dead"}]
      BY <1>0, AbandonFacts
    <3> QED BY <1>1, <1>2, <3>1
  <2>4. slot' \in [Readers -> Ids \cup {None}]
    BY <1>0, <1>1, <1>2 DEF TypeOK
  <2> QED BY <1>0, <1>1, <2>1, <2>2, <2>3, <2>4 DEF TypeOK
<1>5. NoService
  BY <1>1 DEF NoService
<1> QED BY <1>1, <1>3, <1>4, <1>5, ConnectingStep DEF Connecting

LEMMA ReceiveExchangeStep == ASSUME IInv, NEW r \in Readers, ReceiveExchange(r) PROVE IInv'
<1>0. TypeOK /\ Places /\ Progress /\ Talks /\ Foreign /\ \A q \in Readers : FreshOf(q)
  BY DEF IInv
<1>1. /\ pc[r] \in {"exchange", "refresh"} /\ toR[Conn(r)] # <<>>
      /\ toR' = [toR EXCEPT ![Conn(r)] = Tail(@)]
      /\ chan' = [chan EXCEPT ![r] = TRUE]
      /\ seen' = [seen EXCEPT ![r] = Head(toR[Conn(r)]).ver]
      /\ pc' = [pc EXCEPT ![r] = "idle"] /\ last' = [last EXCEPT ![r] = "ok"]
      /\ ver' = ver /\ shutdown' = shutdown /\ faults' = faults
      /\ svc' = svc /\ cur' = cur /\ acc' = acc
      /\ session' = session /\ events' = events /\ cm' = cm /\ joined' = joined
      /\ backlog' = backlog /\ toP' = toP /\ pOpen' = pOpen /\ rOpen' = rOpen
      /\ att' = att /\ slot' = slot /\ calls' = calls /\ need' = need
  BY DEF ReceiveExchange, Return, providerVars, serviceVars, cmVars
<1>2. PICK c \in Ids : c = Conn(r) /\ c[1] = r /\ c[2] = att[r]
  <2>1. att[r] > 0
    BY <1>0, <1>1 DEF Progress, ProgressOf, Open
  <2> QED BY <1>0, <2>1, ConnFacts
<1>3. Answered(c) /\ toP[c] = <<>> /\ Talk(c) /\ Active(c)
  BY <1>0, <1>1, <1>2 DEF Talks, Talk, Active, Open, Connecting
<1>4. PICK v \in 0 .. ver : v >= need[r] /\ toR[c] = <<Exchange(v)>>
  BY <1>2, <1>3 DEF Answered
<1>5. v \in 0 .. MaxVer /\ Head(toR[c]) = Exchange(v) /\ Exchange(v).ver = v
  <2>1. v \in 0 .. MaxVer
    BY <1>0, BoundsAssumption DEF TypeOK
  <2> QED BY <1>4, <2>1, MessageFacts
<1>6. /\ toR'[c] = <<>> /\ (\A d \in Ids : d # c => toR'[d] = toR[d])
      /\ toR' \in [Ids -> Seq(Messages)]
  <2>1. Tail(toR[c]) = <<>> /\ Tail(toR[c]) \in Seq(Messages)
    BY <1>4
  <2> QED BY <1>0, <1>1, <1>2, <2>1 DEF TypeOK
<1>7. /\ pc'[r] = "idle" /\ chan'[r] = TRUE /\ seen'[r] = v /\ last'[r] = "ok"
      /\ \A q \in Readers \ {r} : /\ pc'[q] = pc[q] /\ chan'[q] = chan[q]
                                  /\ seen'[q] = seen[q] /\ last'[q] = last[q]
  BY <1>0, <1>1, <1>2, <1>5 DEF TypeOK
<1>8. TypeOK'
  <2>1. pc' \in [Readers -> {"idle", "greet", "resolve", "connect", "exchange", "refresh", "gone"}]
    BY <1>0, <1>1 DEF TypeOK
  <2>2. chan' \in [Readers -> BOOLEAN] /\ last' \in [Readers -> {"none", "ok", "err"}]
    BY <1>0, <1>1 DEF TypeOK
  <2>3. seen' \in [Readers -> 0 .. MaxVer]
    BY <1>0, <1>1, <1>2, <1>5 DEF TypeOK
  <2> QED BY <1>0, <1>1, <1>6, <2>1, <2>2, <2>3 DEF TypeOK
<1>9. NoService /\ Others(r)
  BY <1>1, <1>7 DEF NoService, Others
<1>10. ASSUME NEW d \in Ids, d[1] = r, d[2] = att[r] PROVE Talk(d)'
  <2>1. d = c
    BY <1>0, <1>2, <1>10, ConnFacts
  <2>2. (Queued(c)' <=> Queued(c)) /\ toR[c] # <<>>
    BY <1>1, <1>2 DEF Queued
  <2> QED BY <1>1, <1>2, <1>3, <1>6, <1>7, <2>1, <2>2 DEF Talk, Active, Connecting
<1>11. ProgressOf(r)' /\ FreshOf(r)'
  BY <1>0, <1>1, <1>4, <1>7 DEF Progress, ProgressOf, FreshOf, Open, Conn
<1>12. r \in Matching
  BY <1>0, <1>1, <1>2 DEF Foreign, ForeignSession
<1>13. \A d \in Ids : d # Conn(r) => toP'[d] = toP[d] /\ toR'[d] = toR[d]
  BY <1>1, <1>2, <1>6
<1> QED BY <1>1, <1>8, <1>9, <1>10, <1>11, <1>12, <1>13, ReaderStep

(* A step in which r gives its session up.                                 *)
LEMMA GivingUpStep ==
    ASSUME IInv, TypeOK', NEW r \in Readers, NoService,
           pc'[r] = "gone" \/ (pc'[r] = "idle" /\ last'[r] = "err"),
           ~chan'[r], last'[r] \in {last[r], "err"},
           \A q \in Readers \ {r} : /\ pc'[q] = pc[q] /\ chan'[q] = chan[q]
                                    /\ last'[q] = last[q],
           att' = att, slot' = slot, need' = need, seen' = seen,
           toP' = toP, toR' = toR, rOpen' = rOpen \ {Conn(r)}
    PROVE  IInv'
<1>0. TypeOK /\ Places /\ Progress /\ Talks /\ Foreign /\ \A q \in Readers : FreshOf(q)
  BY DEF IInv
<1>1. Others(r)
  <2>1. \A q \in Readers \ {r} : Conn(q) # Conn(r)
    BY DEF Conn
  <2> QED BY <2>1 DEF Others
<1>2. ASSUME NEW d \in Ids, d[1] = r, d[2] = att[r] PROVE Talk(d)'
  <2>1. Talk(d) /\ (Queued(d)' <=> Queued(d))
    BY <1>0 DEF Talks, Queued, NoService
  <2>2. ~Active(d)'
    BY <1>2 DEF Active, Open
  <2> QED BY <2>1, <2>2 DEF Talk, NoService
<1>3. ProgressOf(r)' /\ FreshOf(r)'
  BY <1>0 DEF Progress, ProgressOf, FreshOf, Open, Conn, NoService
<1>4. r \notin Matching => ForeignReader(r)'
  BY <1>0 DEF Foreign, ForeignReader
<1> QED BY <1>1, <1>2, <1>3, <1>4, ReaderStep

LEMMA ReceiveFailsStep == ASSUME IInv, NEW r \in Readers, ReceiveFails(r) PROVE IInv'
<1>0. TypeOK
  BY DEF IInv
<1>1. /\ rOpen' = rOpen \ {Conn(r)} /\ chan' = [chan EXCEPT ![r] = FALSE]
      /\ pc' = [pc EXCEPT ![r] = "idle"] /\ last' = [last EXCEPT ![r] = "err"]
      /\ ver' = ver /\ shutdown' = shutdown /\ faults' = faults
      /\ svc' = svc /\ cur' = cur /\ acc' = acc
      /\ session' = session /\ events' = events /\ cm' = cm /\ joined' = joined
      /\ backlog' = backlog /\ toP' = toP /\ toR' = toR /\ pOpen' = pOpen
      /\ att' = att /\ slot' = slot /\ calls' = calls /\ need' = need /\ seen' = seen
  BY DEF ReceiveFails, DropChannel, Return, providerVars, serviceVars, cmVars
<1>2. /\ pc'[r] = "idle" /\ chan'[r] = FALSE /\ last'[r] = "err"
      /\ \A q \in Readers \ {r} : pc'[q] = pc[q] /\ chan'[q] = chan[q] /\ last'[q] = last[q]
  BY <1>0, <1>1 DEF TypeOK
<1>3. TypeOK'
  <2>1. pc' \in [Readers -> {"idle", "greet", "resolve", "connect", "exchange", "refresh", "gone"}]
    BY <1>0, <1>1 DEF TypeOK
  <2>2. chan' \in [Readers -> BOOLEAN] /\ last' \in [Readers -> {"none", "ok", "err"}]
    BY <1>0, <1>1 DEF TypeOK
  <2>3. rOpen' \subseteq Ids
    BY <1>0, <1>1 DEF TypeOK
  <2> QED BY <1>0, <1>1, <2>1, <2>2, <2>3 DEF TypeOK
<1>4. NoService
  BY <1>1 DEF NoService
<1> QED BY <1>1, <1>2, <1>3, <1>4, GivingUpStep

LEMMA ConnectFailsStep == ASSUME IInv, NEW r \in Readers, ConnectFails(r) PROVE IInv'
<1>0. TypeOK /\ Progress
  BY DEF IInv
<1>1. /\ pc[r] \in {"resolve", "connect"}
      /\ cm' = Abandon({Conn(r)}) /\ events' = events \o Disconnects(Conn(r))
      /\ rOpen' = rOpen \ {Conn(r)} /\ chan' = chan
      /\ pc' = [pc EXCEPT ![r] = "idle"] /\ last' = [last EXCEPT ![r] = "err"]
      /\ ver' = ver /\ shutdown' = shutdown /\ faults' = faults
      /\ svc' = svc /\ cur' = cur /\ acc' = acc
      /\ session' = session /\ joined' = joined
      /\ backlog' = backlog /\ toP' = toP /\ toR' = toR /\ pOpen' = pOpen
      /\ att' = att /\ slot' = slot /\ calls' = calls /\ need' = need /\ seen' = seen
  BY DEF ConnectFails, Return, providerVars, serviceVars
<1>2. /\ pc'[r] = "idle" /\ ~chan'[r] /\ last'[r] = "err"
      /\ \A q \in Readers \ {r} : pc'[q] = pc[q] /\ last'[q] = last[q]
  BY <1>0, <1>1 DEF TypeOK, Progress, ProgressOf
<1>3. TypeOK'
  <2>1. pc' \in [Readers -> {"idle", "greet", "resolve", "connect", "exchange", "refresh", "gone"}]
    BY <1>0, <1>1 DEF TypeOK
  <2>2. last' \in [Readers -> {"none", "ok", "err"}] /\ rOpen' \subseteq Ids
    BY <1>0, <1>1 DEF TypeOK
  <2>3. cm' \in [Ids -> {"none", "req", "accepted", "est", "gone", "dead"}]
    BY <1>0, <1>1, AbandonFacts
  <2>4. events' \in Seq(Events)
    <3>1. events \in Seq(Events) /\ Disconnects(Conn(r)) \in Seq(Events)
      BY <1>0, DisconnectsFacts DEF TypeOK
    <3> QED BY <1>1, <3>1
  <2> QED BY <1>0, <1>1, <2>1, <2>2, <2>3, <2>4 DEF TypeOK
<1>4. NoService
  BY <1>1 DEF NoService
<1> QED BY <1>1, <1>2, <1>3, <1>4, GivingUpStep

LEMMA LeaveStep == ASSUME IInv, NEW r \in Readers, Leave(r) PROVE IInv'
<1>0. TypeOK
  BY DEF IInv
<1>1. /\ cm' = Abandon({Conn(r), slot[r]})
      /\ rOpen' = rOpen \ {Conn(r)} /\ chan' = [chan EXCEPT ![r] = FALSE]
      /\ pc' = [pc EXCEPT ![r] = "gone"] /\ last' = last
      /\ ver' = ver /\ shutdown' = shutdown /\ faults' = faults
      /\ svc' = svc /\ cur' = cur /\ acc' = acc
      /\ session' = session /\ joined' = joined
      /\ backlog' = backlog /\ toP' = toP /\ toR' = toR /\ pOpen' = pOpen
      /\ att' = att /\ slot' = slot /\ calls' = calls /\ need' = need /\ seen' = seen
  BY DEF Leave, DropChannel, providerVars, serviceVars
<1>2. /\ pc'[r] = "gone" /\ chan'[r] = FALSE
      /\ \A q \in Readers \ {r} : pc'[q] = pc[q] /\ chan'[q] = chan[q]
  BY <1>0, <1>1 DEF TypeOK
<1>3. TypeOK'
  <2>1. pc' \in [Readers -> {"idle", "greet", "resolve", "connect", "exchange", "refresh", "gone"}]
    BY <1>0, <1>1 DEF TypeOK
  <2>2. chan' \in [Readers -> BOOLEAN] /\ rOpen' \subseteq Ids
    BY <1>0, <1>1 DEF TypeOK
  <2>3. cm' \in [Ids -> {"none", "req", "accepted", "est", "gone", "dead"}]
    BY <1>0, <1>1, AbandonFacts
  <2>4. events' \in Seq(Events)
    <3>1. /\ events \in Seq(Events) /\ Disconnects(Conn(r)) \in Seq(Events)
          /\ Disconnects(slot[r]) \in Seq(Events) /\ <<>> \in Seq(Events)
      BY <1>0, DisconnectsFacts DEF TypeOK
    <3>2. events \o Disconnects(Conn(r)) \in Seq(Events)
      BY <3>1
    <3>3. PICK es \in Seq(Events) : events' = events \o Disconnects(Conn(r)) \o es
      BY <3>1 DEF Leave
    <3> QED BY <3>2, <3>3
  <2> QED BY <1>0, <1>1, <2>1, <2>2, <2>3, <2>4 DEF TypeOK
<1>4. NoService
  BY <1>1 DEF NoService
<1> QED BY <1>1, <1>2, <1>3, <1>4, GivingUpStep

LEMMA StartFreshStep == ASSUME IInv, NEW r \in Readers, StartFresh(r) PROVE IInv'
<1>0. TypeOK /\ Places /\ Progress /\ Talks /\ Foreign /\ \A q \in Readers : FreshOf(q)
  BY DEF IInv
<1>1. /\ pc[r] = "idle" /\ ~chan[r] /\ att[r] < MaxSessions /\ svc # "ended"
      /\ att' = [att EXCEPT ![r] = @ + 1] /\ pc' = [pc EXCEPT ![r] = "greet"]
      /\ rOpen' = rOpen \cup {<<r, att[r] + 1>>} /\ pOpen' = pOpen \cup {<<r, att[r] + 1>>}
      /\ backlog' = Append(backlog, <<r, att[r] + 1>>)
      /\ toP' = [toP EXCEPT ![<<r, att[r] + 1>>] = <<Hello>>]
      /\ ver' = ver /\ shutdown' = shutdown /\ faults' = faults
      /\ svc' = svc /\ cur' = cur /\ acc' = acc
      /\ session' = session /\ events' = events /\ cm' = cm /\ joined' = joined
      /\ toR' = toR /\ chan' = chan /\ slot' = slot /\ seen' = seen /\ last' = last
  BY DEF StartFresh, Call, providerVars, serviceVars, cmVars
<1>2. /\ att[r] \in Nat /\ MaxSessions \in Nat /\ att[r] + 1 \in 1 .. MaxSessions
      /\ att[r] + 1 > att[r] /\ att \in [Readers -> 0 .. MaxSessions]
      /\ ver \in Nat /\ ver <= ver
  BY <1>0, <1>1, BoundsAssumption DEF TypeOK
<1>3. PICK c \in Ids : c = <<r, att[r] + 1>> /\ c[1] = r /\ c[2] = att[r] + 1
  <2>1. PICK k \in 1 .. MaxSessions : k = att[r] + 1
    BY <1>2
  <2>2. <<r, k>> \in Ids
    BY DEF Ids
  <2> QED BY <2>1, <2>2
<1>4. Talk(c) /\ ~Queued(c) /\ c # cur /\ c \notin session /\ toR[c] = <<>>
  BY <1>0, <1>2, <1>3 DEF Talks, Talk
<1>5. /\ toP'[c] = <<Hello>> /\ (\A d \in Ids : d # c => toP'[d] = toP[d])
      /\ toP' \in [Ids -> Seq(Messages)]
  <2>1. <<Hello>> \in Seq(Messages)
    BY MessageFacts
  <2> QED BY <1>0, <1>1, <1>3, <2>1 DEF TypeOK
<1>6. /\ pc'[r] = "greet" /\ att'[r] = c[2]
      /\ \A q \in Readers \ {r} : pc'[q] = pc[q] /\ att'[q] = att[q]
  BY <1>0, <1>1, <1>2, <1>3 DEF TypeOK
<1>7. /\ need'[r] = ver /\ need' \in [Readers -> 0 .. MaxVer]
      /\ \A q \in Readers \ {r} : need'[q] = need[q]
      /\ calls' \in [Readers -> Nat] /\ \A q \in Readers : calls'[q] <= MaxUpdates[faults][q]
  BY <1>0, CallFacts DEF StartFresh
<1>8. /\ backlog \in Seq(Ids) /\ Len(backlog) \in Nat /\ backlog' \in Seq(Ids)
      /\ Len(backlog') = Len(backlog) + 1 /\ backlog'[Len(backlog) + 1] = c
      /\ \A i \in 1 .. Len(backlog) : backlog'[i] = backlog[i]
  <2>1. backlog \in Seq(Ids) /\ backlog' = Append(backlog, c)
    BY <1>0, <1>1, <1>3 DEF TypeOK
  <2> QED BY <2>1
<1>9. \A d \in Ids : Queued(d)' <=> Queued(d) \/ d = c
  <2>1. \A i \in 1 .. Len(backlog') : i \in 1 .. Len(backlog) \/ i = Len(backlog) + 1
    BY <1>8
  <2>2. \A i \in 1 .. Len(backlog) + 1 : i \in 1 .. Len(backlog')
    BY <1>8
  <2>3. Len(backlog) + 1 \in 1 .. Len(backlog') /\ \A i \in 1 .. Len(backlog) : i \in 1 .. Len(backlog')
    BY <1>8
  <2> QED BY <1>8, <2>1, <2>3 DEF Queued
<1>10. TypeOK'
  <2>1. pc' \in [Readers -> {"idle", "greet", "resolve", "connect", "exchange", "refresh", "gone"}]
    BY <1>0, <1>1 DEF TypeOK
  <2>2. att' \in [Readers -> 0 .. MaxSessions]
    <3>1. att[r] + 1 \in 0 .. MaxSessions
      BY <1>2
    <3> QED BY <1>1, <1>2, <3>1
  <2>3. rOpen' \subseteq Ids /\ pOpen' \subseteq Ids
    BY <1>0, <1>1, <1>3 DEF TypeOK
  <2> QED BY <1>0, <1>1, <1>5, <1>7, <1>8, <2>1, <2>2, <2>3 DEF TypeOK
<1>11. Places'
  <2>1. ASSUME NEW i \in 1 .. Len(backlog'), NEW j \in 1 .. Len(backlog'), i # j
        PROVE  backlog'[i] # backlog'[j]
    <3>0. /\ i \in 1 .. Len(backlog) \/ i = Len(backlog) + 1
          /\ j \in 1 .. Len(backlog) \/ j = Len(backlog) + 1
      BY <1>8
    <3>1. CASE i \in 1 .. Len(backlog) /\ j \in 1 .. Len(backlog)
      BY <1>0, <1>8, <2>1, <3>1 DEF Places
    <3>2. CASE i = Len(backlog) + 1 /\ j \in 1 .. Len(backlog)
      BY <1>4, <1>8, <3>2 DEF Queued
    <3>3. CASE j = Len(backlog) + 1 /\ i \in 1 .. Len(backlog)
      BY <1>4, <1>8, <3>3 DEF Queued
    <3> QED BY <2>1, <3>0, <3>1, <3>2, <3>3
  <2>2. \A d \in Ids : Queued(d)' => d # cur' /\ d \notin session'
    BY <1>0, <1>1, <1>4, <1>9 DEF Places
  <2>3. \A d \in Ids : d \in pOpen' <=> Queued(d)' \/ d = cur' \/ d \in session'
    BY <1>0, <1>1, <1>3, <1>9 DEF Places
  <2> QED BY <1>0, <1>1, <2>1, <2>2, <2>3 DEF Places
<1>12. Progress'
  <2> SUFFICES ASSUME NEW q \in Readers PROVE ProgressOf(q)'
    BY DEF Progress
  <2>1. CASE q = r
    <3>1. Conn(r)' = c
      BY <1>3, <1>6 DEF Conn
    <3> QED BY <1>1, <1>2, <1>3, <1>6, <1>7, <2>1, <3>1 DEF ProgressOf
  <2>2. CASE q # r
    <3>1. ProgressOf(q) /\ Conn(q)' = Conn(q)
      BY <1>0, <1>6, <2>2 DEF Progress, Conn
    <3> QED BY <1>1, <1>6, <1>7, <2>2, <3>1 DEF ProgressOf, Open
  <2> QED BY <2>1, <2>2
<1>13. Talks'
  <2> SUFFICES ASSUME NEW d \in Ids PROVE Talk(d)'
    BY DEF Talks
  <2>0. Talk(d) /\ d[1] \in Readers /\ att[d[1]] \in Nat /\ d[2] \in Nat
    <3>1. d[1] \in Readers /\ d[2] \in 1 .. MaxSessions
      BY IdFacts
    <3> QED BY <1>0, <1>2, <3>1 DEF Talks
  <2>1. CASE d = c
    BY <1>1, <1>2, <1>3, <1>4, <1>5, <1>6, <2>1 DEF Talk, Connecting
  <2>2. CASE d # c
    <3>1. toP'[d] = toP[d] /\ toR'[d] = toR[d] /\ (Queued(d)' => Queued(d))
      BY <1>1, <1>5, <1>9, <2>2
    <3>2. CASE d[1] = r
      <4>1. d[2] # c[2]
        BY <1>3, <2>2, <3>2, IdFacts
      <4>2. ~Active(d)'
        BY <1>6, <3>2, <4>1 DEF Active
      <4>3. Quiet(d)
        BY <1>1, <1>2, <1>3, <1>6, <3>1, <3>2, <4>2 DEF Quiet
      <4> QED BY <1>0, <1>1, <1>2, <1>10, <2>0, <4>3, TalkKept
    <3>3. CASE d[1] # r
      <4>1. /\ Active(d)' => Active(d)
            /\ need'[d[1]] = need[d[1]] /\ pc'[d[1]] = pc[d[1]] /\ att'[d[1]] = att[d[1]]
        BY <1>1, <1>6, <1>7, <2>0, <3>3 DEF Active, Open
      <4>2. Quiet(d)
        BY <1>1, <2>0, <3>1, <4>1 DEF Quiet
      <4> QED BY <1>0, <1>1, <1>2, <1>10, <2>0, <4>2, TalkKept
    <3> QED BY <3>2, <3>3
  <2> QED BY <2>1, <2>2
<1>14. Foreign'
  <2>1. ASSUME NEW q \in Readers \ Matching PROVE ForeignReader(q)'
    <3>1. CASE q = r
      BY <1>0, <1>1, <1>6, <3>1 DEF Foreign, ForeignReader
    <3>2. CASE q # r
      BY <1>0, <1>1, <1>6, <3>2 DEF Foreign, ForeignReader
    <3> QED BY <3>1, <3>2
  <2>2. \A d \in Ids : d[1] \notin Matching => ForeignSession(d)'
    BY <1>0, <1>1 DEF Foreign, ForeignSession
  <2> QED BY <2>1, <2>2 DEF Foreign
<1>15. ASSUME NEW q \in Readers PROVE FreshOf(q)'
  <2>1. CASE q = r
    BY <1>6, <2>1 DEF FreshOf
  <2>2. CASE q # r
    BY <1>0, <1>1, <1>6, <1>7, <2>2 DEF FreshOf
  <2> QED BY <2>1, <2>2
<1> QED BY <1>10, <1>11, <1>12, <1>13, <1>14, <1>15 DEF IInv

-----------------------------------------------------------------------------
(* The steps of the service thread and of the sessions.                    *)

LEMMA HangupPlaces ==
    ASSUME TypeOK, Places, Hangup, svc # "ended", backlog' = backlog, session' = session,
           shutdown' = shutdown
    PROVE  Places' /\ pOpen' \subseteq Ids /\ cur' = None /\ svc' = "poll"
<1>1. svc' = "poll" /\ cur' = None /\ pOpen' = pOpen \ {cur}
  BY DEF Hangup
<1>2. \A c \in Ids : c # None /\ (Queued(c)' <=> Queued(c))
  BY IdFacts DEF Queued
<1>3. None \notin session
  BY <1>2 DEF TypeOK
<1>4. \A c \in Ids : c \in pOpen' <=> Queued(c)' \/ c = cur' \/ c \in session'
  BY <1>1, <1>2 DEF Places
<1>5. Places'
  BY <1>1, <1>2, <1>3, <1>4 DEF Places
<1> QED BY <1>1, <1>5 DEF TypeOK

LEMMA AcceptTcpStep == ASSUME IInv, AcceptTcp PROVE IInv'
<1>0. TypeOK /\ Places /\ Talks
  BY DEF IInv
<1>1. /\ svc = "poll" /\ ~shutdown /\ backlog # <<>>
      /\ cur' = Head(backlog) /\ backlog' = Tail(backlog) /\ svc' = "hello"
      /\ ver' = ver /\ shutdown' = shutdown /\ faults' = faults
      /\ acc' = acc /\ session' = session
      /\ events' = events /\ cm' = cm /\ joined' = joined
      /\ toP' = toP /\ toR' = toR /\ pOpen' = pOpen /\ rOpen' = rOpen
      /\ UNCHANGED readerVars
      /\ pc' = pc /\ att' = att /\ chan' = chan /\ slot' = slot /\ calls' = calls
      /\ need' = need /\ seen' = seen /\ last' = last
  BY DEF AcceptTcp, providerVars, cmVars, readerVars
<1>2. backlog \in Seq(Ids) /\ cur = None /\ ver <= ver /\ acc = None
  BY <1>0, <1>1, BoundsAssumption DEF TypeOK
<1>3. /\ Head(backlog) \in Ids /\ Head(backlog) = backlog[1] /\ 1 \in 1 .. Len(backlog)
      /\ Tail(backlog) \in Seq(Ids) /\ Len(Tail(backlog)) = Len(backlog) - 1
      /\ Len(backlog) \in Nat
      /\ \A i \in 1 .. Len(Tail(backlog)) :
             i + 1 \in 1 .. Len(backlog) /\ Tail(backlog)[i] = backlog[i + 1] /\ i + 1 # 1
  BY <1>1, <1>2
<1>4. PICK c \in Ids : c = backlog[1] /\ c = cur' /\ c # None
  BY <1>1, <1>3, IdFacts
<1>5. /\ backlog' \in Seq(Ids)
      /\ \A i \in 1 .. Len(backlog') :
             i + 1 \in 1 .. Len(backlog) /\ backlog'[i] = backlog[i + 1] /\ i + 1 # 1 /\ i \in Nat
  BY <1>1, <1>3
<1>6. Queued(c) /\ c \notin session
  BY <1>0, <1>3, <1>4 DEF Queued, Places
<1>7. \A d \in Ids : Queued(d)' <=> Queued(d) /\ d # c
  <2>1. ASSUME NEW d \in Ids, Queued(d)' PROVE Queued(d) /\ d # c
    <3>1. PICK i \in 1 .. Len(backlog') : backlog'[i] = d
      BY <2>1 DEF Queued
    <3>2. i + 1 \in 1 .. Len(backlog) /\ backlog[i + 1] = d /\ i + 1 # 1
      BY <1>5, <3>1
    <3>3. d # c
      BY <1>0, <1>3, <1>4, <3>2 DEF Places
    <3> QED BY <3>2, <3>3 DEF Queued
  <2>2. ASSUME NEW d \in Ids, Queued(d), d # c PROVE Queued(d)'
    <3>1. PICK i \in 1 .. Len(backlog) : backlog[i] = d
      BY <2>2 DEF Queued
    <3>2. i # 1
      BY <1>4, <2>2, <3>1
    <3>3. i - 1 \in 1 .. Len(backlog') /\ (i - 1) + 1 = i
      BY <1>1, <1>3, <3>2
    <3>4. backlog'[i - 1] = d
      BY <1>5, <3>1, <3>3
    <3> QED BY <3>3, <3>4 DEF Queued
  <2> QED BY <2>1, <2>2
<1>8. TypeOK'
  BY <1>0, <1>1, <1>2, <1>4, <1>5 DEF TypeOK
<1>9. Places'
  <2>1. ASSUME NEW i \in 1 .. Len(backlog'), NEW j \in 1 .. Len(backlog'), i # j
        PROVE  backlog'[i] # backlog'[j]
    <3>1. /\ i + 1 \in 1 .. Len(backlog) /\ backlog'[i] = backlog[i + 1]
          /\ j + 1 \in 1 .. Len(backlog) /\ backlog'[j] = backlog[j + 1]
      BY <1>5
    <3>2. i + 1 # j + 1
      BY <1>5, <2>1
    <3> QED BY <1>0, <3>1, <3>2 DEF Places
  <2>2. \A d \in Ids : Queued(d)' => d # cur' /\ d \notin session'
    BY <1>0, <1>1, <1>4, <1>7 DEF Places
  <2>3. \A d \in Ids : d \in pOpen' <=> Queued(d)' \/ d = cur' \/ d \in session'
    BY <1>0, <1>1, <1>2, <1>4, <1>6, <1>7, IdFacts DEF Places
  <2>4. cur' \notin session'
    BY <1>1, <1>4, <1>6
  <2> QED BY <1>1, <2>1, <2>2, <2>3, <2>4 DEF Places
<1>10. Talks'
  <2> SUFFICES ASSUME NEW d \in Ids PROVE Talk(d)'
    BY DEF Talks
  <2>1. Talk(d) /\ d[1] \in Readers /\ att[d[1]] \in 0 .. MaxSessions /\ MaxSessions \in Nat
    BY <1>0, IdFacts, BoundsAssumption DEF Talks, TypeOK
  <2>2. Active(d)' => Active(d)
    BY <1>1 DEF Active, Open
  <2>3. Quiet(d)
    BY <1>1, <1>4, <1>6, <1>7, <2>1, <2>2 DEF Quiet
  <2> QED BY <1>0, <1>1, <1>2, <1>8, <2>1, <2>3, TalkKept
<1> QED BY <1>1, <1>2, <1>8, <1>9, <1>10, ProviderStep

(* A step that gives the handshake up.                                     *)
LEMMA HangupStep ==
    ASSUME IInv, TypeOK', Hangup, svc # "ended", backlog' = backlog, session' = session,
           shutdown' = shutdown, ver' = ver, faults' = faults,
           UNCHANGED readerVars, rOpen' = rOpen,
           toR' = toR,
           \A c \in Ids : \/ toP'[c] = toP[c]
                          \/ c = cur /\ svc = "hello" /\ (Active(c) => toP'[c] = <<>>)
    PROVE  IInv'
<1>0. TypeOK /\ Places /\ Talks /\ Foreign
  BY DEF IInv
<1>a. ver <= ver
  BY <1>0, BoundsAssumption DEF TypeOK
<1>1. Places' /\ cur' = None /\ svc' = "poll"
  BY <1>0, HangupPlaces
<1>2. pc' = pc /\ att' = att /\ chan' = chan /\ need' = need
  BY DEF readerVars
<1>3. Talks'
  <2> SUFFICES ASSUME NEW d \in Ids PROVE Talk(d)'
    BY DEF Talks
  <2>1. Talk(d) /\ d[1] \in Readers /\ att[d[1]] \in 0 .. MaxSessions /\ MaxSessions \in Nat /\ d # None
    BY <1>0, IdFacts, BoundsAssumption DEF Talks, TypeOK
  <2>2. (Active(d)' <=> Active(d)) /\ (Queued(d)' <=> Queued(d)) /\ d # cur'
    BY <1>1, <1>2, <2>1 DEF Active, Open, Queued
  <2>3. CASE toP'[d] = toP[d]
    <3>1. Quiet(d)
      BY <1>2, <2>1, <2>2, <2>3 DEF Quiet
    <3> QED BY <1>0, <1>a, <2>1, <3>1, TalkKept
  <2>4. CASE toP'[d] # toP[d]
    <3>1. d = cur /\ svc = "hello" /\ (Active(d) => toP'[d] = <<>>)
      BY <2>4
    <3>2. ~Queued(d) /\ d \notin session
      BY <1>0, <3>1 DEF Places
    <3>3. Active(d) => pc[d[1]] = "greet" /\ toR[d] = <<>>
      BY <2>1, <3>1 DEF Talk
    <3> QED BY <1>2, <2>1, <2>2, <3>1, <3>2, <3>3 DEF Talk, Connecting
  <2> QED BY <2>3, <2>4
<1>4. \A c \in Ids : c # cur'
  BY <1>1, IdFacts
<1> QED BY <1>0, <1>a, <1>1, <1>3, <1>4, ProviderStep

LEMMA ReceiveHelloStep == ASSUME IInv, ReceiveHello PROVE IInv'
<1>0. TypeOK /\ Places /\ Talks /\ Foreign
  BY DEF IInv
<1>a. ver <= ver
  BY <1>0, BoundsAssumption DEF TypeOK
<1>1. /\ svc = "hello" /\ toP[cur] # <<>> /\ toP' = [toP EXCEPT ![cur] = Tail(@)]
      /\ ver' = ver /\ shutdown' = shutdown /\ faults' = faults
      /\ acc' = acc /\ session' = session
      /\ events' = events /\ cm' = cm /\ joined' = joined
      /\ backlog' = backlog /\ rOpen' = rOpen
      /\ UNCHANGED readerVars
      /\ pc' = pc /\ att' = att /\ chan' = chan /\ slot' = slot /\ calls' = calls
      /\ need' = need /\ seen' = seen /\ last' = last
  BY DEF ReceiveHello, providerVars, cmVars, readerVars
<1>2. PICK c \in Ids : c = cur /\ c # None
  BY <1>0, <1>1 DEF TypeOK
<1>3. /\ toP' \in [Ids -> Seq(Messages)] /\ toP'[c] = Tail(toP[c])
      /\ \A d \in Ids : d # c => toP'[d] = toP[d]
  <2>1. Tail(toP[c]) \in Seq(Messages)
    BY <1>0, <1>1, <1>2 DEF TypeOK
  <2> QED BY <1>0, <1>1, <1>2, <2>1 DEF TypeOK
<1>4. /\ Active(c) => pc[c[1]] = "greet" /\ toP'[c] = <<>> /\ toR[c] = <<>>
      /\ c[2] <= att[c[1]] /\ ~Queued(c) /\ c \notin session
  <2>1. Talk(c) /\ c[1] \in Readers /\ c[2] \in 1 .. MaxSessions
    BY <1>0, IdFacts DEF Talks
  <2>2. att[c[1]] \in 0 .. MaxSessions /\ MaxSessions \in Nat
    BY <1>0, <2>1, BoundsAssumption DEF TypeOK
  <2>3. c[2] <= att[c[1]]
    BY <1>2, <2>1, <2>2 DEF Talk
  <2>4. Active(c) => pc[c[1]] = "greet" /\ toP[c] = <<Hello>> /\ toR[c] = <<>>
    BY <1>1, <1>2, <2>1 DEF Talk
  <2>5. Tail(<<Hello>>) = <<>>
    OBVIOUS
  <2> QED BY <1>0, <1>2, <1>3, <2>3, <2>4, <2>5 DEF Places
<1>5. CASE Greets(c)
  <2>1. /\ toR' = [toR EXCEPT ![c] = Append(@, Welcome)] /\ svc' = "want"
        /\ cur' = cur /\ pOpen' = pOpen
    BY <1>2, <1>5 DEF ReceiveHello
  <2>2. /\ toR' \in [Ids -> Seq(Messages)] /\ toR'[c] = Append(toR[c], Welcome)
        /\ \A d \in Ids : d # c => toR'[d] = toR[d]
    <3>1. Append(toR[c], Welcome) \in Seq(Messages)
      BY <1>0, MessageFacts DEF TypeOK
    <3> QED BY <1>0, <2>1, <3>1 DEF TypeOK
  <2>3. TypeOK'
    BY <1>0, <1>1, <1>2, <1>3, <2>1, <2>2 DEF TypeOK
  <2>4. Places'
    BY <1>0, <1>1, <2>1 DEF Places, Queued
  <2>5. Talks'
    <3> SUFFICES ASSUME NEW d \in Ids PROVE Talk(d)'
      BY DEF Talks
    <3>1. Talk(d) /\ d[1] \in Readers /\ att[d[1]] \in 0 .. MaxSessions /\ MaxSessions \in Nat
      BY <1>0, IdFacts, BoundsAssumption DEF Talks, TypeOK
    <3>2. (Active(d)' <=> Active(d)) /\ (Queued(d)' <=> Queued(d))
      BY <1>1 DEF Active, Open, Queued
    <3>3. CASE d # c
      <4>1. Quiet(d)
        BY <1>1, <1>2, <1>3, <2>1, <2>2, <3>1, <3>2, <3>3 DEF Quiet
      <4> QED BY <1>0, <1>a, <1>1, <2>3, <3>1, <4>1, TalkKept
    <3>4. CASE d = c
      <4>1. Active(c) => toR'[c] = <<Welcome>> /\ toP'[c] = <<>> /\ pc'[c[1]] = "greet"
        <5>1. Append(<<>>, Welcome) = <<Welcome>>
          OBVIOUS
        <5> QED BY <1>1, <1>4, <2>2, <5>1
      <4>2. ~(c[2] > att'[c[1]])
        BY <1>1, <1>4, <3>1, <3>4, IdFacts
      <4> QED BY <1>1, <1>2, <1>4, <2>1, <3>2, <3>4, <4>1, <4>2 DEF Talk, Connecting
    <3> QED BY <3>3, <3>4
  <2>6. \A d \in Ids : d[1] \notin Matching => toR'[d] = toR[d] /\ d # cur'
    BY <1>2, <1>5, <2>1, <2>2 DEF Greets
  <2> QED BY <1>0, <1>a, <1>1, <2>3, <2>4, <2>5, <2>6, ProviderStep
<1>6. CASE ~Greets(c)
  <2>1. Hangup /\ toR' = toR
    BY <1>2, <1>6 DEF ReceiveHello
  <2>2. pOpen' \subseteq Ids /\ cur' = None /\ svc' = "poll"
    BY <1>0, <1>1, <2>1, HangupPlaces
  <2>3. TypeOK'
    BY <1>0, <1>1, <1>3, <2>1, <2>2 DEF TypeOK
  <2>4. \A d \in Ids : \/ toP'[d] = toP[d]
                       \/ d = cur /\ svc = "hello" /\ (Active(d) => toP'[d] = <<>>)
    <3> TAKE d \in Ids
    <3>1. CASE d = c
      BY <1>1, <1>2, <1>4, <3>1
    <3>2. CASE d # c
      BY <1>3, <3>2
    <3> QED BY <3>1, <3>2
  <2> QED BY <1>1, <2>1, <2>3, <2>4, HangupStep
<1> QED BY <1>5, <1>6

LEMMA ReceiveWantStep == ASSUME IInv, ReceiveWant PROVE IInv'
<1>0. TypeOK /\ Places /\ Talks /\ Foreign
  BY DEF IInv
<1>a. ver <= ver
  BY <1>0, BoundsAssumption DEF TypeOK
<1>1. /\ svc = "want" /\ toP[cur] # <<>> /\ toP' = [toP EXCEPT ![cur] = Tail(@)] /\ svc' = "accept"
      /\ ver' = ver /\ shutdown' = shutdown /\ faults' = faults
      /\ cur' = cur /\ acc' = acc /\ session' = session
      /\ events' = events /\ cm' = cm /\ joined' = joined
      /\ backlog' = backlog /\ toR' = toR /\ pOpen' = pOpen /\ rOpen' = rOpen
      /\ UNCHANGED readerVars
      /\ pc' = pc /\ att' = att /\ chan' = chan /\ slot' = slot /\ calls' = calls
      /\ need' = need /\ seen' = seen /\ last' = last
  BY DEF ReceiveWant, providerVars, cmVars, readerVars
<1>2. PICK c \in Ids : c = cur /\ c # None
  BY <1>0, <1>1 DEF TypeOK
<1>3. /\ toP' \in [Ids -> Seq(Messages)] /\ toP'[c] = Tail(toP[c])
      /\ \A d \in Ids : d # c => toP'[d] = toP[d]
  <2>1. Tail(toP[c]) \in Seq(Messages)
    BY <1>0, <1>1, <1>2 DEF TypeOK
  <2> QED BY <1>0, <1>1, <1>2, <2>1 DEF TypeOK
<1>4. Active(c) => pc[c[1]] \in Connecting /\ toP'[c] = <<>> /\ toR[c] = <<>>
  <2>1. Tail(<<WantGroup>>) = <<>>
    OBVIOUS
  <2> QED BY <1>0, <1>1, <1>2, <1>3, <2>1 DEF Talks, Talk
<1>5. TypeOK'
  BY <1>0, <1>1, <1>2, <1>3 DEF TypeOK
<1>6. Places'
  BY <1>0, <1>1 DEF Places, Queued
<1>7. Talks'
  <2> SUFFICES ASSUME NEW d \in Ids PROVE Talk(d)'
    BY DEF Talks
  <2>1. Talk(d) /\ d[1] \in Readers /\ att[d[1]] \in 0 .. MaxSessions /\ MaxSessions \in Nat
    BY <1>0, IdFacts, BoundsAssumption DEF Talks, TypeOK
  <2>2. (Active(d)' <=> Active(d)) /\ (Queued(d)' <=> Queued(d))
    BY <1>1 DEF Active, Open, Queued
  <2>3. CASE d # c
    <3>1. Quiet(d)
      BY <1>1, <1>2, <1>3, <2>1, <2>2, <2>3 DEF Quiet
    <3> QED BY <1>0, <1>a, <1>1, <1>5, <2>1, <3>1, TalkKept
  <2>4. CASE d = c
    <3>1. ~Queued(c) /\ c \notin session
      BY <1>0, <1>2 DEF Places
    <3> QED BY <1>1, <1>2, <1>4, <2>1, <2>2, <2>4, <3>1 DEF Talk, Connecting
  <2> QED BY <2>3, <2>4
<1>8. \A d \in Ids : d[1] \notin Matching => d # cur'
  BY <1>0, <1>1 DEF Foreign, ForeignSession
<1> QED BY <1>a, <1>1, <1>5, <1>6, <1>7, <1>8, ProviderStep

LEMMA HandshakeReceiveFailsStep == ASSUME IInv, HandshakeReceiveFails PROVE IInv'
<1>0. TypeOK /\ Places
  BY DEF IInv
<1>1. /\ svc \in {"hello", "want"} /\ Hangup
      /\ ver' = ver /\ shutdown' = shutdown /\ faults' = faults
      /\ acc' = acc /\ session' = session
      /\ events' = events /\ cm' = cm /\ joined' = joined
      /\ backlog' = backlog /\ toP' = toP /\ toR' = toR /\ rOpen' = rOpen
      /\ UNCHANGED readerVars
      /\ pc' = pc /\ att' = att /\ chan' = chan /\ slot' = slot /\ calls' = calls
      /\ need' = need /\ seen' = seen /\ last' = last
  BY DEF HandshakeReceiveFails, providerVars, cmVars, readerVars
<1>2. pOpen' \subseteq Ids /\ cur' = None /\ svc' = "poll"
  BY <1>0, <1>1, HangupPlaces
<1>3. TypeOK'
  BY <1>0, <1>1, <1>2 DEF TypeOK
<1> QED BY <1>1, <1>3, HangupStep

LEMMA ReplyFailsStep == ASSUME IInv, ReplyFails PROVE IInv'
<1>0. TypeOK /\ Places
  BY DEF IInv
<1>1. /\ svc = "reply" /\ Hangup
      /\ ver' = ver /\ shutdown' = shutdown /\ faults' = faults
      /\ acc' = acc /\ session' = session
      /\ events' = events /\ cm' = cm /\ joined' = joined
      /\ backlog' = backlog /\ toP' = toP /\ toR' = toR /\ rOpen' = rOpen
      /\ UNCHANGED readerVars
      /\ pc' = pc /\ att' = att /\ chan' = chan /\ slot' = slot /\ calls' = calls
      /\ need' = need /\ seen' = seen /\ last' = last
  BY DEF ReplyFails, providerVars, cmVars, readerVars
<1>2. pOpen' \subseteq Ids /\ cur' = None /\ svc' = "poll"
  BY <1>0, <1>1, HangupPlaces
<1>3. TypeOK'
  BY <1>0, <1>1, <1>2 DEF TypeOK
<1> QED BY <1>1, <1>3, HangupStep

(* The handshake goes on to its next stage.                                *)
LEMMA GoingOnStep ==
    ASSUME IInv, TypeOK', svc \in {"accept", "established"}, svc' \in {"established", "reply"},
           cur' = cur, pOpen' = pOpen, backlog' = backlog, session' = session,
           shutdown' = shutdown, ver' = ver, faults' = faults,
           UNCHANGED readerVars, rOpen' = rOpen,
           toR' = toR, toP' = toP
    PROVE  IInv'
<1>0. TypeOK /\ Places /\ Talks /\ Foreign
  BY DEF IInv
<1>a. ver <= ver
  BY <1>0, BoundsAssumption DEF TypeOK
<1>1. Places'
  BY <1>0 DEF Places, Queued
<1>2. pc' = pc /\ att' = att /\ chan' = chan /\ need' = need
  BY DEF readerVars
<1>3. Talks'
  <2> SUFFICES ASSUME NEW d \in Ids PROVE Talk(d)'
    BY DEF Talks
  <2>1. Talk(d) /\ d[1] \in Readers /\ att[d[1]] \in 0 .. MaxSessions /\ MaxSessions \in Nat
    BY <1>0, IdFacts, BoundsAssumption DEF Talks, TypeOK
  <2>2. (Active(d)' <=> Active(d)) /\ (Queued(d)' <=> Queued(d))
    BY <1>2 DEF Active, Open, Queued
  <2>3. Quiet(d)
    BY <1>2, <2>1, <2>2 DEF Quiet
  <2> QED BY <1>0, <1>a, <2>1, <2>3, TalkKept
<1>4. \A d \in Ids : d[1] \notin Matching => d # cur'
  BY <1>0 DEF Foreign, ForeignSession
<1> QED BY <1>a, <1>1, <1>3, <1>4, ProviderStep

LEMMA RdmaAcceptStep == ASSUME IInv, RdmaAccept PROVE IInv'
<1>0. TypeOK /\ Places
  BY DEF IInv
<1>1. /\ svc = "accept" /\ events # <<>> /\ events' = Tail(events)
      /\ ver' = ver /\ shutdown' = shutdown /\ faults' = faults
      /\ session' = session
      /\ joined' = joined
      /\ backlog' = backlog /\ toP' = toP /\ toR' = toR /\ rOpen' = rOpen
      /\ UNCHANGED readerVars
      /\ pc' = pc /\ att' = att /\ chan' = chan /\ slot' = slot /\ calls' = calls
      /\ need' = need /\ seen' = seen /\ last' = last
  BY DEF RdmaAccept, providerVars, readerVars
<1>2. /\ Tail(events) \in Seq(Events) /\ Head(events) \in Events /\ Head(events).id \in Ids
      /\ cur \in Ids /\ Head(events).id # None /\ cur # None /\ acc = None
  <2>1. Tail(events) \in Seq(Events) /\ Head(events) \in Events
    BY <1>0, <1>1 DEF TypeOK
  <2>2. Head(events).id \in Ids
    BY <2>1 DEF Events
  <2> QED BY <1>0, <1>1, <2>1, <2>2, IdFacts DEF TypeOK
<1>3. CASE Head(events).type = "request" /\ cm[Head(events).id] = "req"
  <2>1. /\ acc' = Head(events).id /\ cm' = [cm EXCEPT ![Head(events).id] = "accepted"]
        /\ svc' = "established" /\ cur' = cur /\ pOpen' = pOpen
    BY <1>3 DEF RdmaAccept
  <2>2. cm' \in [Ids -> {"none", "req", "accepted", "est", "gone", "dead"}]
    BY <1>0, <1>2, <2>1 DEF TypeOK
  <2>3. TypeOK'
    BY <1>0, <1>1, <1>2, <2>1, <2>2 DEF TypeOK
  <2> QED BY <1>1, <2>1, <2>3, GoingOnStep
<1>4. CASE ~(Head(events).type = "request" /\ cm[Head(events).id] = "req")
  <2>1. Hangup /\ acc' = acc /\ cm' = cm
    BY <1>4 DEF RdmaAccept
  <2>2. pOpen' \subseteq Ids /\ cur' = None /\ svc' = "poll"
    BY <1>0, <1>1, <2>1, HangupPlaces
  <2>3. TypeOK'
    BY <1>0, <1>1, <1>2, <2>1, <2>2 DEF TypeOK
  <2> QED BY <1>1, <2>1, <2>3, HangupStep
<1> QED BY <1>3, <1>4

LEMMA WaitEstablishedStep == ASSUME IInv, WaitEstablished PROVE IInv'
<1>0. TypeOK /\ Places
  BY DEF IInv
<1>1. /\ svc = "established" /\ events # <<>> /\ acc' = None
      /\ ver' = ver /\ shutdown' = shutdown /\ faults' = faults
      /\ session' = session
      /\ backlog' = backlog /\ toP' = toP /\ toR' = toR /\ rOpen' = rOpen
      /\ UNCHANGED readerVars
      /\ pc' = pc /\ att' = att /\ chan' = chan /\ slot' = slot /\ calls' = calls
      /\ need' = need /\ seen' = seen /\ last' = last
  BY DEF WaitEstablished, providerVars, readerVars
<1>2. Tail(events) \in Seq(Events) /\ cur \in Ids /\ acc \in Ids /\ cur # None /\ cur[1] \in Readers
  <2>1. cur \in Ids /\ acc \in Ids
    BY <1>0, <1>1 DEF TypeOK
  <2> QED BY <1>0, <1>1, <2>1, IdFacts DEF TypeOK
<1>3. CASE Head(events).type = "established"
  <2>1. /\ joined' = [joined EXCEPT ![acc] = GroupOf[cur[1]]] /\ events' = Tail(events)
        /\ svc' = "reply" /\ cm' = cm /\ cur' = cur /\ pOpen' = pOpen
    BY <1>3 DEF WaitEstablished
  <2>2. joined' \in [Ids -> GroupIds \cup {None}]
    <3>1. GroupOf[cur[1]] \in GroupIds
      BY <1>2 DEF GroupIds
    <3> QED BY <1>0, <1>2, <2>1, <3>1 DEF TypeOK
  <2>3. TypeOK'
    BY <1>0, <1>1, <1>2, <2>1, <2>2 DEF TypeOK
  <2> QED BY <1>1, <2>1, <2>3, GoingOnStep
<1>4. CASE Head(events).type # "established"
  <2>1. ProviderDrops(acc, Tail(events)) /\ Hangup /\ joined' = joined
    BY <1>4 DEF WaitEstablished
  <2>2. pOpen' \subseteq Ids /\ cur' = None /\ svc' = "poll"
    BY <1>0, <1>1, <2>1, HangupPlaces
  <2>3. /\ cm' \in [Ids -> {"none", "req", "accepted", "est", "gone", "dead"}]
        /\ events' \in Seq(Events)
    BY <1>0, <1>2, <2>1, DropsFacts
  <2>4. TypeOK'
    BY <1>0, <1>1, <2>1, <2>2, <2>3 DEF TypeOK
  <2> QED BY <1>1, <2>1, <2>4, HangupStep
<1> QED BY <1>3, <1>4

LEMMA ReplyStep == ASSUME IInv, Reply PROVE IInv'
<1>0. TypeOK /\ Places /\ Talks /\ Foreign /\ Progress
  BY DEF IInv
<1>a. ver <= ver /\ ver \in 0 .. ver /\ ver \in 0 .. MaxVer
  BY <1>0, BoundsAssumption DEF TypeOK
<1>1. /\ svc = "reply" /\ toR' = [toR EXCEPT ![cur] = Append(@, Exchange(ver))]
      /\ session' = session \cup {cur} /\ svc' = "poll" /\ cur' = None
      /\ ver' = ver /\ shutdown' = shutdown /\ faults' = faults
      /\ acc' = acc
      /\ events' = events /\ cm' = cm /\ joined' = joined
      /\ backlog' = backlog /\ toP' = toP /\ pOpen' = pOpen /\ rOpen' = rOpen
      /\ UNCHANGED readerVars
      /\ pc' = pc /\ att' = att /\ chan' = chan /\ slot' = slot /\ calls' = calls
      /\ need' = need /\ seen' = seen /\ last' = last
  BY DEF Reply, providerVars, cmVars, readerVars
<1>2. PICK c \in Ids : c = cur /\ c # None
  BY <1>0, <1>1 DEF TypeOK
<1>3. /\ toR' \in [Ids -> Seq(Messages)] /\ toR'[c] = Append(toR[c], Exchange(ver))
      /\ \A d \in Ids : d # c => toR'[d] = toR[d]
  <2>1. Append(toR[c], Exchange(ver)) \in Seq(Messages)
    BY <1>0, <1>a, MessageFacts DEF TypeOK
  <2> QED BY <1>0, <1>1, <1>2, <2>1 DEF TypeOK
<1>4. Active(c) => pc[c[1]] \in Connecting /\ toP[c] = <<>> /\ toR[c] = <<>>
  BY <1>0, <1>1, <1>2 DEF Talks, Talk
<1>5. TypeOK'
  BY <1>0, <1>1, <1>2, <1>3 DEF TypeOK
<1>6. Places'
  <2>1. \A d \in Ids : d # None /\ (Queued(d)' <=> Queued(d))
    BY <1>1, IdFacts DEF Queued
  <2>2. None \notin session'
    BY <1>5, <2>1 DEF TypeOK
  <2>3. \A d \in Ids : d \in pOpen' <=> Queued(d)' \/ d = cur' \/ d \in session'
    BY <1>0, <1>1, <2>1 DEF Places
  <2>4. \A d \in Ids : Queued(d)' => d # cur' /\ d \notin session'
    BY <1>0, <1>1, <2>1 DEF Places
  <2> QED BY <1>0, <1>1, <2>2, <2>3, <2>4 DEF Places
<1>7. Talks'
  <2> SUFFICES ASSUME NEW d \in Ids PROVE Talk(d)'
    BY DEF Talks
  <2>1. /\ Talk(d) /\ d[1] \in Readers /\ att[d[1]] \in 0 .. MaxSessions /\ MaxSessions \in Nat
        /\ d # None
    BY <1>0, IdFacts, BoundsAssumption DEF Talks, TypeOK
  <2>2. (Active(d)' <=> Active(d)) /\ (Queued(d)' <=> Queued(d))
    BY <1>1 DEF Active, Open, Queued
  <2>3. CASE d # c
    <3>1. Quiet(d)
      BY <1>1, <1>2, <1>3, <2>1, <2>2, <2>3 DEF Quiet
    <3> QED BY <1>0, <1>a, <1>1, <1>5, <2>1, <3>1, TalkKept
  <2>4. CASE d = c
    <3>1. ~Queued(c) /\ ~(c[2] > att[c[1]])
      BY <1>0, <1>2, <2>1, <2>4 DEF Places, Talk
    <3>2. ASSUME Active(c) PROVE Answered(c)'
      <4>1. Append(<<>>, Exchange(ver)) = <<Exchange(ver)>>
        OBVIOUS
      <4>2. toR'[c] = <<Exchange(ver)>>
        BY <1>3, <1>4, <3>2, <4>1
      <4>3. ver >= need[c[1]]
        <5>1. need[c[1]] <= ver
          BY <1>0, <2>1, <2>4 DEF Progress, ProgressOf
        <5>2. need[c[1]] \in Nat /\ ver \in Nat
          BY <1>0, <2>1, <2>4, BoundsAssumption DEF TypeOK
        <5> QED BY <5>1, <5>2
      <4> QED BY <1>a, <1>1, <4>2, <4>3 DEF Answered
    <3> QED BY <1>1, <1>4, <2>1, <2>2, <2>4, <3>1, <3>2 DEF Talk, Connecting
  <2> QED BY <2>3, <2>4
<1>8. \A d \in Ids : d[1] \notin Matching =>
          toR'[d] = toR[d] /\ (d \in session' => d \in session) /\ d # cur'
  <2>1. \A d \in Ids : d[1] \notin Matching => d # c
    BY <1>0, <1>1, <1>2 DEF Foreign, ForeignSession
  <2> QED BY <1>1, <1>2, <1>3, <2>1, IdFacts
<1> QED BY <1>a, <1>1, <1>5, <1>6, <1>7, <1>8, ProviderStep

LEMMA ServiceEndsStep == ASSUME IInv, ServiceEnds PROVE IInv'
<1>0. TypeOK /\ Places /\ Talks /\ Foreign
  BY DEF IInv
<1>a. ver <= ver
  BY <1>0, BoundsAssumption DEF TypeOK
<1>1. /\ svc = "poll" /\ shutdown /\ session = {} /\ svc' = "ended" /\ backlog' = <<>>
      /\ pOpen' = pOpen \ {backlog[i] : i \in DOMAIN backlog} /\ events' = <<>>
      /\ ver' = ver /\ shutdown' = shutdown /\ faults' = faults
      /\ cur' = cur /\ acc' = acc /\ session' = session
      /\ cm' = cm /\ joined' = joined
      /\ toP' = toP /\ toR' = toR /\ rOpen' = rOpen
      /\ UNCHANGED readerVars
      /\ pc' = pc /\ att' = att /\ chan' = chan /\ slot' = slot /\ calls' = calls
      /\ need' = need /\ seen' = seen /\ last' = last
  BY DEF ServiceEnds, SessionsJoined, providerVars, readerVars
<1>2. cur = None /\ backlog \in Seq(Ids)
  BY <1>0, <1>1 DEF TypeOK
<1>3. \A d \in Ids : ~Queued(d)' /\ d # cur' /\ d \notin session'
  BY <1>1, <1>2, IdFacts DEF Queued
<1>4. TypeOK'
  <2>1. <<>> \in Seq(Ids) /\ <<>> \in Seq(Events)
    OBVIOUS
  <2> QED BY <1>0, <1>1, <2>1 DEF TypeOK
<1>5. Places'
  <2>1. \A d \in Ids : d \notin pOpen'
    <3> TAKE d \in Ids
    <3>1. d \in pOpen => Queued(d)
      BY <1>0, <1>1, <1>2, IdFacts DEF Places
    <3>2. Queued(d) => \E i \in DOMAIN backlog : d = backlog[i]
      BY <1>2 DEF Queued
    <3> QED BY <1>1, <3>1, <3>2
  <2> QED BY <1>1, <1>2, <1>3, <2>1 DEF Places
<1>6. Talks'
  <2> SUFFICES ASSUME NEW d \in Ids PROVE Talk(d)'
    BY DEF Talks
  <2>1. Talk(d) /\ d[1] \in Readers /\ att[d[1]] \in 0 .. MaxSessions /\ MaxSessions \in Nat
    BY <1>0, IdFacts, BoundsAssumption DEF Talks, TypeOK
  <2>2. Active(d)' <=> Active(d)
    BY <1>1 DEF Active, Open
  <2>3. Quiet(d)
    BY <1>1, <1>3, <2>1, <2>2 DEF Quiet
  <2> QED BY <1>0, <1>a, <1>1, <1>4, <2>1, <2>3, TalkKept
<1> QED BY <1>a, <1>1, <1>3, <1>4, <1>5, <1>6, ProviderStep

-----------------------------------------------------------------------------
(* The session threads and the application.                                *)

LEMMA SessionEndsStep ==
    ASSUME IInv, NEW c \in Ids, SessionEnds(c) PROVE IInv'
<1>0. TypeOK /\ Places /\ Talks /\ Foreign
  BY DEF IInv
<1>a. ver <= ver
  BY <1>0, BoundsAssumption DEF TypeOK
<1>1. /\ c \in session /\ session' = session \ {c} /\ pOpen' = pOpen \ {c}
      /\ ver' = ver /\ shutdown' = shutdown /\ faults' = faults
      /\ svc' = svc /\ cur' = cur /\ acc' = acc
      /\ events' = events /\ cm' = cm /\ joined' = joined
      /\ backlog' = backlog /\ toP' = toP /\ toR' = toR /\ rOpen' = rOpen
      /\ UNCHANGED readerVars
      /\ pc' = pc /\ att' = att /\ chan' = chan /\ slot' = slot /\ calls' = calls
      /\ need' = need /\ seen' = seen /\ last' = last
  BY DEF SessionEnds, providerVars, cmVars, readerVars
<1>2. TypeOK'
  BY <1>0, <1>1 DEF TypeOK
<1>3. \A d \in Ids : Queued(d)' <=> Queued(d)
  BY <1>1 DEF Queued
<1>4. Places'
  BY <1>0, <1>1, <1>3 DEF Places
<1>5. Talks'
  <2> SUFFICES ASSUME NEW d \in Ids PROVE Talk(d)'
    BY DEF Talks
  <2>1. Talk(d) /\ d[1] \in Readers /\ att[d[1]] \in 0 .. MaxSessions /\ MaxSessions \in Nat
    BY <1>0, IdFacts, BoundsAssumption DEF Talks, TypeOK
  <2>2. Active(d)' <=> Active(d)
    BY <1>1 DEF Active, Open
  <2>3. Quiet(d)
    BY <1>1, <1>3, <2>1, <2>2 DEF Quiet
  <2> QED BY <1>0, <1>a, <1>1, <1>2, <2>1, <2>3, TalkKept
<1>6. \A d \in Ids : d[1] \notin Matching /\ d = cur => svc = "hello"
  BY <1>0 DEF Foreign, ForeignSession
<1> QED BY <1>a, <1>1, <1>2, <1>4, <1>5, <1>6, ProviderStep

LEMMA ServeUpdateStep ==
    ASSUME IInv, NEW c \in Ids, ServeUpdate(c) PROVE IInv'
<1>0. TypeOK /\ Places /\ Progress /\ Talks /\ Foreign
  BY DEF IInv
<1>a. ver <= ver /\ ver \in Nat /\ ver \in 0 .. MaxVer
  BY <1>0, BoundsAssumption DEF TypeOK
<1>1. /\ c \in session /\ toP[c] # <<>>
      /\ toP' = [toP EXCEPT ![c] = Tail(@)]
      /\ toR' = [toR EXCEPT ![c] = Append(@, Exchange(ver))]
      /\ session' = IF shutdown THEN session \ {c} ELSE session
      /\ pOpen' = IF shutdown THEN pOpen \ {c} ELSE pOpen
      /\ ver' = ver /\ shutdown' = shutdown /\ faults' = faults
      /\ svc' = svc /\ cur' = cur /\ acc' = acc
      /\ events' = events /\ cm' = cm /\ joined' = joined
      /\ backlog' = backlog /\ rOpen' = rOpen
      /\ UNCHANGED readerVars
      /\ pc' = pc /\ att' = att /\ chan' = chan /\ slot' = slot /\ calls' = calls
      /\ need' = need /\ seen' = seen /\ last' = last
  BY DEF ServeUpdate, providerVars, cmVars, readerVars
<1>2. /\ toP' \in [Ids -> Seq(Messages)] /\ toP'[c] = Tail(toP[c])
      /\ \A d \in Ids : d # c => toP'[d] = toP[d]
  <2>1. Tail(toP[c]) \in Seq(Messages)
    BY <1>0, <1>1 DEF TypeOK
  <2> QED BY <1>0, <1>1, <2>1 DEF TypeOK
<1>3. /\ toR' \in [Ids -> Seq(Messages)] /\ toR'[c] = Append(toR[c], Exchange(ver))
      /\ \A d \in Ids : d # c => toR'[d] = toR[d]
  <2>1. Append(toR[c], Exchange(ver)) \in Seq(Messages)
    BY <1>0, <1>a, MessageFacts DEF TypeOK
  <2> QED BY <1>0, <1>1, <2>1 DEF TypeOK
<1>4. session' \subseteq session /\ pOpen' \subseteq pOpen
      /\ (c \in session' <=> ~shutdown) /\ (shutdown => pOpen' = pOpen \ {c})
      /\ (shutdown => session' = session \ {c})
      /\ (~shutdown => session' = session /\ pOpen' = pOpen)
  BY <1>1
<1>5. TypeOK'
  <2>1. session' \subseteq Ids /\ pOpen' \subseteq Ids
    BY <1>0, <1>4 DEF TypeOK
  <2> QED BY <1>0, <1>1, <1>2, <1>3, <2>1 DEF TypeOK
<1>6. \A d \in Ids : Queued(d)' <=> Queued(d)
  BY <1>1 DEF Queued
<1>7. Places'
  <2>1. CASE shutdown
    BY <1>0, <1>1, <1>4, <1>6, <2>1 DEF Places
  <2>2. CASE ~shutdown
    BY <1>0, <1>1, <1>4, <1>6, <2>2 DEF Places
  <2> QED BY <2>1, <2>2
<1>8. ASSUME Active(c)
      PROVE  pc[c[1]] = "refresh" /\ toP'[c] = <<>> /\ toR'[c] = <<Exchange(ver)>>
  <2>1. c[1] \in Readers /\ Talk(c) /\ Open(c[1]) /\ ProgressOf(c[1])
    BY <1>0, <1>8, IdFacts DEF Talks, Active, Progress
  <2>2. pc[c[1]] = "refresh"
    BY <1>1, <1>8, <2>1 DEF Talk
  <2>3. toP[c] = <<Update>> /\ toR[c] = <<>>
    BY <1>1, <1>8, <2>1, <2>2 DEF Talk
  <2>4. Tail(<<Update>>) = <<>> /\ Append(<<>>, Exchange(ver)) = <<Exchange(ver)>>
    OBVIOUS
  <2> QED BY <1>2, <1>3, <2>2, <2>3, <2>4
<1>9. Talks'
  <2> SUFFICES ASSUME NEW d \in Ids PROVE Talk(d)'
    BY DEF Talks
  <2>1. Talk(d) /\ d[1] \in Readers /\ att[d[1]] \in 0 .. MaxSessions /\ MaxSessions \in Nat
    BY <1>0, IdFacts, BoundsAssumption DEF Talks, TypeOK
  <2>2. Active(d)' <=> Active(d)
    BY <1>1 DEF Active, Open
  <2>3. CASE d # c
    <3>1. Quiet(d)
      BY <1>1, <1>2, <1>3, <1>4, <1>6, <2>1, <2>2, <2>3 DEF Quiet
    <3> QED BY <1>0, <1>a, <1>1, <1>5, <2>1, <3>1, TalkKept
  <2>4. CASE d = c
    <3>1. ~Queued(c)' /\ c # cur'
      BY <1>0, <1>1, <1>6 DEF Places
    <3>2. ~(c[2] > att'[c[1]])
      BY <1>0, <1>1 DEF Talks, Talk
    <3>3. Active(c) => Answered(c)'
      <4>1. need[c[1]] <= ver
        BY <1>0, IdFacts DEF Progress, ProgressOf
      <4>2. need[c[1]] \in Nat
        BY <1>0, BoundsAssumption, IdFacts DEF TypeOK
      <4> QED BY <1>a, <1>1, <1>8, <4>1, <4>2 DEF Answered
    <3> QED BY <1>1, <1>8, <2>2, <2>4, <3>1, <3>2, <3>3 DEF Talk, Connecting
  <2> QED BY <2>3, <2>4
<1>10. \A d \in Ids : d[1] \notin Matching =>
          /\ toR'[d] = toR[d] /\ (d \in session' => d \in session)
          /\ d = cur' => svc' = "hello"
  BY <1>0, <1>1, <1>3 DEF Foreign, ForeignSession
<1> QED BY <1>a, <1>1, <1>5, <1>7, <1>9, <1>10, ProviderStep

(* Registering a region and dropping the provider touch no session.        *)
LEMMA ApplicationStep == ASSUME IInv, Register \/ Stop PROVE IInv'
<1>0. TypeOK /\ Places /\ Talks /\ Foreign
  BY DEF IInv
<1>1. /\ svc' = svc /\ cur' = cur /\ acc' = acc /\ session' = session
      /\ events' = events /\ cm' = cm /\ joined' = joined
      /\ backlog' = backlog /\ toP' = toP /\ toR' = toR /\ pOpen' = pOpen /\ rOpen' = rOpen
      /\ UNCHANGED readerVars
      /\ pc' = pc /\ att' = att /\ chan' = chan /\ slot' = slot /\ calls' = calls
      /\ need' = need /\ seen' = seen /\ last' = last
  BY DEF Register, Stop, serviceVars, tcpVars, cmVars, readerVars
<1>2. /\ ver' \in 0 .. MaxVer /\ ver <= ver' /\ shutdown' \in BOOLEAN /\ faults' = faults
      /\ shutdown => shutdown'
  <2>1. ver \in 0 .. MaxVer /\ MaxVer \in Nat /\ shutdown \in BOOLEAN
    BY <1>0, BoundsAssumption DEF TypeOK
  <2>2. CASE Register
    BY <2>1, <2>2 DEF Register
  <2>3. CASE Stop
    BY <2>1, <2>3 DEF Stop
  <2> QED BY <2>2, <2>3
<1>3. TypeOK'
  BY <1>0, <1>1, <1>2 DEF TypeOK
<1>4. \A d \in Ids : Queued(d)' <=> Queued(d)
  BY <1>1 DEF Queued
<1>5. Places'
  BY <1>0, <1>1, <1>2, <1>4 DEF Places
<1>6. Talks'
  <2> SUFFICES ASSUME NEW d \in Ids PROVE Talk(d)'
    BY DEF Talks
  <2>1. Talk(d) /\ d[1] \in Readers /\ att[d[1]] \in 0 .. MaxSessions /\ MaxSessions \in Nat
    BY <1>0, IdFacts, BoundsAssumption DEF Talks, TypeOK
  <2>2. Active(d)' <=> Active(d)
    BY <1>1 DEF Active, Open
  <2>3. Quiet(d)
    BY <1>1, <1>4, <2>1, <2>2 DEF Quiet
  <2> QED BY <1>0, <1>2, <1>3, <2>1, <2>3, TalkKept
<1>7. \A d \in Ids : d[1] \notin Matching /\ d = cur => svc = "hello"
  BY <1>0 DEF Foreign, ForeignSession
<1> QED BY <1>1, <1>2, <1>3, <1>5, <1>6, <1>7, ProviderStep

LEMMA StutterStep == ASSUME IInv, UNCHANGED vars PROVE IInv'
<1>1. /\ ver' = ver /\ shutdown' = shutdown /\ faults' = faults
      /\ svc' = svc /\ cur' = cur /\ acc' = acc /\ session' = session
      /\ events' = events /\ cm' = cm /\ joined' = joined
      /\ backlog' = backlog /\ toP' = toP /\ toR' = toR /\ pOpen' = pOpen /\ rOpen' = rOpen
      /\ pc' = pc /\ att' = att /\ chan' = chan /\ slot' = slot /\ calls' = calls
      /\ need' = need /\ seen' = seen /\ last' = last
  BY DEF vars, providerVars, serviceVars, tcpVars, cmVars, readerVars
<1>2. TypeOK' /\ Places'
  BY <1>1 DEF IInv, TypeOK, Places, Queued
<1>3. Progress' /\ Foreign' /\ \A r \in Readers : FreshOf(r)'
  BY <1>1 DEF IInv, Progress, ProgressOf, Foreign, ForeignReader, ForeignSession, FreshOf,
              Open, Conn
<1>4. Talks'
  BY <1>1 DEF IInv, Talks, Talk, Active, Open, Queued, Answered
<1> QED BY <1>2, <1>3, <1>4 DEF IInv

-----------------------------------------------------------------------------
(* The invariant.                                                          *)

LEMMA InitInv == Init => IInv
<1> SUFFICES ASSUME Init PROVE IInv
  OBVIOUS
<1>0. /\ MaxSessions \in Nat /\ MaxVer \in Nat
      /\ faults \in FaultSets /\ MaxUpdates[faults] \in [Readers -> Nat]
  BY BoundsAssumption DEF Init
<1>1. TypeOK
  <2>a. ver \in 0 .. MaxVer
    BY <1>0 DEF Init
  <2>b. shutdown \in BOOLEAN
    BY Zenon DEF Init
  <2>1. /\ svc \in {"poll", "hello", "want", "accept", "established", "reply", "ended"}
        /\ cur \in Ids \cup {None} /\ acc \in Ids \cup {None}
        /\ svc \in {"poll", "ended"} <=> cur = None
        /\ svc = "established" <=> acc # None
    BY DEF Init
  <2>2. /\ backlog \in Seq(Ids) /\ events \in Seq(Events)
        /\ cm \in [Ids -> {"none", "req", "accepted", "est", "gone", "dead"}]
        /\ joined \in [Ids -> GroupIds \cup {None}]
        /\ session \subseteq Ids /\ pOpen \subseteq Ids /\ rOpen \subseteq Ids
        /\ toP \in [Ids -> Seq(Messages)] /\ toR \in [Ids -> Seq(Messages)]
    BY DEF Init
  <2>3. /\ pc \in [Readers -> {"idle", "greet", "resolve", "connect", "exchange",
                               "refresh", "gone"}]
        /\ att \in [Readers -> 0 .. MaxSessions] /\ chan \in [Readers -> BOOLEAN]
        /\ slot \in [Readers -> Ids \cup {None}]
        /\ last \in [Readers -> {"none", "ok", "err"}]
    BY <1>0 DEF Init
  <2>4. /\ calls \in [Readers -> Nat] /\ \A r \in Readers : calls[r] <= MaxUpdates[faults][r]
        /\ need \in [Readers -> 0 .. MaxVer] /\ seen \in [Readers -> 0 .. MaxVer]
    BY <1>0 DEF Init
  <2> QED BY <1>0, <2>a, <2>b, <2>1, <2>2, <2>3, <2>4 DEF TypeOK
<1>2. Places
  BY IdFacts DEF Init, Places, Queued
<1>3. Progress
  BY <1>0 DEF Init, Progress, ProgressOf, Open
<1>4. ASSUME NEW c \in Ids PROVE Talk(c)
  <2>1. c[1] \in Readers /\ c # None
    BY IdFacts
  <2>2. ~Active(c) /\ ~Queued(c) /\ c # cur /\ c \notin session /\ toR[c] = <<>>
    BY <2>1 DEF Init, Active, Open, Queued
  <2> QED BY <2>2 DEF Talk
<1>5. Foreign
  BY IdFacts DEF Init, Foreign, ForeignReader, ForeignSession
<1>6. \A r \in Readers : FreshOf(r)
  BY DEF Init, FreshOf
<1> QED BY <1>1, <1>2, <1>3, <1>4, <1>5, <1>6 DEF IInv, Talks

(* Every step keeps the invariant.                                         *)
LEMMA NextInv == IInv /\ [Next]_vars => IInv'
<1> SUFFICES ASSUME IInv, [Next]_vars PROVE IInv'
  OBVIOUS
<1>1. ASSUME NEW r \in Readers, Reader(r) PROVE IInv'
  BY <1>1, StartRefreshStep, StartFreshStep, ConnectRefusedStep, ReceiveWelcomeStep,
     RdmaConnectStep, EstablishedStep, ReceiveExchangeStep, ReceiveFailsStep,
     ConnectFailsStep, LeaveStep DEF Reader
<1>2. CASE Service
  BY <1>2, AcceptTcpStep, ReceiveHelloStep, ReceiveWantStep, HandshakeReceiveFailsStep,
     RdmaAcceptStep, WaitEstablishedStep, ReplyStep, ReplyFailsStep, ServiceEndsStep
     DEF Service
<1>3. ASSUME NEW c \in Ids, SessionThread(c) PROVE IInv'
  BY <1>3, ServeUpdateStep, SessionEndsStep DEF SessionThread
<1>4. CASE Register \/ Stop
  BY <1>4, ApplicationStep
<1>5. CASE UNCHANGED vars
  BY <1>5, StutterStep
<1> QED BY <1>1, <1>2, <1>3, <1>4, <1>5 DEF Next

LEMMA Invariance == Spec => []IInv
BY InitInv, NextInv, PTL DEF Spec

(* Every variable keeps its type, for every number of readers, sessions    *)
(* and faults: in particular the service thread has a handshake's session  *)
(* exactly while it is in one.                                             *)
THEOREM TypesCorrect == Spec => []TypeOK
<1>1. IInv => TypeOK
  BY DEF IInv
<1> QED BY <1>1, Invariance, PTL

(* RemoteMemoryProvider::update never takes an exchange left over from an  *)
(* abandoned update for its answer: an Ok result covers every region       *)
(* registered before the call, whatever fails.                             *)
THEOREM UpdatesAreFresh == Spec => []Fresh
<1>1. IInv => Fresh
  BY DEF IInv, FreshOf, Fresh
<1> QED BY <1>1, Invariance, PTL

(* When Service::run has returned, every TCP connection is closed and no   *)
(* session thread is left, in whatever order readers and the drop came.    *)
THEOREM EndsClosed == Spec => []AllClosed
<1>1. IInv => AllClosed
  <2> SUFFICES ASSUME IInv, svc = "ended" PROVE session = {} /\ pOpen = {}
    BY DEF AllClosed
  <2>1. session = {} /\ backlog = <<>> /\ cur = None /\ pOpen \subseteq Ids
    BY DEF IInv, Places, TypeOK
  <2>2. ASSUME NEW c \in Ids PROVE c \notin pOpen
    <3>1. ~Queued(c) /\ c # cur
      BY <2>1, IdFacts DEF Queued
    <3> QED BY <2>1, <3>1 DEF IInv, Places
  <2> QED BY <2>1, <2>2
<1> QED BY <1>1, Invariance, PTL

(* The handshake lets no reader of another PROTOCOL_VERSION through: it    *)
(* gets neither an RDMA connection nor a successful update.                *)
THEOREM OtherVersionsRefused == Spec => []VersionsKeptApart
<1>1. IInv => VersionsKeptApart
  BY DEF IInv, Foreign, ForeignReader, VersionsKeptApart
<1> QED BY <1>1, Invariance, PTL

-----------------------------------------------------------------------------
(* Session threads: who is served.                                         *)

(* A reader's step takes no session away, and makes it a reader that is    *)
(* being served only where it was one before.                              *)
LEMMA ServingBefore ==
    ASSUME IInv, NEW r \in Readers, Reader(r)
    PROVE  /\ session' = session /\ shutdown' = shutdown /\ faults' = faults
           /\ Serving(r)' => Serving(r) /\ Conn(r)' = Conn(r)
           /\ \A q \in Readers \ {r} :
                  (Serving(q)' => Serving(q)) /\ Conn(q)' = Conn(q)
<1>0. TypeOK /\ Talks /\ Progress
  BY DEF IInv
<1>1. /\ pc \in [Readers -> {"idle", "greet", "resolve", "connect", "exchange", "refresh", "gone"}]
      /\ chan \in [Readers -> BOOLEAN] /\ toR \in [Ids -> Seq(Messages)]
      /\ att \in [Readers -> 0 .. MaxSessions]
  BY <1>0 DEF TypeOK
<1>2. /\ Conn(r)[1] = r /\ Conn(r)[2] = att[r] /\ (att[r] > 0 => Conn(r) \in Ids)
      /\ \A q \in Readers \ {r} : Conn(q) # Conn(r)
  BY <1>0, ConnFacts DEF Conn
<1>3. Open(r) => Conn(r) \in Ids /\ Talk(Conn(r)) /\ Active(Conn(r))
  BY <1>0, <1>2 DEF Progress, ProgressOf, Talks, Active
<1>4. chan[r] => pc[r] \in {"idle", "refresh"}
  BY <1>0 DEF Progress, ProgressOf
<1>a. pc[r] = "refresh" => chan[r]
  BY <1>0 DEF Progress, ProgressOf
<1>5. session' = session /\ shutdown' = shutdown /\ faults' = faults
  BY DEF Reader, StartRefresh, StartFresh, ConnectRefused, ReceiveWelcome, RdmaConnect,
         Established, ReceiveExchange, ReceiveFails, ConnectFails, Leave,
         serviceVars, providerVars
<1>6. CASE StartRefresh(r)
  <2>1. /\ pc' = [pc EXCEPT ![r] = "refresh"] /\ toR' = toR /\ chan' = chan /\ att' = att
        /\ chan[r]
    BY <1>6 DEF StartRefresh
  <2> QED BY <1>1, <1>5, <2>1 DEF Serving, Conn
<1>7. CASE StartFresh(r)
  <2>1. /\ pc' = [pc EXCEPT ![r] = "greet"] /\ toR' = toR /\ chan' = chan
        /\ att' = [att EXCEPT ![r] = @ + 1] /\ ~chan[r]
    BY <1>7 DEF StartFresh
  <2>2. ~Serving(r)'
    BY <1>1, <2>1 DEF Serving, Connecting
  <2>3. \A q \in Readers \ {r} : Conn(q)' = Conn(q) /\ pc'[q] = pc[q]
    BY <1>1, <2>1 DEF Conn
  <2> QED BY <1>5, <2>1, <2>2, <2>3 DEF Serving
<1>8. CASE ConnectRefused(r)
  <2>1. /\ pc' = [pc EXCEPT ![r] = "idle"] /\ toR' = toR /\ chan' = chan /\ att' = att
    BY <1>8 DEF ConnectRefused, Return, tcpVars
  <2> QED BY <1>1, <1>5, <2>1 DEF Serving, Conn, Connecting
<1>9. CASE ReceiveWelcome(r)
  <2>1. /\ pc[r] = "greet" /\ toR' = [toR EXCEPT ![Conn(r)] = Tail(@)]
        /\ toR[Conn(r)] # <<>>
        /\ pc' = [pc EXCEPT ![r] = "resolve"] /\ chan' = chan /\ att' = att
    BY <1>9 DEF ReceiveWelcome
  <2>2. Conn(r) \in Ids /\ toR[Conn(r)] = <<Welcome>>
    BY <1>2, <1>3, <2>1 DEF Open, Talk
  <2>3. toR'[Conn(r)] = <<>>
    BY <1>1, <2>1, <2>2
  <2>4. Conn(r)' = Conn(r) /\ ~chan[r]
    BY <1>4, <2>1 DEF Conn
  <2>5. ~Serving(r)'
    BY <2>1, <2>3, <2>4 DEF Serving
  <2>6. \A q \in Readers \ {r} : Conn(q)' = Conn(q) /\ pc'[q] = pc[q]
    BY <1>1, <2>1 DEF Conn
  <2>7. ASSUME NEW q \in Readers \ {r}, pc[q] \in Connecting
        PROVE  toR'[Conn(q)] = toR[Conn(q)]
    <3>1. Conn(q) \in Ids
      BY <1>0, <2>7, ConnFacts DEF Progress, ProgressOf, Open, Connecting
    <3> QED BY <1>1, <1>2, <2>1, <3>1
  <2> QED BY <1>5, <2>1, <2>5, <2>6, <2>7 DEF Serving
<1>10. CASE RdmaConnect(r) \/ Established(r)
  <2>1. /\ pc[r] \in Connecting /\ toR' = toR /\ chan' = chan /\ att' = att
        /\ \E p \in Connecting : pc' = [pc EXCEPT ![r] = p]
    BY <1>10 DEF RdmaConnect, Established, MayConnect, Connecting, tcpVars
  <2> QED BY <1>1, <1>5, <2>1 DEF Serving, Conn
<1>11. CASE ReceiveExchange(r)
  <2>1. /\ pc[r] \in {"exchange", "refresh"} /\ toR[Conn(r)] # <<>>
        /\ toR' = [toR EXCEPT ![Conn(r)] = Tail(@)]
        /\ pc' = [pc EXCEPT ![r] = "idle"] /\ chan' = [chan EXCEPT ![r] = TRUE]
        /\ att' = att
    BY <1>11 DEF ReceiveExchange, Return
  <2>2. Serving(r)
    BY <1>a, <2>1 DEF Serving, Connecting
  <2>3. \A q \in Readers : Conn(q)' = Conn(q)
    BY <2>1 DEF Conn
  <2>4. ASSUME NEW q \in Readers \ {r}, pc[q] \in Connecting
        PROVE  toR'[Conn(q)] = toR[Conn(q)]
    <3>1. Conn(q) \in Ids
      BY <1>0, <2>4, ConnFacts DEF Progress, ProgressOf, Open, Connecting
    <3> QED BY <1>1, <1>2, <2>1, <3>1
  <2>5. \A q \in Readers \ {r} : pc'[q] = pc[q] /\ chan'[q] = chan[q]
    BY <1>1, <2>1
  <2> QED BY <1>5, <2>2, <2>3, <2>4, <2>5 DEF Serving
<1>12. CASE ReceiveFails(r) \/ ConnectFails(r) \/ Leave(r)
  <2>1. /\ \E p \in {"idle", "gone"} : pc' = [pc EXCEPT ![r] = p]
        /\ toR' = toR /\ att' = att
        /\ chan' = [chan EXCEPT ![r] = FALSE] \/ chan' = chan
    BY <1>12 DEF ReceiveFails, ConnectFails, Leave, Return, DropChannel
  <2>2. \A q \in Readers \ {r} : pc'[q] = pc[q] /\ chan'[q] = chan[q]
    BY <1>1, <2>1
  <2>3. pc'[r] \notin Connecting /\ (chan'[r] => chan[r])
    BY <1>1, <2>1 DEF Connecting
  <2>4. \A q \in Readers : Conn(q)' = Conn(q)
    BY <2>1 DEF Conn
  <2> QED BY <1>5, <2>1, <2>2, <2>3, <2>4 DEF Serving
<1> QED BY <1>6, <1>7, <1>8, <1>9, <1>10, <1>11, <1>12 DEF Reader

(* The service thread only adds sessions, and answers a reader with an     *)
(* exchange only when it hands the session to its thread.                  *)
LEMMA ServedByService == ASSUME IInv, Served, Service PROVE Served'
<1> SUFFICES ASSUME "idle" \notin faults', ~shutdown', NEW r \in Readers, Serving(r)'
             PROVE  Conn(r)' \in session'
  BY DEF Served
<1>0. TypeOK /\ Talks /\ Progress
  BY DEF IInv
<1>1. /\ shutdown' = shutdown /\ faults' = faults
      /\ pc' = pc /\ att' = att /\ chan' = chan
      /\ session \subseteq session' /\ Conn(r)' = Conn(r)
  BY DEF Service, AcceptTcp, ReceiveHello, ReceiveWant, HandshakeReceiveFails, RdmaAccept,
         WaitEstablished, Reply, ReplyFails, ServiceEnds, providerVars, readerVars, Conn
<1>2. CASE toR' = toR
  BY <1>1, <1>2 DEF Served, Serving
<1>3. CASE Reply
  <2>1. PICK c \in Ids : /\ c = cur /\ toR' = [toR EXCEPT ![c] = Append(@, Exchange(ver))]
                         /\ session' = session \cup {c}
    BY <1>0, <1>3 DEF Reply, TypeOK
  <2>2. CASE c = Conn(r)
    BY <1>1, <2>1, <2>2
  <2>3. CASE c # Conn(r)
    <3>1. pc[r] \in Connecting => Conn(r) \in Ids
      BY <1>0, ConnFacts DEF Progress, ProgressOf, Open, Connecting
    <3>2. pc[r] \in Connecting => toR'[Conn(r)] = toR[Conn(r)]
      BY <1>0, <2>1, <2>3, <3>1 DEF TypeOK
    <3> QED BY <1>1, <2>1, <3>2 DEF Served, Serving
  <2> QED BY <2>2, <2>3
<1>4. CASE ReceiveHello /\ Greets(cur)
  <2>1. PICK c \in Ids : c = cur /\ svc = "hello" /\ toR' = [toR EXCEPT ![c] = Append(@, Welcome)]
    BY <1>0, <1>4 DEF ReceiveHello, TypeOK
  <2>2. CASE c = Conn(r)
    <3>1. pc[r] \notin Connecting
      BY <1>0, <2>1, <2>2, ConnFacts DEF Talks, Talk, Active, Open, Connecting
    <3> QED BY <1>1, <3>1 DEF Served, Serving
  <2>3. CASE c # Conn(r)
    <3>1. pc[r] \in Connecting => Conn(r) \in Ids
      BY <1>0, ConnFacts DEF Progress, ProgressOf, Open, Connecting
    <3>2. pc[r] \in Connecting => toR'[Conn(r)] = toR[Conn(r)]
      BY <1>0, <2>1, <2>3, <3>1 DEF TypeOK
    <3> QED BY <1>1, <2>1, <3>2 DEF Served, Serving
  <2> QED BY <2>2, <2>3
<1>5. ~Reply /\ ~(ReceiveHello /\ Greets(cur)) => toR' = toR
  BY DEF Service, AcceptTcp, ReceiveHello, ReceiveWant, HandshakeReceiveFails, RdmaAccept,
         WaitEstablished, ReplyFails, ServiceEnds
<1> QED BY <1>2, <1>3, <1>4, <1>5

(* A session thread answers, or ends because its reader has hung up.       *)
LEMMA ServedBySession ==
    ASSUME IInv, Served, NEW c \in Ids, SessionThread(c) PROVE Served'
<1> SUFFICES ASSUME "idle" \notin faults', ~shutdown', NEW r \in Readers, Serving(r)'
             PROVE  Conn(r)' \in session'
  BY DEF Served
<1>0. TypeOK /\ Progress
  BY DEF IInv
<1>1. /\ shutdown' = shutdown /\ faults' = faults
      /\ pc' = pc /\ att' = att /\ chan' = chan
      /\ Conn(r)' = Conn(r) /\ c \in session
  BY DEF SessionThread, ServeUpdate, SessionEnds, providerVars, readerVars, Conn
<1>2. CASE ServeUpdate(c)
  <2>1. toR' = [toR EXCEPT ![c] = Append(@, Exchange(ver))] /\ session' = session
    BY <1>1, <1>2 DEF ServeUpdate
  <2>2. CASE c = Conn(r)
    BY <1>1, <2>1, <2>2
  <2>3. CASE c # Conn(r)
    <3>1. pc[r] \in Connecting => Conn(r) \in Ids
      BY <1>0, ConnFacts DEF Progress, ProgressOf, Open, Connecting
    <3>2. pc[r] \in Connecting => toR'[Conn(r)] = toR[Conn(r)]
      BY <1>0, <2>1, <2>3, <3>1 DEF TypeOK
    <3> QED BY <1>1, <2>1, <3>2 DEF Served, Serving
  <2> QED BY <2>2, <2>3
<1>3. CASE SessionEnds(c)
  <2>1. toR' = toR /\ session' = session \ {c} /\ c \notin rOpen
    BY <1>1, <1>3 DEF SessionEnds, Over
  <2>2. Serving(r)
    BY <1>1, <2>1 DEF Serving
  <2>3. Conn(r) \in rOpen /\ Conn(r) \in session
    BY <1>0, <1>1, <2>2 DEF Served, Serving, Progress, ProgressOf, Open, Connecting
  <2> QED BY <1>1, <2>1, <2>3
<1> QED BY <1>2, <1>3 DEF SessionThread

LEMMA ServedNext == IInv /\ Served /\ [Next]_vars => Served'
<1> SUFFICES ASSUME IInv, Served, [Next]_vars PROVE Served'
  OBVIOUS
<1>1. ASSUME NEW r \in Readers, Reader(r) PROVE Served'
  <2>1. /\ session' = session /\ shutdown' = shutdown /\ faults' = faults
        /\ \A q \in Readers : Serving(q)' => Serving(q) /\ Conn(q)' = Conn(q)
    BY <1>1, ServingBefore
  <2> QED BY <2>1 DEF Served
<1>2. CASE Register \/ Stop
  BY <1>2 DEF Register, Stop, Served, Serving, Conn, serviceVars, tcpVars, readerVars
<1>3. CASE UNCHANGED vars
  BY <1>3 DEF vars, Served, Serving, Conn, providerVars, serviceVars, tcpVars, readerVars
<1> QED BY <1>1, <1>2, <1>3, ServedByService, ServedBySession DEF Next

(* wait_for_updates ends only when the reader hangs up or the provider is  *)
(* dropped, as long as no reader is silent for IO_TIMEOUT: a reader that   *)
(* keeps its channel has a session thread at the other end, whatever else  *)
(* fails.                                                                  *)
THEOREM SessionsServed == Spec => []SessionStaysOpen
<1>1. Init => Served
  BY DEF Init, Served, Serving, Connecting
<1>2. Served => SessionStaysOpen
  BY DEF Served, Serving, SessionStaysOpen
<1> QED BY <1>1, <1>2, ServedNext, Invariance, PTL DEF Spec

-----------------------------------------------------------------------------
(* Without failures: one handshake at a time, and its reader waits for it. *)

LEMMA CurFacts ==
    ASSUME IInv, Calm, cur # None
    PROVE  /\ cur \in Ids /\ cur[1] \in Readers /\ cur = Conn(cur[1])
           /\ Active(cur) /\ Open(cur[1])
           /\ cur \in rOpen /\ cur \in pOpen /\ ~Queued(cur) /\ cur \notin session
           /\ pc[cur[1]] = "greet" \/ (pc[cur[1]] \in Connecting /\ toR[cur] = <<>>)
           /\ svc = "hello" => pc[cur[1]] = "greet" /\ toR[cur] = <<>>
           /\ svc \notin {"hello", "want"} => pc[cur[1]] \in Connecting
           /\ svc = "want" => pc[cur[1]] = "greet" \/ toP[cur] # <<>>
           /\ svc = "want" /\ toP[cur] # <<>> => pc[cur[1]] \in Connecting
<1>0. TypeOK /\ Places /\ Progress /\ Talks /\ Alone
  BY DEF IInv, Calm
<1>1. PICK c \in Ids : c = cur
  BY <1>0 DEF TypeOK
<1>2. c[1] \in Readers /\ Active(c) /\ c = Conn(c[1]) /\ Open(c[1])
  BY <1>0, <1>1, IdFacts DEF Alone, Active, Conn
<1>3. c \in rOpen /\ c \in pOpen /\ ~Queued(c) /\ c \notin session
  BY <1>0, <1>1, <1>2 DEF Progress, ProgressOf, Places
<1>4. svc \in {"hello", "want", "accept", "established", "reply"}
  BY <1>0 DEF TypeOK
<1>5. Talk(c)
  BY <1>0 DEF Talks
<1>6. /\ pc[c[1]] = "greet" \/ (pc[c[1]] \in Connecting /\ toR[c] = <<>>)
      /\ svc = "hello" => pc[c[1]] = "greet" /\ toR[c] = <<>>
      /\ svc \notin {"hello", "want"} => pc[c[1]] \in Connecting
  BY <1>1, <1>2, <1>4, <1>5 DEF Talk
<1>7. /\ svc = "want" => pc[c[1]] = "greet" \/ toP[c] # <<>>
      /\ svc = "want" /\ toP[c] # <<>> => pc[c[1]] \in Connecting
  <2>1. <<WantGroup>> # <<>>
    OBVIOUS
  <2> QED BY <1>1, <1>2, <1>5, <2>1 DEF Talk
<1> QED BY <1>1, <1>2, <1>3, <1>6, <1>7

(* A reader that is between updates, refreshes, has its answer or finds    *)
(* its connection closed is not the one whose handshake is running.        *)
LEMMA Aside ==
    ASSUME IInv, Calm, NEW r \in Readers,
           \/ pc[r] \in {"idle", "refresh"} \/ Conn(r) \notin pOpen
           \/ pc[r] = "exchange" /\ toR[Conn(r)] # <<>>
    PROVE  cur # None => cur[1] # r
BY CurFacts DEF Connecting

LEMMA AloneKept ==
    ASSUME TypeOK, Alone, NEW r \in Readers, Others(r), cur # None => cur[1] # r,
           svc' = svc, cur' = cur, acc' = acc, events' = events, cm' = cm
    PROVE  Alone'
<1>1. CASE cur = None
  BY <1>1 DEF Alone, TypeOK
<1>2. CASE cur # None
  <2>1. cur[1] \in Readers \ {r}
    BY <1>2, IdFacts DEF TypeOK
  <2>2. /\ pc'[cur[1]] = pc[cur[1]] /\ slot'[cur[1]] = slot[cur[1]]
        /\ Active(cur)' <=> Active(cur)
    BY <2>1 DEF Others, Active, Open
  <2> QED BY <1>2, <2>2 DEF Alone
<1> QED BY <1>1, <1>2

(* A step of reader r.                                                     *)
LEMMA CalmReader ==
    ASSUME IInv, Calm, NEW r \in Readers, Others(r), Alone', Waits(r)',
           cur' = cur, shutdown' = shutdown, joined' = joined,
           \A c \in Ids : c[1] # r => toR'[c] = toR[c] /\ (Queued(c)' <=> Queued(c)),
           \A c \in Ids : c[1] = r /\ Queued(c)' => Active(c)',
           ~shutdown /\ r \in Matching => last'[r] # "err"
    PROVE  Calm'
<1>0. TypeOK /\ Progress
  BY DEF IInv
<1>1. ASSUME NEW q \in Readers PROVE Waits(q)'
  <2>1. CASE q = r
    BY <2>1
  <2>2. CASE q # r
    <3>1. Waits(q)
      BY DEF Calm
    <3>2. /\ pc'[q] = pc[q] /\ slot'[q] = slot[q] /\ chan'[q] = chan[q]
          /\ Conn(q)' = Conn(q)
      BY <2>2 DEF Others, Conn
    <3>3. ASSUME pc[q] \notin {"idle", "gone"}
          PROVE  toR'[Conn(q)] = toR[Conn(q)] /\ (Queued(Conn(q))' <=> Queued(Conn(q)))
      <4>1. PICK c \in Ids : c = Conn(q) /\ c[1] = q
        BY <1>0, <3>3, ConnFacts DEF Progress, ProgressOf, Open
      <4>2. toR'[c] = toR[c] /\ (Queued(c)' <=> Queued(c))
        BY <2>2, <4>1
      <4>3. Queued(Conn(q))' <=> Queued(c)'
        BY <3>2, <4>1 DEF Queued
      <4> QED BY <4>1, <4>2, <4>3
    <3>4. InHandshake(q)' => InHandshake(q)
      BY <3>2, <3>3 DEF InHandshake
    <3> QED BY <3>1, <3>2, <3>3, <3>4 DEF Waits
  <2> QED BY <2>1, <2>2
<1>2. ASSUME NEW c \in Ids, Queued(c)' PROVE Active(c)'
  <2>1. CASE c[1] = r
    BY <1>2, <2>1
  <2>2. CASE c[1] # r
    <3>1. Queued(c) /\ Active(c) /\ c[1] \in Readers
      BY <1>2, <2>2, IdFacts DEF Calm
    <3> QED BY <2>2, <3>1 DEF Active, Open, Others
  <2> QED BY <2>1, <2>2
<1>3. OwnGroup'
  BY DEF Calm, OwnGroup
<1>4. NoErrors'
  BY ReadersAssumption DEF Calm, NoErrors, Others
<1> QED BY <1>1, <1>2, <1>3, <1>4 DEF Calm

(* A step of the provider.                                                 *)
LEMMA CalmProvider ==
    ASSUME Calm, UNCHANGED readerVars, shutdown => shutdown', Alone', OwnGroup',
           \A r \in Readers : Waits(r)',
           \A c \in Ids : Queued(c)' => Queued(c)
    PROVE  Calm'
<1>1. pc' = pc /\ att' = att /\ chan' = chan /\ last' = last
  BY DEF readerVars
<1>2. NoErrors'
  BY <1>1 DEF Calm, NoErrors
<1>3. \A c \in Ids : Queued(c)' => Active(c)'
  BY <1>1 DEF Calm, Active, Open
<1> QED BY <1>2, <1>3 DEF Calm

LEMMA WaitsKept ==
    ASSUME Calm, UNCHANGED readerVars, shutdown => shutdown', cur' = cur, toR' = toR,
           backlog' = backlog
    PROVE  \A r \in Readers : Waits(r)'
<1>1. pc' = pc /\ att' = att /\ chan' = chan /\ slot' = slot
  BY DEF readerVars
<1> QED BY <1>1 DEF Calm, Waits, InHandshake, Conn, Queued

-----------------------------------------------------------------------------
(* The readers' steps.                                                     *)

LEMMA CalmCalls ==
    ASSUME IInv, Calm, NEW r \in Readers, StartRefresh(r) \/ ConnectRefused(r)
    PROVE  Calm'
<1>0. TypeOK /\ Places /\ Progress /\ Waits(r)
  BY DEF IInv, Calm
<1>1. /\ svc' = svc /\ cur' = cur /\ acc' = acc /\ events' = events /\ cm' = cm
      /\ shutdown' = shutdown /\ joined' = joined /\ backlog' = backlog /\ toR' = toR
      /\ rOpen' = rOpen /\ att' = att /\ chan' = chan /\ slot' = slot /\ seen' = seen
      /\ pc[r] = "idle" /\ need' = [need EXCEPT ![r] = ver]
  BY DEF StartRefresh, ConnectRefused, Call, providerVars, serviceVars, cmVars, tcpVars
<1>2. \/ pc' = [pc EXCEPT ![r] = "refresh"] /\ last' = last /\ chan[r]
      \/ /\ pc' = [pc EXCEPT ![r] = "idle"] /\ last' = [last EXCEPT ![r] = "err"]
         /\ shutdown
  BY <1>0 DEF StartRefresh, ConnectRefused, Return, Places
<1>3. /\ pc'[r] \in {"idle", "refresh"} /\ (pc'[r] = "refresh" => chan[r])
      /\ \A q \in Readers \ {r} :
            pc'[q] = pc[q] /\ last'[q] = last[q] /\ need'[q] = need[q]
      /\ ~shutdown => last'[r] = last[r] /\ pc'[r] = "refresh"
  BY <1>0, <1>1, <1>2 DEF TypeOK
<1>4. Others(r)
  BY <1>1, <1>3 DEF Others
<1>5. Alone'
  BY <1>0, <1>1, <1>4, Aside, AloneKept DEF Calm
<1>6. Waits(r)'
  BY <1>0, <1>1, <1>3 DEF Waits, InHandshake
<1>7. \A c \in Ids : Queued(c)' <=> Queued(c)
  BY <1>1 DEF Queued
<1>8. ASSUME NEW c \in Ids, c[1] = r, Queued(c)' PROVE Active(c)'
  <2>1. Active(c)
    BY <1>7, <1>8 DEF Calm
  <2>2. chan[r]
    BY <1>1, <1>8, <2>1 DEF Active, Open
  <2> QED BY <1>1, <1>8, <2>1, <2>2 DEF Active, Open
<1>9. ~shutdown /\ r \in Matching => last'[r] # "err"
  BY <1>3 DEF Calm, NoErrors
<1> QED BY <1>1, <1>4, <1>5, <1>6, <1>7, <1>8, <1>9, CalmReader

LEMMA CalmStartFresh ==
    ASSUME IInv, IInv', Calm, NEW r \in Readers, StartFresh(r) PROVE Calm'
<1>0. TypeOK /\ Talks /\ Waits(r) /\ TypeOK'
  BY DEF IInv, Calm
<1>a. PICK c \in Ids : c = <<r, att[r] + 1>>
  <2>1. att[r] \in Nat /\ MaxSessions \in Nat /\ att[r] < MaxSessions
    BY <1>0, BoundsAssumption DEF TypeOK, StartFresh
  <2>2. att[r] + 1 \in 1 .. MaxSessions
    BY <2>1
  <2>3. <<r, att[r] + 1>> \in Ids
    BY <2>2 DEF Ids
  <2> QED BY <2>3
<1>1. /\ svc' = svc /\ cur' = cur /\ acc' = acc /\ events' = events /\ cm' = cm
      /\ shutdown' = shutdown /\ joined' = joined /\ toR' = toR
      /\ chan' = chan /\ slot' = slot /\ seen' = seen /\ last' = last
      /\ pc[r] = "idle" /\ ~chan[r] /\ att[r] < MaxSessions
      /\ need' = [need EXCEPT ![r] = ver] /\ att' = [att EXCEPT ![r] = @ + 1]
      /\ rOpen' = rOpen \cup {c} /\ backlog' = Append(backlog, c)
      /\ pc' = [pc EXCEPT ![r] = "greet"]
  BY <1>a DEF StartFresh, Call, providerVars, serviceVars, cmVars
<1>2. att[r] \in Nat /\ MaxSessions \in Nat
  BY <1>0, BoundsAssumption DEF TypeOK
<1>3. /\ pc'[r] = "greet" /\ att'[r] = att[r] + 1
      /\ \A q \in Readers \ {r} : pc'[q] = pc[q] /\ att'[q] = att[q] /\ need'[q] = need[q]
  BY <1>0, <1>1 DEF TypeOK
<1>4. Conn(r)' = c /\ c[1] = r /\ c[2] > att[r]
  BY <1>a, <1>2, <1>3 DEF Conn
<1>5. toR[c] = <<>>
  BY <1>0, <1>4 DEF Talks, Talk
<1>6. Others(r)
  BY <1>1, <1>3 DEF Others
<1>7. Alone'
  BY <1>0, <1>1, <1>6, Aside, AloneKept DEF Calm
<1>8. \A d \in Ids : Queued(d)' <=> Queued(d) \/ d = c
  <2>1. /\ backlog \in Seq(Ids) /\ Len(backlog') = Len(backlog) + 1 /\ Len(backlog) \in Nat
        /\ backlog'[Len(backlog) + 1] = c
        /\ \A i \in 1 .. Len(backlog) : backlog'[i] = backlog[i]
    BY <1>0, <1>1, <1>4, SMTT(30) DEF TypeOK
  <2>2. \A i \in 1 .. Len(backlog') : i \in 1 .. Len(backlog) \/ i = Len(backlog) + 1
    BY <2>1
  <2>3. Len(backlog) + 1 \in 1 .. Len(backlog')
    BY <2>1
  <2>4. \A i \in 1 .. Len(backlog) : i \in 1 .. Len(backlog')
    BY <2>1
  <2> QED BY <2>1, <2>2, <2>3, <2>4 DEF Queued
<1>9. Waits(r)'
  <2>1. ~InHandshake(r)'
    BY <1>1, <1>3, <1>4, <1>5 DEF InHandshake
  <2>2. ~shutdown => slot[r] = None
    BY <1>0, <1>1 DEF Waits
  <2>3. Queued(Conn(r))'
    <3>1. Queued(c)'
      BY <1>4, <1>8
    <3> QED BY <1>4, <3>1 DEF Queued
  <2> QED BY <1>1, <1>3, <2>1, <2>2, <2>3 DEF Waits
<1>10. ASSUME NEW d \in Ids, d[1] = r, Queued(d)' PROVE Active(d)'
  <2>1. CASE d = c
    BY <1>a, <1>3, <1>4, <2>1 DEF Active, Open
  <2>2. CASE d # c
    <3>1. Active(d)
      BY <1>8, <1>10, <2>2 DEF Calm
    <3> QED BY <1>1, <1>10, <3>1 DEF Active, Open
  <2> QED BY <2>1, <2>2
<1>11. ~shutdown /\ r \in Matching => last'[r] # "err"
  BY <1>1 DEF Calm, NoErrors
<1>12. \A d \in Ids : d[1] # r => toR'[d] = toR[d] /\ (Queued(d)' <=> Queued(d))
  BY <1>1, <1>4, <1>8
<1> QED BY <1>1, <1>6, <1>7, <1>9, <1>10, <1>11, <1>12, CalmReader

LEMMA CalmReceiveExchange ==
    ASSUME IInv, IInv', Calm, NEW r \in Readers, ReceiveExchange(r) PROVE Calm'
<1>0. TypeOK /\ Progress /\ Waits(r)
  BY DEF IInv, Calm
<1>1. /\ svc' = svc /\ cur' = cur /\ acc' = acc /\ events' = events /\ cm' = cm
      /\ shutdown' = shutdown /\ joined' = joined /\ backlog' = backlog /\ rOpen' = rOpen
      /\ att' = att /\ slot' = slot /\ need' = need
      /\ pc[r] \in {"exchange", "refresh"} /\ toR[Conn(r)] # <<>>
      /\ toR' = [toR EXCEPT ![Conn(r)] = Tail(@)]
      /\ chan' = [chan EXCEPT ![r] = TRUE]
      /\ seen' = [seen EXCEPT ![r] = Head(toR[Conn(r)]).ver]
      /\ pc' = [pc EXCEPT ![r] = "idle"] /\ last' = [last EXCEPT ![r] = "ok"]
  BY DEF ReceiveExchange, Return, providerVars, serviceVars, cmVars
<1>2. /\ pc'[r] = "idle" /\ chan'[r] /\ last'[r] = "ok"
      /\ \A q \in Readers \ {r} :
            pc'[q] = pc[q] /\ chan'[q] = chan[q] /\ last'[q] = last[q] /\ seen'[q] = seen[q]
  BY <1>0, <1>1 DEF TypeOK
<1>3. Others(r)
  BY <1>1, <1>2 DEF Others
<1>4. Alone'
  <2>1. cur # None => cur[1] # r
    BY <1>1, Aside
  <2> QED BY <1>0, <1>1, <1>3, <2>1, AloneKept DEF Calm
<1>5. Waits(r)'
  BY <1>2 DEF Waits, InHandshake
<1>6. \A c \in Ids : Queued(c)' <=> Queued(c)
  BY <1>1 DEF Queued
<1>7. ASSUME NEW c \in Ids, c[1] = r, Queued(c)' PROVE Active(c)'
  BY <1>1, <1>2, <1>6, <1>7 DEF Calm, Active, Open
<1>8. ASSUME NEW c \in Ids, c[1] # r PROVE toR'[c] = toR[c]
  <2>1. c # Conn(r)
    BY <1>8 DEF Conn
  <2> QED BY <1>0, <1>1, <2>1 DEF TypeOK
<1> QED BY <1>1, <1>2, <1>3, <1>4, <1>5, <1>6, <1>7, <1>8, CalmReader

(* Without failures a receive fails only on a connection the provider has  *)
(* closed: a reader of another version, or a dropped provider.             *)
LEMMA CalmReceiveFails ==
    ASSUME Undisturbed, IInv, IInv', Served, Calm, NEW r \in Readers, ReceiveFails(r)
    PROVE  Calm'
<1>0. TypeOK /\ Places /\ Progress /\ Foreign /\ Waits(r)
  BY DEF IInv, Calm
<1>1. /\ svc' = svc /\ cur' = cur /\ acc' = acc /\ events' = events /\ cm' = cm
      /\ shutdown' = shutdown /\ joined' = joined /\ backlog' = backlog /\ toR' = toR
      /\ att' = att /\ slot' = slot /\ need' = need /\ seen' = seen
      /\ pc[r] \in {"greet", "exchange", "refresh"} /\ toR[Conn(r)] = <<>>
      /\ Conn(r) \notin pOpen
      /\ chan' = [chan EXCEPT ![r] = FALSE] /\ rOpen' = rOpen \ {Conn(r)}
      /\ pc' = [pc EXCEPT ![r] = "idle"] /\ last' = [last EXCEPT ![r] = "err"]
  BY DEF Undisturbed, ReceiveFails, Return, DropChannel, GivesUp, providerVars, serviceVars,
         cmVars
<1>2. /\ pc'[r] = "idle" /\ ~chan'[r]
      /\ \A q \in Readers \ {r} :
            pc'[q] = pc[q] /\ chan'[q] = chan[q] /\ last'[q] = last[q]
  BY <1>0, <1>1 DEF TypeOK
<1>3. Others(r)
  BY <1>1, <1>2 DEF Others, Conn
<1>4. PICK c \in Ids : c = Conn(r)
  BY <1>0, <1>1, ConnFacts DEF Progress, ProgressOf, Open
<1>5. ~Queued(c) /\ c # cur /\ c \notin session
  BY <1>0, <1>1, <1>4 DEF Places
<1>6. cur # None => cur[1] # r
  BY <1>1, Aside
<1>7. Alone'
  BY <1>0, <1>1, <1>3, <1>6, AloneKept DEF Calm
<1>8. ~shutdown => r \notin Matching
  <2> SUFFICES ASSUME ~shutdown, r \in Matching PROVE FALSE
    OBVIOUS
  <2>1. CASE pc[r] = "greet"
    BY <1>0, <1>4, <1>5, <2>1 DEF Waits
  <2>2. CASE pc[r] = "exchange"
    BY <1>0, <1>1, <1>4, <1>5, <2>2 DEF Waits, InHandshake
  <2>3. CASE pc[r] = "refresh"
    BY <1>0, <1>4, <1>5, <2>3 DEF Undisturbed, Served, Serving, Progress, ProgressOf
  <2> QED BY <1>1, <2>1, <2>2, <2>3
<1>9. Waits(r)'
  <2>1. ~shutdown => slot[r] = None
    BY <1>0, <1>8 DEF Foreign, ForeignReader
  <2> QED BY <1>1, <1>2, <2>1 DEF Waits, InHandshake
<1>10. \A d \in Ids : Queued(d)' <=> Queued(d)
  BY <1>1 DEF Queued
<1>11. ASSUME NEW d \in Ids, d[1] = r, Queued(d)' PROVE Active(d)'
  <2>1. Queued(d) /\ Active(d)
    BY <1>10, <1>11 DEF Calm
  <2>2. d = c
    BY <1>0, <1>4, <1>11, <2>1, ConnFacts DEF Active
  <2> QED BY <1>5, <2>1, <2>2
<1> QED BY <1>1, <1>3, <1>7, <1>8, <1>9, <1>10, <1>11, CalmReader

(* Without failures the RDMA connect of a handshake does not fail.         *)
LEMMA CalmConnectFails ==
    ASSUME Undisturbed, IInv, Calm, NEW r \in Readers, ConnectFails(r) PROVE FALSE
<1>0. TypeOK /\ Waits(r) /\ Alone
  BY DEF IInv, Calm
<1>1. /\ pc[r] \in {"resolve", "connect"}
      /\ svc = "ended" \/ (pc[r] = "connect" /\ cm[Conn(r)] = "dead")
  BY DEF Undisturbed, ConnectFails
<1>2. cur = Conn(r) /\ cur # None
  BY <1>0, <1>1, SMTT(30) DEF Waits, InHandshake, Conn, None
<1>3. svc \in {"want", "accept", "established", "reply"} /\ cur[1] = r
  <2>1. cur[1] = r
    BY <1>2 DEF Conn
  <2>2. svc # "hello"
    BY <1>1, <1>2, <2>1, CurFacts
  <2> QED BY <1>0, <1>2, <2>1, <2>2 DEF TypeOK
<1> QED BY <1>1, <1>2, <1>3, <1>0 DEF Alone

(* A step of the reader whose handshake is running.                        *)
LEMMA CalmHandshake ==
    ASSUME IInv, Calm, NEW r \in Readers, cur = Conn(r), Others(r), Alone', att' = att,
           cur' = cur, shutdown' = shutdown, joined' = joined, backlog' = backlog,
           last' = last, pc'[r] \in Connecting,
           ~shutdown => slot'[r] = None \/ pc'[r] = "exchange",
           \A c \in Ids : c # cur => toR'[c] = toR[c]
    PROVE  Calm'
<1>0. TypeOK /\ Places
  BY DEF IInv
<1>1. cur # None /\ cur[1] = r
  BY DEF Conn, None
<1>2. \A c \in Ids : Queued(c)' <=> Queued(c)
  BY DEF Queued
<1>3. ASSUME NEW c \in Ids, c[1] = r, Queued(c)' PROVE Active(c)'
  <2>1. Queued(c) /\ Active(c)
    BY <1>2, <1>3 DEF Calm
  <2>2. c = cur
    BY <1>0, <1>3, <2>1, ConnFacts DEF Active
  <2> QED BY <1>0, <2>1, <2>2 DEF Places
<1>4. Waits(r)'
  BY DEF Waits, Conn, Connecting
<1>5. ~shutdown /\ r \in Matching => last'[r] # "err"
  BY DEF Calm, NoErrors
<1>6. \A c \in Ids : c[1] # r => toR'[c] = toR[c]
  BY <1>1
<1> QED BY <1>2, <1>3, <1>4, <1>5, <1>6, CalmReader

LEMMA CalmReceiveWelcome ==
    ASSUME IInv, Calm, NEW r \in Readers, ReceiveWelcome(r) PROVE Calm'
<1>0. TypeOK /\ Progress /\ Waits(r) /\ Alone
  BY DEF IInv, Calm
<1>1. /\ svc' = svc /\ cur' = cur /\ acc' = acc /\ events' = events /\ cm' = cm
      /\ shutdown' = shutdown /\ joined' = joined /\ backlog' = backlog /\ rOpen' = rOpen
      /\ att' = att /\ chan' = chan /\ slot' = slot /\ need' = need /\ seen' = seen
      /\ last' = last
      /\ pc[r] = "greet" /\ toR[Conn(r)] # <<>>
      /\ toR' = [toR EXCEPT ![Conn(r)] = Tail(@)] /\ pc' = [pc EXCEPT ![r] = "resolve"]
  BY DEF ReceiveWelcome, providerVars, serviceVars, cmVars
<1>2. pc'[r] = "resolve" /\ \A q \in Readers \ {r} : pc'[q] = pc[q]
  BY <1>0, <1>1 DEF TypeOK
<1>3. cur = Conn(r) /\ cur # None /\ cur[1] = r
  BY <1>0, <1>1 DEF Waits, InHandshake, Conn, None
<1>4. svc = "want" /\ events = <<>> /\ slot[r] = None
  <2>1. svc = "want"
    BY <1>0, <1>1, <1>3, CurFacts DEF TypeOK, Connecting
  <2> QED BY <1>0, <1>1, <1>3, <2>1 DEF Alone
<1>5. Alone'
  <2>1. Active(cur)'
    BY <1>0, <1>1, <1>2, <1>3 DEF Alone, Active, Open
  <2> QED BY <1>1, <1>2, <1>3, <1>4, <2>1 DEF Alone
<1>6. Others(r)
  BY <1>1, <1>2 DEF Others
<1>7. \A c \in Ids : c # cur => toR'[c] = toR[c]
  BY <1>0, <1>1, <1>3 DEF TypeOK
<1> QED BY <1>1, <1>2, <1>3, <1>4, <1>5, <1>6, <1>7, CalmHandshake DEF Connecting

LEMMA CalmRdmaConnect ==
    ASSUME IInv, Calm, NEW r \in Readers, RdmaConnect(r) PROVE Calm'
<1>0. TypeOK /\ Waits(r) /\ Alone
  BY DEF IInv, Calm
<1>1. /\ svc' = svc /\ cur' = cur /\ acc' = acc /\ toR' = toR
      /\ shutdown' = shutdown /\ joined' = joined /\ backlog' = backlog /\ rOpen' = rOpen
      /\ att' = att /\ chan' = chan /\ slot' = slot /\ need' = need /\ seen' = seen
      /\ last' = last /\ pc[r] = "resolve"
      /\ cm' = [cm EXCEPT ![Conn(r)] = "req"]
      /\ events' = Append(events, Event("request", Conn(r)))
      /\ pc' = [pc EXCEPT ![r] = "connect"]
  BY DEF RdmaConnect, MayConnect, providerVars, serviceVars, tcpVars
<1>2. pc'[r] = "connect" /\ \A q \in Readers \ {r} : pc'[q] = pc[q]
  BY <1>0, <1>1 DEF TypeOK
<1>3. cur = Conn(r) /\ cur # None /\ cur[1] = r /\ cur \in Ids
  <2>1. cur = Conn(r) /\ cur # None /\ cur[1] = r
    BY <1>0, <1>1 DEF Waits, InHandshake, Conn, None
  <2> QED BY <1>0, <2>1 DEF TypeOK
<1>4. svc \in {"want", "accept"} /\ events = <<>> /\ slot[r] = None
  <2>1. svc \in {"want", "accept", "established", "reply"}
    BY <1>0, <1>1, <1>3, CurFacts DEF TypeOK
  <2> QED BY <1>0, <1>1, <1>3, <2>1 DEF Alone
<1>5. Alone'
  <2>1. Active(cur)'
    BY <1>0, <1>1, <1>2, <1>3 DEF Alone, Active, Open
  <2>2. cm'[cur] = "req"
    BY <1>0, <1>1, <1>3 DEF TypeOK
  <2>3. events' = <<Event("request", cur)>>
    BY <1>1, <1>3, <1>4
  <2>4. Event("request", cur)' = Event("request", cur)
    BY <1>1 DEF Event
  <2> QED BY <1>1, <1>2, <1>3, <1>4, <2>1, <2>2, <2>3, <2>4 DEF Alone
<1>6. Others(r)
  BY <1>1, <1>2 DEF Others
<1> QED BY <1>1, <1>2, <1>3, <1>4, <1>5, <1>6, CalmHandshake DEF Connecting

(* No connection is replaced: the slot of a reader in a handshake is       *)
(* empty.                                                                  *)
LEMMA CalmEstablished ==
    ASSUME IInv, Calm, NEW r \in Readers, Established(r) PROVE Calm'
<1>0. TypeOK /\ Waits(r) /\ Alone
  BY DEF IInv, Calm
<1>1. /\ svc' = svc /\ cur' = cur /\ acc' = acc /\ toR' = toR
      /\ shutdown' = shutdown /\ joined' = joined /\ backlog' = backlog /\ rOpen' = rOpen
      /\ att' = att /\ chan' = chan /\ need' = need /\ seen' = seen
      /\ last' = last /\ pc[r] = "connect" /\ cm[Conn(r)] = "accepted"
      /\ events' = Append(events, Event("established", Conn(r))) \o Disconnects(slot[r])
      /\ slot' = [slot EXCEPT ![r] = Conn(r)]
      /\ pc' = [pc EXCEPT ![r] = "exchange"]
  BY DEF Established, providerVars, serviceVars, tcpVars
<1>2. /\ pc'[r] = "exchange"
      /\ \A q \in Readers \ {r} : pc'[q] = pc[q] /\ slot'[q] = slot[q]
  BY <1>0, <1>1 DEF TypeOK
<1>3. cur = Conn(r) /\ cur # None /\ cur[1] = r /\ cur \in Ids
  <2>1. cur = Conn(r) /\ cur # None /\ cur[1] = r
    <3>1. pc[r] = "connect"
      BY <1>1
    <3> QED BY <1>0, <3>1 DEF Waits, InHandshake, Conn, None
  <2> QED BY <1>0, <2>1 DEF TypeOK
<1>4. svc = "established" /\ acc = cur /\ events = <<>> /\ slot[r] = None
  <2>1. svc \in {"want", "accept", "established", "reply"}
    BY <1>0, <1>1, <1>3, CurFacts DEF TypeOK
  <2> QED BY <1>0, <1>1, <1>3, <2>1 DEF Alone
<1>5. events' = <<Event("established", cur)>>
  <2>1. Disconnects(slot[r]) = <<>>
    BY <1>4, IdFacts DEF Disconnects
  <2>2. Append(<<>>, Event("established", cur)) \o <<>> = <<Event("established", cur)>>
    OBVIOUS
  <2> QED BY <1>1, <1>3, <1>4, <2>1, <2>2
<1>6. Alone'
  <2>1. Active(cur)'
    BY <1>0, <1>1, <1>2, <1>3 DEF Alone, Active, Open
  <2>2. Event("established", cur)' = Event("established", cur)
    BY <1>1 DEF Event
  <2> QED BY <1>1, <1>2, <1>3, <1>4, <1>5, <2>1, <2>2 DEF Alone
<1>7. Others(r)
  BY <1>1, <1>2 DEF Others
<1> QED BY <1>1, <1>2, <1>3, <1>6, <1>7, CalmHandshake DEF Connecting

-----------------------------------------------------------------------------
(* The provider's steps.                                                   *)

LEMMA CalmAcceptTcp == ASSUME IInv, Calm, AcceptTcp PROVE Calm'
<1>0. TypeOK /\ Talks /\ Progress /\ Alone
  BY DEF IInv, Calm
<1>1. /\ svc = "poll" /\ ~shutdown /\ backlog # <<>> /\ cur = None /\ cur' = Head(backlog)
      /\ backlog' = Tail(backlog) /\ svc' = "hello" /\ events' = events /\ shutdown' = shutdown
      /\ joined' = joined /\ toR' = toR /\ UNCHANGED readerVars
      /\ pc' = pc /\ att' = att /\ chan' = chan /\ slot' = slot
  BY <1>0 DEF AcceptTcp, TypeOK, providerVars, cmVars, readerVars
<1>2. PICK c \in Ids : c = Head(backlog)
  BY <1>0, <1>1 DEF TypeOK
<1>3. \A d \in Ids : Queued(d) <=> Queued(d)' \/ d = c
  <2>1. /\ Len(backlog) \in Nat /\ Len(backlog) >= 1 /\ Len(backlog') = Len(backlog) - 1
        /\ backlog[1] = c /\ \A i \in 1 .. Len(backlog') : backlog'[i] = backlog[i + 1]
    BY <1>0, <1>1, <1>2 DEF TypeOK
  <2>2. /\ \A i \in 1 .. Len(backlog') : i + 1 \in 1 .. Len(backlog)
        /\ \A i \in 1 .. Len(backlog) :
              i = 1 \/ (i - 1 \in 1 .. Len(backlog') /\ backlog'[i - 1] = backlog[i])
        /\ 1 \in 1 .. Len(backlog)
    BY <2>1
  <2> QED BY <2>1, <2>2 DEF Queued
<1>4. Active(c) /\ c[1] \in Readers /\ c = Conn(c[1]) /\ c # None
  BY <1>3, IdFacts DEF Calm, Active, Conn
<1>5. pc[c[1]] = "greet"
  BY <1>0, <1>3, <1>4 DEF Talks, Talk
<1>6. slot[c[1]] = None
  <2>1. Waits(c[1]) /\ (chan[c[1]] => pc[c[1]] # "greet")
    BY <1>0, <1>4 DEF Calm, Progress, ProgressOf
  <2> QED BY <1>1, <1>5, <2>1 DEF Waits
<1>7. Alone'
  <2>1. Active(cur)' /\ cur' = c
    BY <1>1, <1>2, <1>4 DEF Active, Open
  <2>2. events' = <<>>
    BY <1>0, <1>1 DEF Alone
  <2> QED BY <1>1, <1>6, <2>1, <2>2 DEF Alone
<1>8. ASSUME NEW r \in Readers PROVE Waits(r)'
  <2>1. Waits(r) /\ Conn(r)' = Conn(r) /\ Conn(r) # None
    BY <1>1 DEF Calm, Conn, None
  <2>2. ~InHandshake(r)'
    BY <1>1, <2>1 DEF Waits, InHandshake
  <2>3. pc[r] = "greet" /\ r \in Matching => Queued(Conn(r))' \/ cur' = Conn(r)
    <3>1. SUFFICES ASSUME pc[r] = "greet", r \in Matching, Conn(r) # c
                   PROVE  Queued(Conn(r))'
      BY <1>1, <1>2
    <3>2. Queued(Conn(r))
      BY <1>1, <2>1, <3>1 DEF Waits
    <3>3. PICK d \in Ids : d = Conn(r)
      BY <1>0, <3>1, ConnFacts DEF Progress, ProgressOf, Open
    <3>4. Queued(d)'
      BY <1>3, <3>1, <3>2, <3>3
    <3> QED BY <2>1, <3>3, <3>4 DEF Queued
  <2> QED BY <1>1, <2>1, <2>2, <2>3 DEF Waits
<1>9. OwnGroup'
  BY <1>1 DEF Calm, OwnGroup
<1> QED BY <1>1, <1>3, <1>7, <1>8, <1>9, CalmProvider

LEMMA CalmReceiveHello == ASSUME IInv, Calm, ReceiveHello PROVE Calm'
<1>0. TypeOK /\ Alone /\ Progress
  BY DEF IInv, Calm
<1>1. /\ svc = "hello" /\ shutdown' = shutdown /\ events' = events /\ cm' = cm
      /\ joined' = joined /\ backlog' = backlog /\ UNCHANGED readerVars
      /\ pc' = pc /\ att' = att /\ chan' = chan /\ slot' = slot
  BY DEF ReceiveHello, providerVars, cmVars, readerVars
<1>2. /\ cur # None /\ cur \in Ids /\ cur[1] \in Readers /\ cur = Conn(cur[1])
      /\ Active(cur) /\ pc[cur[1]] = "greet" /\ toR[cur] = <<>>
      /\ slot[cur[1]] = None /\ events = <<>>
  <2>1. cur # None
    BY <1>0, <1>1 DEF TypeOK
  <2> QED BY <1>0, <1>1, <2>1, CurFacts DEF Alone
<1>3. \A d \in Ids : Queued(d)' <=> Queued(d)
  BY <1>1 DEF Queued
<1>4. OwnGroup'
  BY <1>1 DEF Calm, OwnGroup
<1>5. CASE Greets(cur)
  <2>1. /\ toR' = [toR EXCEPT ![cur] = Append(@, Welcome)] /\ svc' = "want" /\ cur' = cur
    BY <1>5 DEF ReceiveHello
  <2>2. Alone'
    <3>1. Active(cur)'
      BY <1>1, <1>2, <2>1 DEF Active, Open
    <3> QED BY <1>1, <1>2, <2>1, <3>1 DEF Alone
  <2>3. ASSUME NEW r \in Readers PROVE Waits(r)'
    <3>1. Waits(r) /\ Conn(r)' = Conn(r) /\ (Queued(Conn(r)) => Queued(Conn(r))')
      BY <1>1 DEF Calm, Conn, Queued
    <3>2. CASE cur = Conn(r)
      BY <1>1, <2>1, <3>1, <3>2 DEF Waits
    <3>3. CASE cur # Conn(r)
      <4>1. pc[r] \notin {"idle", "gone"} => toR'[Conn(r)] = toR[Conn(r)]
        <5>1. pc[r] \notin {"idle", "gone"} => Conn(r) \in Ids
          BY <1>0, ConnFacts DEF Progress, ProgressOf, Open
        <5> QED BY <1>0, <2>1, <3>3, <5>1 DEF TypeOK
      <4>2. InHandshake(r)' => InHandshake(r)
        BY <1>1, <3>1, <4>1 DEF InHandshake
      <4> QED BY <1>1, <2>1, <3>1, <4>2 DEF Waits
    <3> QED BY <3>2, <3>3
  <2> QED BY <1>1, <1>3, <1>4, <2>2, <2>3, CalmProvider
<1>6. CASE ~Greets(cur)
  <2>1. toR' = toR /\ svc' = "poll" /\ cur' = None
    BY <1>6 DEF ReceiveHello, Hangup
  <2>2. Alone'
    BY <1>1, <1>2, <2>1 DEF Alone
  <2>3. ASSUME NEW r \in Readers PROVE Waits(r)'
    <3>1. Waits(r) /\ Conn(r)' = Conn(r) /\ (Queued(Conn(r)) => Queued(Conn(r))')
      BY <1>1 DEF Calm, Conn, Queued
    <3>2. Conn(r)[1] = r
      BY DEF Conn
    <3>3. ~InHandshake(r)
      BY <1>2, <3>1, <3>2 DEF Waits, InHandshake
    <3>4. ~InHandshake(r)'
      BY <1>1, <2>1, <3>1, <3>3 DEF InHandshake
    <3>5. r \in Matching => cur # Conn(r)
      BY <1>6, <3>2 DEF Greets
    <3> QED BY <1>1, <2>1, <3>1, <3>4, <3>5 DEF Waits
  <2> QED BY <1>1, <1>3, <1>4, <2>2, <2>3, CalmProvider
<1> QED BY <1>5, <1>6

LEMMA CalmReceiveWant == ASSUME IInv, Calm, ReceiveWant PROVE Calm'
<1>0. TypeOK /\ Alone
  BY DEF IInv, Calm
<1>1. /\ svc = "want" /\ svc' = "accept" /\ shutdown' = shutdown /\ events' = events
      /\ cm' = cm /\ joined' = joined /\ backlog' = backlog /\ cur' = cur /\ toR' = toR
      /\ UNCHANGED readerVars /\ pc' = pc /\ att' = att /\ chan' = chan /\ slot' = slot
  BY DEF ReceiveWant, providerVars, cmVars, readerVars
<1>2. Alone'
  BY <1>0, <1>1 DEF Alone, Active, Open, Event
<1>3. \A d \in Ids : Queued(d)' <=> Queued(d)
  BY <1>1 DEF Queued
<1>4. OwnGroup'
  BY <1>1 DEF Calm, OwnGroup
<1> QED BY <1>1, <1>2, <1>3, <1>4, WaitsKept, CalmProvider

(* Without failures the handshake's reader has not hung up.                *)
LEMMA CalmNoHangup ==
    ASSUME Undisturbed, IInv, Calm, HandshakeReceiveFails \/ ReplyFails PROVE FALSE
<1>0. TypeOK
  BY DEF IInv
<1>1. svc \in {"hello", "want", "reply"} /\ cur \notin rOpen
  BY DEF Undisturbed, HandshakeReceiveFails, ReplyFails
<1>2. cur # None
  BY <1>0, <1>1 DEF TypeOK
<1> QED BY <1>1, <1>2, CurFacts

(* The event accept_impl takes is the request of the handshake's reader.   *)
LEMMA CalmRdmaAccept == ASSUME IInv, Calm, RdmaAccept PROVE Calm'
<1>0. TypeOK /\ Alone
  BY DEF IInv, Calm
<1>1. /\ svc = "accept" /\ events # <<>> /\ events' = Tail(events)
      /\ shutdown' = shutdown /\ joined' = joined /\ backlog' = backlog /\ toR' = toR
      /\ UNCHANGED readerVars /\ pc' = pc /\ att' = att /\ chan' = chan /\ slot' = slot
  BY DEF RdmaAccept, providerVars, readerVars
<1>2. /\ cur # None /\ cur \in Ids /\ pc[cur[1]] = "connect" /\ cm[cur] = "req"
      /\ events = <<Event("request", cur)>> /\ Active(cur) /\ slot[cur[1]] = None
  BY <1>0, <1>1 DEF Alone, TypeOK
<1>3. /\ Head(events) = Event("request", cur) /\ Tail(events) = <<>>
      /\ Event("request", cur).type = "request" /\ Event("request", cur).id = cur
  BY <1>2 DEF Event
<1>4. acc' = cur /\ cm' = [cm EXCEPT ![cur] = "accepted"] /\ svc' = "established" /\ cur' = cur
  BY <1>2, <1>3 DEF RdmaAccept
<1>5. Alone'
  <2>1. Active(cur)'
    BY <1>1, <1>2, <1>4 DEF Active, Open
  <2>2. cm'[cur] = "accepted"
    BY <1>0, <1>2, <1>4 DEF TypeOK
  <2> QED BY <1>1, <1>2, <1>3, <1>4, <2>1, <2>2 DEF Alone
<1>6. \A d \in Ids : Queued(d)' <=> Queued(d)
  BY <1>1 DEF Queued
<1>7. OwnGroup'
  BY <1>1 DEF Calm, OwnGroup
<1> QED BY <1>1, <1>4, <1>5, <1>6, <1>7, WaitsKept, CalmProvider

(* The event wait_event takes is that connection's, which goes into the    *)
(* domain of the group its reader asked for.                               *)
LEMMA CalmWaitEstablished == ASSUME IInv, Calm, WaitEstablished PROVE Calm'
<1>0. TypeOK /\ Alone
  BY DEF IInv, Calm
<1>1. /\ svc = "established" /\ events # <<>>
      /\ shutdown' = shutdown /\ backlog' = backlog /\ toR' = toR
      /\ UNCHANGED readerVars /\ pc' = pc /\ att' = att /\ chan' = chan /\ slot' = slot
  BY DEF WaitEstablished, providerVars, readerVars
<1>2. /\ cur # None /\ cur \in Ids /\ acc = cur /\ pc[cur[1]] = "exchange"
      /\ events = <<Event("established", cur)>> /\ Active(cur)
  BY <1>0, <1>1 DEF Alone, TypeOK
<1>3. /\ Head(events) = Event("established", cur) /\ Tail(events) = <<>>
      /\ Event("established", cur).type = "established"
  BY <1>2 DEF Event
<1>4. /\ joined' = [joined EXCEPT ![cur] = GroupOf[cur[1]]]
      /\ events' = <<>> /\ svc' = "reply" /\ cur' = cur
  BY <1>2, <1>3 DEF WaitEstablished
<1>5. Alone'
  <2>1. Active(cur)'
    BY <1>1, <1>2, <1>4 DEF Active, Open
  <2> QED BY <1>1, <1>2, <1>4, <2>1 DEF Alone
<1>6. \A d \in Ids : Queued(d)' <=> Queued(d)
  BY <1>1 DEF Queued
<1>7. OwnGroup'
  <2>1. \A c \in Ids : joined'[c] = IF c = cur THEN GroupOf[cur[1]] ELSE joined[c]
    BY <1>0, <1>2, <1>4 DEF TypeOK
  <2> QED BY <2>1 DEF Calm, OwnGroup
<1> QED BY <1>1, <1>4, <1>5, <1>6, <1>7, WaitsKept, CalmProvider

LEMMA CalmReply == ASSUME IInv, Calm, Reply PROVE Calm'
<1>0. TypeOK /\ Alone /\ Progress
  BY DEF IInv, Calm
<1>1. /\ svc = "reply" /\ shutdown' = shutdown /\ events' = events
      /\ joined' = joined /\ backlog' = backlog /\ UNCHANGED readerVars
      /\ pc' = pc /\ att' = att /\ chan' = chan /\ slot' = slot
      /\ toR' = [toR EXCEPT ![cur] = Append(@, Exchange(ver))]
      /\ svc' = "poll" /\ cur' = None
  BY DEF Reply, providerVars, cmVars, readerVars
<1>2. cur \in Ids /\ pc[cur[1]] = "exchange" /\ events = <<>>
  BY <1>0, <1>1 DEF Alone, TypeOK
<1>3. Alone'
  BY <1>1, <1>2 DEF Alone
<1>4. ASSUME NEW r \in Readers PROVE Waits(r)'
  <2>1. Waits(r) /\ Conn(r)' = Conn(r) /\ (Queued(Conn(r)) => Queued(Conn(r))')
    BY <1>1 DEF Calm, Conn, Queued
  <2>2. CASE cur = Conn(r)
    <3>1. pc[r] = "exchange"
      BY <1>2, <2>2 DEF Conn
    <3>2. toR'[Conn(r)] # <<>>
      <4>1. toR[cur] \in Seq(Messages) /\ toR'[cur] = Append(toR[cur], Exchange(ver))
        BY <1>0, <1>1, <1>2 DEF TypeOK
      <4>2. Len(toR'[cur]) = Len(toR[cur]) + 1 /\ Len(toR[cur]) \in Nat
        BY <4>1
      <4> QED BY <2>2, <4>2
    <3> QED BY <1>1, <2>1, <3>1, <3>2 DEF Waits, InHandshake
  <2>3. CASE cur # Conn(r)
    <3>1. pc[r] \notin {"idle", "gone"} => toR'[Conn(r)] = toR[Conn(r)]
      <4>1. pc[r] \notin {"idle", "gone"} => Conn(r) \in Ids
        BY <1>0, ConnFacts DEF Progress, ProgressOf, Open
      <4> QED BY <1>0, <1>1, <2>3, <4>1 DEF TypeOK
    <3>2. ~InHandshake(r)'
      BY <1>1, <2>1, <2>3, <3>1 DEF InHandshake, Waits
    <3> QED BY <1>1, <2>1, <2>3, <3>2 DEF Waits
  <2> QED BY <2>2, <2>3
<1>5. \A d \in Ids : Queued(d)' <=> Queued(d)
  BY <1>1 DEF Queued
<1>6. OwnGroup'
  BY <1>1 DEF Calm, OwnGroup
<1> QED BY <1>1, <1>3, <1>4, <1>5, <1>6, CalmProvider

LEMMA CalmServiceEnds == ASSUME IInv, Calm, ServiceEnds PROVE Calm'
<1>0. TypeOK
  BY DEF IInv
<1>1. /\ svc = "poll" /\ shutdown /\ shutdown' = shutdown /\ events' = <<>> /\ svc' = "ended"
      /\ joined' = joined /\ backlog' = <<>> /\ UNCHANGED readerVars /\ toR' = toR
      /\ pc' = pc /\ att' = att /\ chan' = chan /\ slot' = slot /\ cur' = cur /\ cur = None
  BY <1>0 DEF ServiceEnds, providerVars, readerVars, TypeOK
<1>2. Alone'
  BY <1>1 DEF Alone
<1>3. \A r \in Readers : Waits(r)'
  BY <1>1 DEF Calm, Waits, InHandshake, Conn
<1>4. \A d \in Ids : ~Queued(d)'
  BY <1>1 DEF Queued
<1>5. OwnGroup'
  BY <1>1 DEF Calm, OwnGroup
<1> QED BY <1>1, <1>2, <1>3, <1>4, <1>5, CalmProvider

(* A session thread's answer goes to a reader that is past its greeting.   *)
LEMMA CalmSession == ASSUME IInv, Calm, NEW c \in Ids, SessionThread(c) PROVE Calm'
<1>0. TypeOK /\ Alone /\ Progress /\ Talks
  BY DEF IInv, Calm
<1>1. /\ svc' = svc /\ cur' = cur /\ acc' = acc /\ shutdown' = shutdown /\ events' = events
      /\ cm' = cm /\ joined' = joined /\ backlog' = backlog /\ UNCHANGED readerVars
      /\ pc' = pc /\ att' = att /\ chan' = chan /\ slot' = slot /\ c \in session
  BY DEF SessionThread, ServeUpdate, SessionEnds, providerVars, cmVars, readerVars
<1>2. Alone'
  BY <1>0, <1>1 DEF Alone, Active, Open, Event
<1>3. \A d \in Ids : Queued(d)' <=> Queued(d)
  BY <1>1 DEF Queued
<1>4. OwnGroup'
  BY <1>1 DEF Calm, OwnGroup
<1>5. \A r \in Readers : Waits(r)'
  <2>1. CASE SessionEnds(c)
    BY <1>1, <2>1, WaitsKept DEF SessionEnds
  <2>2. CASE ServeUpdate(c)
    <3>1. toR' = [toR EXCEPT ![c] = Append(@, Exchange(ver))]
      BY <2>2 DEF ServeUpdate
    <3>2. \A d \in Ids : (d # c => toR'[d] = toR[d]) /\ toR'[c] # <<>>
      <4>1. toR[c] \in Seq(Messages) /\ toR'[c] = Append(toR[c], Exchange(ver))
        BY <1>0, <3>1 DEF TypeOK
      <4>2. Len(toR'[c]) = Len(toR[c]) + 1 /\ Len(toR[c]) \in Nat
        BY <4>1
      <4>3. toR'[c] # <<>>
        BY <4>2
      <4> QED BY <1>0, <3>1, <4>3 DEF TypeOK
    <3> SUFFICES ASSUME NEW r \in Readers PROVE Waits(r)'
      OBVIOUS
    <3>3. Waits(r) /\ Conn(r)' = Conn(r) /\ (Queued(Conn(r)) => Queued(Conn(r))')
      BY <1>1 DEF Calm, Conn, Queued
    <3>4. pc[r] \notin {"idle", "gone"} => Conn(r) \in Ids /\ Active(Conn(r)) /\ Talk(Conn(r))
      BY <1>0, ConnFacts DEF Progress, ProgressOf, Open, Active, Talks
    <3>5. Conn(r) = c => pc[r] # "greet"
      <4>1. Conn(r)[1] = r
        BY DEF Conn
      <4> QED BY <1>1, <3>4, <4>1 DEF Talk
    <3>6. InHandshake(r)' => InHandshake(r)
      BY <1>1, <3>2, <3>3, <3>4, <3>5 DEF InHandshake
    <3> QED BY <1>1, <3>3, <3>6 DEF Waits
  <2> QED BY <2>1, <2>2 DEF SessionThread
<1> QED BY <1>1, <1>2, <1>3, <1>4, <1>5, CalmProvider

LEMMA CalmElse == ASSUME Calm, Register \/ Stop \/ UNCHANGED vars PROVE Calm'
<1>1. /\ svc' = svc /\ cur' = cur /\ acc' = acc /\ (shutdown => shutdown')
      /\ events' = events /\ cm' = cm /\ joined' = joined /\ backlog' = backlog
      /\ toR' = toR /\ UNCHANGED readerVars
      /\ pc' = pc /\ att' = att /\ chan' = chan /\ slot' = slot
  BY DEF Register, Stop, vars, providerVars, serviceVars, cmVars, tcpVars, readerVars
<1>2. Alone'
  BY <1>1 DEF Calm, Alone, Active, Open, Event
<1>3. \A d \in Ids : Queued(d)' <=> Queued(d)
  BY <1>1 DEF Queued
<1>4. OwnGroup'
  BY <1>1 DEF Calm, OwnGroup
<1> QED BY <1>1, <1>2, <1>3, <1>4, WaitsKept, CalmProvider

(* Which failures may happen is settled at the start.                      *)
LEMMA FaultsKept == [Next]_vars => faults' = faults
<1> SUFFICES ASSUME [Next]_vars PROVE faults' = faults
  OBVIOUS
<1>1. ASSUME NEW r \in Readers, Reader(r) PROVE faults' = faults
  BY <1>1 DEF Reader, StartRefresh, StartFresh, ConnectRefused, ReceiveWelcome, RdmaConnect,
              Established, ReceiveExchange, ReceiveFails, ConnectFails, Leave, providerVars
<1>2. CASE Service
  BY <1>2 DEF Service, AcceptTcp, ReceiveHello, ReceiveWant, HandshakeReceiveFails, RdmaAccept,
              WaitEstablished, Reply, ReplyFails, ServiceEnds, providerVars
<1>3. ASSUME NEW c \in Ids, SessionThread(c) PROVE faults' = faults
  BY <1>3 DEF SessionThread, ServeUpdate, SessionEnds, providerVars
<1>4. CASE Register \/ Stop \/ UNCHANGED vars
  BY <1>4 DEF Register, Stop, vars, providerVars
<1> QED BY <1>1, <1>2, <1>3, <1>4 DEF Next

LEMMA CalmNext ==
    IInv /\ Served /\ (Undisturbed => Calm) /\ [Next]_vars => (Undisturbed => Calm)'
<1> SUFFICES ASSUME IInv, Served, Undisturbed => Calm, [Next]_vars, Undisturbed' PROVE Calm'
  OBVIOUS
<1>a. Undisturbed /\ Calm
  BY FaultsKept DEF Undisturbed
<1>0. IInv'
  BY NextInv
<1>1. ASSUME NEW r \in Readers, Reader(r) PROVE Calm'
  <2>1. ~Leave(r)
    BY <1>a DEF Leave, Undisturbed
  <2> QED BY <1>0, <1>1, <1>a, <2>1, CalmCalls, CalmStartFresh, CalmReceiveWelcome, CalmRdmaConnect,
             CalmEstablished, CalmReceiveExchange, CalmReceiveFails, CalmConnectFails DEF Reader
<1>2. CASE Service
  BY <1>2, <1>a, CalmAcceptTcp, CalmReceiveHello, CalmReceiveWant, CalmNoHangup, CalmRdmaAccept,
     CalmWaitEstablished, CalmReply, CalmServiceEnds DEF Service
<1>3. ASSUME NEW c \in Ids, SessionThread(c) PROVE Calm'
  BY <1>3, <1>a, CalmSession
<1>4. CASE Register \/ Stop \/ UNCHANGED vars
  BY <1>4, <1>a, CalmElse
<1> QED BY <1>1, <1>2, <1>3, <1>4 DEF Next

LEMMA CalmInit == Init => Calm
<1> SUFFICES ASSUME Init PROVE Calm
  OBVIOUS
<1>1. Alone
  BY DEF Init, Alone
<1>2. \A r \in Readers : Waits(r)
  BY DEF Init, Waits, InHandshake
<1>3. OwnGroup
  BY DEF Init, OwnGroup
<1>4. NoErrors
  BY ReadersAssumption DEF Init, NoErrors
<1>5. \A c \in Ids : ~Queued(c)
  BY DEF Init, Queued
<1> QED BY <1>1, <1>2, <1>3, <1>4, <1>5 DEF Calm

LEMMA Calmness == Spec => [](Undisturbed => Calm)
<1>1. Init => Served
  BY DEF Init, Served, Serving, Connecting
<1>2. Init => (Undisturbed => Calm)
  BY CalmInit
<1> QED BY <1>1, <1>2, InitInv, NextInv, ServedNext, CalmNext, PTL DEF Spec

(* While nothing fails, accept_into puts every RDMA connection into the    *)
(* domain of the group its own reader asked to join, for any number of     *)
(* readers and groups.  Once a reader leaves it need not: the disconnect   *)
(* event makes the next accept fail.                                       *)
THEOREM JoinsOwnGroup == Spec => []OwnGroupUndisturbed
<1>1. (Undisturbed => Calm) => OwnGroupUndisturbed
  BY DEF Calm, OwnGroupUndisturbed
<1> QED BY <1>1, Calmness, PTL

(* While nothing fails and the provider is not dropped, no update of a     *)
(* reader of the right version returns an error, however many readers      *)
(* meet in the service thread's one handshake at a time.                   *)
THEOREM UpdatesSucceed == Spec => []NoUpdateFails
<1>1. (Undisturbed => Calm) => NoUpdateFails
  BY DEF Calm, NoUpdateFails
<1> QED BY <1>1, Calmness, PTL
=============================================================================
