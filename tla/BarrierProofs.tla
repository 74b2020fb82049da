--------------------------- MODULE BarrierProofs ---------------------------
(* Proofs about Barrier, for every number of nodes, rounds and time-outs.  *)
EXTENDS Barrier, NaturalsInduction, WellFoundedInduction, SequenceTheorems, TLAPS

USE NAssumption DEF NAssumption

(* n is waiting for p's reply.                                             *)
Waiting(n, p) == status[n] = "wait" /\ at[n] = p /\ reply[n] = 0

(* p has heard, or has been reported, a clock of n that is at least c.     *)
Knows(p, n, c) ==
    \/ known[p][n] >= c
    \/ \E s \in seen[p] : s[1] = n /\ s[2] >= c

(* Where the two threads of a node can be.                                 *)
Control ==
    \A n \in Nodes :
        /\ status[n] \in {"poll", "wait"} => at[n] \in Peers(n)
        /\ resp[n] = "answer" <=> serving[n] # None
        /\ status[n] = "out" => resp[n] = "off" /\ seen[n] = {}
        /\ Inside(n) => clock[n] > 0

(* Nobody is thought further than it is.                                   *)
Genuine ==
    /\ \A n, p \in Nodes : known[n][p] <= clock[p]
    /\ \A n \in Nodes : \A s \in seen[n] : s[2] <= clock[s[1]]

(* A poll that p holds: its poller waits for it, or has given it up.       *)
GoodPoll(e, p) ==
    /\ e.from # p
    /\ e.clock <= clock[e.from]
    /\ e.live => Waiting(e.from, p) /\ e.clock = clock[e.from]
    /\ ~e.live => status[e.from] = "dead" \/ <<e.from, p, e.clock>> \in gaveUp

Polling ==
    \A p \in Nodes :
        /\ \A i \in 1 .. Len(queue[p]) : GoodPoll(queue[p][i], p)
        /\ serving[p] # None =>
               GoodPoll(serving[p], p) /\ Knows(p, serving[p].from, serving[p].clock)

(* A node has one poll open.                                               *)
Single ==
    \A p \in Nodes :
        /\ \A i, j \in 1 .. Len(queue[p]) :
               queue[p][i].live /\ queue[p][j].live /\ i # j =>
                   queue[p][i].from # queue[p][j].from
        /\ \A i \in 1 .. Len(queue[p]) :
               serving[p] # None /\ serving[p].live /\ queue[p][i].live =>
                   serving[p].from # queue[p][i].from

(* A reply is the clock of the node that was asked, and "a poller that has *)
(* read a reply can rely on its target having already heard its own        *)
(* clock", for as long as the target is in the round it replied from.      *)
Replies ==
    \A n \in Nodes :
        reply[n] # 0 =>
            /\ status[n] = "wait"
            /\ reply[n] <= clock[at[n]]
            /\ Inside(at[n]) /\ reply[n] = clock[at[n]] => Knows(at[n], n, clock[n])

(* A node that leaves has heard every peer.                                *)
Left ==
    \A n \in Nodes : status[n] \in {"leave", "out"} =>
        \A p \in Peers(n) : known[n][p] >= clock[n]

(* n is about to reply to p.                                               *)
Answering(n, p) == serving[n] # None /\ serving[n].from = p /\ serving[n].live

(* In a round both are in, hearing is mutual: apart from the two cases     *)
(* HeardBeforeLeft names, a node that n has heard of has heard of n, or    *)
(* is being answered.                                                      *)
Mutual ==
    \A n \in Nodes : \A p \in Peers(n) :
        (/\ clock[p] = clock[n] /\ Inside(p) /\ status[n] # "dead"
         /\ Knows(n, p, clock[n])) =>
            \/ Heard(p, n)
            \/ <<p, n, clock[p]>> \in gaveUp \cup ahead
            \/ Answering(n, p)

IInv == TypeOK /\ Control /\ Genuine /\ Polling /\ Single /\ Replies /\ Left /\ Mutual
-----------------------------------------------------------------------------
(* Extremes of finite sets of numbers.                                     *)

Less == {ss \in Nat \X Nat : ss[1] < ss[2]}

LEMMA Least == ASSUME NEW S, S \subseteq Nat, S # {} PROVE \E m \in S : \A k \in S : m <= k
<1>1. IsWellFoundedOn(Less, Nat)
  <2>1. OpToRel(<, Nat) = Less
    BY Zenon DEF OpToRel, Less
  <2> QED BY <2>1, NatLessThanWellFounded, Zenon
<1>2. PICK x \in S : \A y \in S : ~(<<y, x>> \in Less)
  BY <1>1, WFMin
<1>3. ASSUME NEW y \in S, ~(x <= y) PROVE FALSE
  <2>1. x \in Nat /\ y \in Nat /\ y < x
    BY <1>3
  <2>2. <<y, x>> \in Nat \X Nat /\ <<y, x>>[1] = y /\ <<y, x>>[2] = x
    BY <2>1
  <2>3. <<y, x>> \in Less
    BY <2>1, <2>2, Zenon DEF Less
  <2> QED BY <1>2, <2>3
<1> QED BY <1>3

LEMMA Greatest == ASSUME NEW M \in Nat, NEW S, S \subseteq 0 .. M, S # {} PROVE \E m \in S : \A k \in S : k <= m
<1> DEFINE D == {n \in Nat : \E s \in S : s + n = M}
<1>0. \A s \in S : s \in Nat /\ s <= M /\ M - s \in Nat /\ M - s \in D
  BY DEF D
<1>1. D \subseteq Nat /\ D # {}
  BY <1>0
<1>2. PICK d \in D : \A k \in D : d <= k
  <2> HIDE DEF D
  <2> QED BY <1>1, Least
<1>3. PICK s \in S : s + d = M
  BY DEF D
<1>4. ASSUME NEW k \in S PROVE k <= s
  <2>1. d <= M - k
    BY <1>0, <1>2
  <2> QED BY <2>1, <1>0, <1>1, <1>3
<1> QED BY <1>4

-----------------------------------------------------------------------------
(* The operators of Barrier.                                               *)

LEMMA PollIsSome == ASSUME NEW e \in Polls PROVE e # None
<1>1. DOMAIN e = {"from", "clock", "live"}
  BY DEF Polls
<1>2. DOMAIN None = {}
  BY DEF None
<1> QED BY <1>1, <1>2

LEMMA GoToFacts ==
    ASSUME TypeOK, NEW n \in Nodes, NEW i \in Nat, NEW heard, GoTo(n, i, heard)
    PROVE  /\ at' \in [Nodes -> 0 .. N] /\ \A m \in Nodes : at'[m] # m
           /\ status' \in [Nodes -> {"out", "drain", "poll", "wait", "end", "leave", "dead"}]
           /\ \A m \in Nodes \ {n} : at'[m] = at[m] /\ status'[m] = status[m]
           /\ status'[n] \in {"end", "poll"}
           /\ status'[n] = "poll" => at'[n] \in Peers(n)
<1> DEFINE rest == {p \in Unheard(n, heard) : p > i}
           next == IF rest = {} THEN 0 ELSE CHOOSE p \in rest : \A q \in rest : p <= q
<1>1. rest \subseteq Peers(n) /\ Peers(n) \subseteq Nodes /\ Nodes \subseteq Nat
  BY DEF Unheard, Peers, Nodes
<1>2. rest # {} => next \in rest
  <2>1. rest # {} => \E p \in rest : \A q \in rest : p <= q
    <3> HIDE DEF rest
    <3> QED BY <1>1, Least
  <2> HIDE DEF rest
  <2> QED BY <2>1
<1>3. next \in 0 .. N /\ next # n
  <2>1. next = 0 \/ next \in rest
    BY <1>2
  <2> HIDE DEF next, rest
  <2>2. N \in Nat /\ n \in Nat /\ n > 0
    BY DEF Nodes
  <2>3. CASE next = 0
    BY <2>2, <2>3
  <2>4. CASE next \in rest
    <3>1. next \in Nodes /\ next # n
      BY <1>1, <2>4 DEF Peers
    <3> QED BY <2>2, <3>1 DEF Nodes
  <2> QED BY <2>1, <2>3, <2>4
<1>4. /\ at' = [at EXCEPT ![n] = next]
      /\ status' = [status EXCEPT ![n] = IF rest = {} THEN "end" ELSE "poll"]
  BY DEF GoTo
<1> HIDE DEF next, rest
<1>5. at' \in [Nodes -> 0 .. N] /\ \A m \in Nodes : at'[m] # m
  BY <1>3, <1>4 DEF TypeOK
<1>6. /\ status' \in [Nodes -> {"out", "drain", "poll", "wait", "end", "leave", "dead"}]
      /\ \A m \in Nodes \ {n} : at'[m] = at[m] /\ status'[m] = status[m]
      /\ status'[n] \in {"end", "poll"}
  BY <1>4 DEF TypeOK
<1>7. status'[n] = "poll" => at'[n] \in Peers(n)
  BY <1>1, <1>2, <1>4 DEF TypeOK
<1> QED BY <1>5, <1>6, <1>7

LEMMA DrainedFacts ==
    ASSUME TypeOK, NEW n \in Nodes
    PROVE  /\ Drained(n) \in [Nodes -> Rounds]
           /\ \A p \in Nodes, c \in Rounds : Drained(n)[p] >= c <=> Knows(n, p, c)
<1> SUFFICES ASSUME NEW p \in Nodes
             PROVE  /\ Drained(n)[p] \in Rounds
                    /\ \A c \in Rounds : Drained(n)[p] >= c <=> Knows(n, p, c)
  BY DEF Drained
<1> DEFINE all == {s[2] : s \in {t \in seen[n] : t[1] = p}} \cup {known[n][p]}
           top == CHOOSE c \in all : \A d \in all : Later(c, d) = c
<1>1. Drained(n)[p] = top
  BY DEF Drained
<1>2. all \subseteq Rounds /\ known[n][p] \in all /\ MaxRounds \in Nat
  BY DEF TypeOK
<1>3. top \in all /\ \A d \in all : d <= top
  <2> HIDE DEF all
  <2>1. PICK m \in all : \A d \in all : d <= m
    BY <1>2, Greatest DEF Rounds
  <2>2. \A d \in all : Later(m, d) = m
    BY <1>2, <2>1 DEF Later, Rounds
  <2>3. top \in all /\ \A d \in all : Later(top, d) = top
    BY <2>2
  <2> HIDE DEF top
  <2> QED BY <1>2, <2>3 DEF Later, Rounds
<1>4. ASSUME NEW c \in Rounds PROVE top >= c <=> \E d \in all : d >= c
  <2> HIDE DEF top, all
  <2> QED BY <1>2, <1>3, <1>4 DEF Rounds
<1>5. ASSUME NEW c \in Rounds PROVE (\E d \in all : d >= c) <=> Knows(n, p, c)
  BY <1>5 DEF Knows
<1> HIDE DEF top, all
<1> QED BY <1>1, <1>2, <1>3, <1>4, <1>5

LEMMA DeadFacts ==
    ASSUME NEW e \in Polls, NEW n \in Nodes
    PROVE  /\ Dead(e, n) \in Polls
           /\ Dead(e, n).from = e.from /\ Dead(e, n).clock = e.clock
           /\ Dead(e, n).live <=> e.live /\ e.from # n
<1>1. e # None
  BY PollIsSome
<1> QED BY <1>1 DEF Dead, Open, Polls

LEMMA HangupFacts ==
    ASSUME TypeOK, NEW n \in Nodes, Hangup(n)
    PROVE  /\ queue' \in [Nodes -> Seq(Polls)]
           /\ serving' \in [Nodes -> Polls \cup {None}]
           /\ \A p \in Nodes : \A i \in 1 .. Len(queue'[p]) :
                  i \in 1 .. Len(queue[p]) /\ queue'[p][i] = Dead(queue[p][i], n)
           /\ \A p \in Nodes : serving'[p] # None =>
                  serving[p] # None /\ serving'[p] = Dead(serving[p], n)
           /\ \A p \in Nodes : (status'[n] # "dead" \/ p # n) /\ serving[p] # None =>
                  serving'[p] # None
           /\ status'[n] = "dead" => serving'[n] = None
<1>1. Dead(None, n) = None
  BY DEF Dead, Open
<1>2. ASSUME NEW p \in Nodes
      PROVE  /\ queue'[p] \in Seq(Polls)
             /\ \A i \in 1 .. Len(queue'[p]) :
                    i \in 1 .. Len(queue[p]) /\ queue'[p][i] = Dead(queue[p][i], n)
  <2> DEFINE q == [i \in DOMAIN queue[p] |-> Dead(queue[p][i], n)]
  <2>1. queue[p] \in Seq(Polls) /\ DOMAIN queue[p] = 1 .. Len(queue[p]) /\ Len(queue[p]) \in Nat
    BY DEF TypeOK
  <2>2. \A i \in 1 .. Len(queue[p]) : queue[p][i] \in Polls
    BY <2>1
  <2>3. q \in [1 .. Len(queue[p]) -> Polls]
    BY <2>1, <2>2, DeadFacts
  <2>4. q \in Seq(Polls) /\ Len(q) = Len(queue[p])
    <3> HIDE DEF q
    <3> QED BY <2>1, <2>3
  <2>5. queue'[p] = <<>> \/ queue'[p] = q
    BY DEF Hangup
  <2>6. \A i \in 1 .. Len(queue[p]) : q[i] = Dead(queue[p][i], n)
    BY <2>1
  <2> HIDE DEF q
  <2>7. CASE queue'[p] = <<>>
    BY <2>7
  <2>8. CASE queue'[p] = q
    BY <2>4, <2>6, <2>8
  <2> QED BY <2>5, <2>7, <2>8
<1>3. ASSUME NEW p \in Nodes
      PROVE  /\ serving'[p] \in Polls \cup {None}
             /\ serving'[p] # None => serving[p] # None /\ serving'[p] = Dead(serving[p], n)
             /\ (status'[n] # "dead" \/ p # n) /\ serving[p] # None => serving'[p] # None
  <2>1. serving[p] \in Polls \cup {None}
    BY DEF TypeOK
  <2>2. serving'[p] = IF p = n /\ status'[n] = "dead" THEN None ELSE Dead(serving[p], n)
    BY DEF Hangup
  <2>3. serving[p] \in Polls => Dead(serving[p], n) \in Polls /\ Dead(serving[p], n) # None
    BY DeadFacts, PollIsSome
  <2> QED BY <1>1, <2>1, <2>2, <2>3
<1>4. status'[n] = "dead" => serving'[n] = None
  BY DEF Hangup
<1>5. queue' = [p \in Nodes |-> queue'[p]] /\ serving' = [p \in Nodes |-> serving'[p]]
  BY DEF Hangup
<1>6. queue' \in [Nodes -> Seq(Polls)] /\ serving' \in [Nodes -> Polls \cup {None}]
  BY <1>2, <1>3, <1>5
<1> QED BY <1>2, <1>3, <1>4, <1>6

-----------------------------------------------------------------------------
(* Parts of the invariant that a step leaves alone.                        *)

LEMMA PollingKept ==
    ASSUME TypeOK, Polling, queue' = queue, serving' = serving, gaveUp \subseteq gaveUp',
           \A n \in Nodes : /\ clock'[n] \in Nat /\ clock[n] <= clock'[n]
                            /\ status[n] = "dead" => status'[n] = "dead",
           \A n, p \in Nodes : Waiting(n, p) => Waiting(n, p)' /\ clock'[n] = clock[n],
           \A n, p \in Nodes, c \in Rounds : Knows(n, p, c) => Knows(n, p, c)'
    PROVE  Polling'
<1>1. ASSUME NEW p \in Nodes, NEW e \in Polls, GoodPoll(e, p)
      PROVE  /\ e.from # p
             /\ e.clock <= clock'[e.from]
             /\ e.live => Waiting(e.from, p)' /\ e.clock = clock'[e.from]
             /\ ~e.live => status'[e.from] = "dead" \/ <<e.from, p, e.clock>> \in gaveUp'
  <2>1. e.from \in Nodes /\ e.clock \in Nat /\ clock[e.from] \in Nat /\ e.live \in BOOLEAN
    BY DEF Polls, Rounds, TypeOK
  <2>2. e.from # p /\ e.clock <= clock'[e.from]
    BY <1>1, <2>1 DEF GoodPoll
  <2>3. e.live => Waiting(e.from, p)' /\ e.clock = clock'[e.from]
    BY <1>1, <2>1 DEF GoodPoll
  <2>4. ~e.live => status'[e.from] = "dead" \/ <<e.from, p, e.clock>> \in gaveUp'
    BY <1>1, <2>1 DEF GoodPoll
  <2> QED BY <2>2, <2>3, <2>4
<1>2. ASSUME NEW p \in Nodes, NEW i \in 1 .. Len(queue[p])
      PROVE  GoodPoll(queue[p][i], p)'
  <2>1. queue[p][i] \in Polls
    BY DEF TypeOK
  <2>2. GoodPoll(queue[p][i], p)
    BY DEF Polling
  <2> QED BY <1>1, <2>1, <2>2 DEF GoodPoll, Waiting
<1>3. ASSUME NEW p \in Nodes, serving[p] # None
      PROVE  GoodPoll(serving[p], p)' /\ Knows(p, serving[p].from, serving[p].clock)'
  <2>1. serving[p] \in Polls
    BY <1>3 DEF TypeOK
  <2>2. GoodPoll(serving[p], p) /\ Knows(p, serving[p].from, serving[p].clock)
    BY <1>3 DEF Polling
  <2>3. serving[p].from \in Nodes /\ serving[p].clock \in Rounds
    BY <2>1 DEF Polls
  <2>4. GoodPoll(serving[p], p)'
    BY <1>1, <2>1, <2>2 DEF GoodPoll, Waiting
  <2>5. Knows(p, serving[p].from, serving[p].clock)'
    BY <2>2, <2>3 DEF Knows
  <2> QED BY <2>4, <2>5
<1> QED BY <1>2, <1>3 DEF Polling

LEMMA SingleKept ==
    ASSUME Single, queue' = queue, serving' = serving PROVE Single'
BY DEF Single

LEMMA LeftKept ==
    ASSUME TypeOK, Left,
           \A n \in Nodes : status'[n] \in {"leave", "out"} =>
               status[n] \in {"leave", "out"} /\ clock'[n] = clock[n] /\ known'[n] = known[n]
    PROVE  Left'
BY DEF Left, Peers

LEMMA GenuineKept ==
    ASSUME TypeOK, Genuine, known' = known,
           \A n \in Nodes : clock'[n] \in Nat /\ clock[n] <= clock'[n] /\ seen'[n] \subseteq seen[n]
    PROVE  Genuine'
<1>1. ASSUME NEW n \in Nodes, NEW p \in Nodes PROVE known'[n][p] <= clock'[p]
  BY DEF Genuine, TypeOK, Rounds
<1>2. ASSUME NEW n \in Nodes, NEW s \in seen'[n] PROVE s[2] <= clock'[s[1]]
  <2>1. s \in seen[n] /\ s[1] \in Nodes /\ s[2] \in Rounds
    BY DEF TypeOK
  <2>2. s[2] <= clock[s[1]] /\ clock[s[1]] \in Nat
    BY <2>1 DEF Genuine, TypeOK, Rounds
  <2> QED BY <2>1, <2>2 DEF Rounds
<1> QED BY <1>1, <1>2 DEF Genuine

(* What n has waiting for it, or will get, while nothing else moves.       *)
LEMMA RepliesKept ==
    ASSUME TypeOK, Replies,
           \A n \in Nodes : reply'[n] # 0 =>
               /\ reply'[n] = reply[n] /\ at'[n] = at[n]
               /\ status'[n] = status[n] /\ clock'[n] = clock[n],
           \A n \in Nodes : clock'[n] \in Nat /\ clock[n] <= clock'[n],
           \A n \in Nodes : Inside(n)' /\ clock'[n] = clock[n] => Inside(n),
           \A n, p \in Nodes, c \in Rounds : Inside(n)' /\ Knows(n, p, c) => Knows(n, p, c)',
           \A n \in Nodes : status[n] = "wait" => at[n] \in Peers(n)
    PROVE  Replies'
<1> SUFFICES ASSUME NEW n \in Nodes, reply'[n] # 0
             PROVE  /\ status'[n] = "wait"
                    /\ reply'[n] <= clock'[at'[n]]
                    /\ Inside(at[n])' /\ reply'[n] = clock'[at'[n]] => Knows(at[n], n, clock[n])'
  BY DEF Replies
<1>1. /\ reply[n] # 0 /\ reply'[n] = reply[n] /\ at'[n] = at[n]
      /\ status'[n] = status[n] /\ clock'[n] = clock[n]
  OBVIOUS
<1>2. /\ status[n] = "wait" /\ reply[n] <= clock[at[n]]
      /\ Inside(at[n]) /\ reply[n] = clock[at[n]] => Knows(at[n], n, clock[n])
  BY <1>1 DEF Replies
<1>3. PICK p \in Nodes, c \in Rounds : p = at[n] /\ c = clock[n]
  BY <1>2 DEF Peers, TypeOK
<1>4. at'[n] = p /\ clock'[n] = c /\ reply[n] \in Nat /\ clock[p] \in Nat
  BY <1>1, <1>3 DEF TypeOK, Rounds
<1>5. reply'[n] <= clock'[p]
  BY <1>1, <1>2, <1>3, <1>4
<1>6. ASSUME Inside(p)', reply'[n] = clock'[p]
      PROVE  Knows(p, n, c)'
  <2>1. clock'[p] = clock[p]
    BY <1>1, <1>2, <1>3, <1>4, <1>6
  <2>2. Inside(p)
    BY <1>6, <2>1
  <2>3. Knows(p, n, c)
    BY <1>1, <1>2, <1>3, <1>6, <2>1, <2>2
  <2> QED BY <1>6, <2>3
<1> QED BY <1>1, <1>2, <1>4, <1>5, <1>6 DEF Inside, Knows

LEMMA MutualKept ==
    ASSUME TypeOK, Mutual, clock' = clock, gaveUp \subseteq gaveUp', ahead \subseteq ahead',
           \A n \in Nodes : (Inside(n)' => Inside(n)) /\ (status[n] = "dead" => status'[n] = "dead"),
           \A n, p \in Nodes, c \in Rounds :
               status'[n] # "dead" /\ c = clock[n] /\ Knows(n, p, c)' => Knows(n, p, c),
           \A n, p \in Nodes : Inside(p)' /\ Heard(p, n) => Heard(p, n)',
           \A n, p \in Nodes :
               Inside(p)' /\ status'[n] # "dead" /\ clock[n] = clock[p] /\ Answering(n, p) =>
                   Answering(n, p)' \/ Heard(p, n)' \/ <<p, n, clock[p]>> \in gaveUp'
    PROVE  Mutual'
<1> SUFFICES ASSUME NEW n \in Nodes, NEW p \in Peers(n),
                    clock[p] = clock[n], Inside(p)', status'[n] # "dead",
                    Knows(n, p, clock[n])'
             PROVE  \/ Heard(p, n)'
                    \/ <<p, n, clock[p]>> \in gaveUp' \cup ahead'
                    \/ Answering(n, p)'
  BY DEF Mutual, Peers
<1>0. p \in Nodes /\ p # n /\ clock[n] \in Rounds
  BY DEF Peers, TypeOK
<1>1. PICK c \in Rounds : c = clock[n]
  BY <1>0
<1>2. Knows(n, p, c)'
  BY <1>1 DEF Knows
<1>3. Knows(n, p, c)
  BY <1>0, <1>1, <1>2
<1>4. Inside(p) /\ status[n] # "dead"
  BY <1>0
<1>5. Heard(p, n) \/ <<p, n, clock[p]>> \in gaveUp \cup ahead \/ Answering(n, p)
  BY <1>1, <1>3, <1>4 DEF Mutual
<1> QED BY <1>0, <1>5

-----------------------------------------------------------------------------
(* The steps of the calling thread.                                        *)

LEMMA EnterStep == ASSUME IInv, NEW m \in Nodes, Enter(m) PROVE IInv'
<1>0. TypeOK /\ Control /\ Genuine /\ Polling /\ Single /\ Replies /\ Left /\ Mutual
  BY DEF IInv
<1>1. /\ status[m] = "out" /\ status'[m] = "drain"
      /\ resp[m] = "off" /\ resp'[m] = "check" /\ seen[m] = {} /\ serving[m] = None
      /\ clock'[m] = clock[m] + 1 /\ clock[m] \in Nat
      /\ \A n \in Nodes \ {m} :
             clock'[n] = clock[n] /\ status'[n] = status[n] /\ resp'[n] = resp[n]
      /\ known' = known /\ at' = at /\ reply' = reply /\ serving' = serving
      /\ queue' = queue /\ seen' = seen /\ gaveUp' = gaveUp /\ ahead \subseteq ahead'
  BY <1>0 DEF Enter, TypeOK, Control, Rounds
<1>2. TypeOK'
  <2>1. clock' \in [Nodes -> Rounds]
    BY <1>0 DEF Enter, TypeOK, Rounds
  <2>2. ahead' \subseteq Nodes \X Nodes \X Rounds
    <3>1. clock[m] + 1 \in Rounds
      BY <1>0 DEF Enter, TypeOK, Rounds
    <3>2. \A p \in Peers(m) : <<p, m, clock[m] + 1>> \in Nodes \X Nodes \X Rounds
      BY <3>1 DEF Peers
    <3> QED BY <1>0, <3>2 DEF Enter, TypeOK
  <2>3. status' \in [Nodes -> {"out", "drain", "poll", "wait", "end", "leave", "dead"}]
    BY <1>0 DEF Enter, TypeOK
  <2>4. resp' \in [Nodes -> {"off", "check", "accept", "answer"}]
    BY <1>0 DEF Enter, TypeOK
  <2> QED BY <1>0, <1>1, <2>1, <2>2, <2>3, <2>4 DEF TypeOK
<1>3. Control'
  <2> SUFFICES ASSUME NEW n \in Nodes
               PROVE  /\ status'[n] \in {"poll", "wait"} => at'[n] \in Peers(n)
                      /\ resp'[n] = "answer" <=> serving'[n] # None
                      /\ status'[n] = "out" => resp'[n] = "off" /\ seen'[n] = {}
                      /\ Inside(n)' => clock'[n] > 0
    BY DEF Control, Peers
  <2>1. CASE n = m
    BY <1>1, <2>1 DEF Inside
  <2>2. CASE n # m
    BY <1>0, <1>1, <2>2 DEF Control, Inside
  <2> QED BY <2>1, <2>2
<1>4. \A n \in Nodes : clock'[n] \in Nat /\ clock[n] <= clock'[n] /\ clock[n] \in Nat
  <2> TAKE n \in Nodes
  <2>1. CASE n = m
    BY <1>1, <2>1
  <2>2. CASE n # m
    BY <1>0, <1>1, <2>2 DEF TypeOK, Rounds
  <2> QED BY <2>1, <2>2
<1>5. \A n, p \in Nodes : Knows(n, p, clock[n])' => Knows(n, p, clock'[n])
  BY <1>1 DEF Knows
<1>6. Genuine'
  BY <1>0, <1>1, <1>4, GenuineKept
<1>7. Polling'
  <2>1. \A n, p \in Nodes : Waiting(n, p) => Waiting(n, p)' /\ clock'[n] = clock[n]
    BY <1>1 DEF Waiting
  <2>2. \A n, p \in Nodes, c \in Rounds : Knows(n, p, c) => Knows(n, p, c)'
    BY <1>1 DEF Knows
  <2>3. \A n \in Nodes : status[n] = "dead" => status'[n] = "dead"
    BY <1>1
  <2> QED BY <1>0, <1>1, <1>4, <2>1, <2>2, <2>3, PollingKept
<1>8. Single'
  BY <1>0, <1>1, SingleKept
<1>9. Replies'
  <2>1. \A n \in Nodes : reply'[n] # 0 =>
               /\ reply'[n] = reply[n] /\ at'[n] = at[n]
               /\ status'[n] = status[n] /\ clock'[n] = clock[n]
    BY <1>0, <1>1 DEF Replies
  <2>2. \A n \in Nodes : Inside(n)' /\ clock'[n] = clock[n] => Inside(n)
    BY <1>1 DEF Inside
  <2>3. \A n, p \in Nodes, c \in Rounds : Inside(n)' /\ Knows(n, p, c) => Knows(n, p, c)'
    BY <1>1 DEF Knows
  <2>4. \A n \in Nodes : status[n] = "wait" => at[n] \in Peers(n)
    BY <1>0 DEF Control
  <2> QED BY <1>0, <1>4, <2>1, <2>2, <2>3, <2>4, RepliesKept
<1>10. Left'
  <2>1. \A n \in Nodes : status'[n] \in {"leave", "out"} =>
               status[n] \in {"leave", "out"} /\ clock'[n] = clock[n] /\ known'[n] = known[n]
    BY <1>1
  <2> QED BY <1>0, <2>1, LeftKept
<1>11. Mutual'
  <2> SUFFICES ASSUME NEW n \in Nodes, NEW p \in Peers(n),
                      clock'[p] = clock'[n], Inside(p)', status'[n] # "dead",
                      Knows(n, p, clock'[n])
               PROVE  \/ Heard(p, n)'
                      \/ <<p, n, clock'[p]>> \in gaveUp' \cup ahead'
                      \/ Answering(n, p)'
    BY <1>5 DEF Mutual, Peers
  <2>0. p \in Nodes /\ p # n
    BY DEF Peers
  <2>1. CASE n = m
    <3>1. known[m][p] > clock[m]
      BY <1>1, <2>1, <2>0, <1>0 DEF Knows, TypeOK, Rounds
    <3>2. <<p, m, clock[m] + 1>> \in ahead'
      BY <3>1, <2>1 DEF Enter
    <3> QED BY <1>1, <2>1, <3>2
  <2>2. CASE p = m
    <3>1. known[n][m] <= clock[m] /\ \A s \in seen[n] : s[1] = m => s[2] <= clock[m]
      BY <1>0, <2>2 DEF Genuine
    <3>2. \A s \in seen[n] : s[2] \in Nat
      BY <1>0 DEF TypeOK, Rounds
    <3>3. known[n][m] \in Nat
      BY <1>0 DEF TypeOK, Rounds
    <3>4. ~Knows(n, m, clock[m] + 1)
      BY <1>1, <3>1, <3>2, <3>3 DEF Knows
    <3> QED BY <1>1, <2>2, <3>4
  <2>3. CASE n # m /\ p # m
    <3>1. clock[p] = clock[n] /\ Inside(p) /\ status[n] # "dead" /\ Knows(n, p, clock[n])
      BY <1>1, <2>0, <2>3 DEF Inside
    <3>2. Heard(p, n) \/ <<p, n, clock[p]>> \in gaveUp \cup ahead \/ Answering(n, p)
      BY <1>0, <3>1 DEF Mutual
    <3> QED BY <1>1, <2>0, <2>3, <3>2 DEF Heard, Answering
  <2> QED BY <2>1, <2>2, <2>3
<1> QED BY <1>2, <1>3, <1>6, <1>7, <1>8, <1>9, <1>10, <1>11 DEF IInv

LEMMA DrainStep == ASSUME IInv, NEW m \in Nodes, Drain(m) PROVE IInv'
<1>0. TypeOK /\ Control /\ Genuine /\ Polling /\ Single /\ Replies /\ Left /\ Mutual
  BY DEF IInv
<1>1. /\ status[m] = "drain" /\ known'[m] = Drained(m) /\ seen'[m] = {}
      /\ known' \in [Nodes -> [Nodes -> Rounds]]
      /\ seen' \in [Nodes -> SUBSET (Nodes \X Rounds)]
      /\ \A n \in Nodes \ {m} : known'[n] = known[n] /\ seen'[n] = seen[n]
      /\ clock' = clock /\ reply' = reply /\ resp' = resp /\ serving' = serving
      /\ queue' = queue /\ gaveUp' = gaveUp /\ ahead' = ahead
  <2>1. Drained(m) \in [Nodes -> Rounds]
    BY <1>0, DrainedFacts
  <2> QED BY <1>0, <2>1 DEF Drain, TypeOK, history
<1>2. /\ at' \in [Nodes -> 0 .. N] /\ \A n \in Nodes : at'[n] # n
      /\ status' \in [Nodes -> {"out", "drain", "poll", "wait", "end", "leave", "dead"}]
      /\ \A n \in Nodes \ {m} : at'[n] = at[n] /\ status'[n] = status[n]
      /\ status'[m] \in {"end", "poll", "leave"}
      /\ status'[m] = "poll" => at'[m] \in Peers(m)
      /\ status'[m] = "leave" => Unheard(m, Drained(m)) = {}
  <2>1. CASE Unheard(m, Drained(m)) = {}
    BY <1>0, <2>1 DEF Drain, TypeOK
  <2>2. CASE Unheard(m, Drained(m)) # {}
    <3>1. GoTo(m, 0, Drained(m))
      BY <2>2 DEF Drain
    <3> QED BY <1>0, <3>1, GoToFacts
  <2> QED BY <2>1, <2>2
<1>3. \A n, p \in Nodes, c \in Rounds : Knows(n, p, c)' <=> Knows(n, p, c)
  <2> TAKE n \in Nodes, p \in Nodes, c \in Rounds
  <2>1. CASE n = m
    <3>1. Knows(n, p, c)' <=> Drained(m)[p] >= c
      BY <1>1, <2>1 DEF Knows
    <3> QED BY <1>0, <2>1, <3>1, DrainedFacts
  <2>2. CASE n # m
    BY <1>1, <2>2 DEF Knows
  <2> QED BY <2>1, <2>2
<1>4. \A n \in Nodes : clock'[n] \in Nat /\ clock[n] <= clock'[n] /\ clock[n] \in Rounds
  BY <1>0, <1>1 DEF TypeOK, Rounds
<1>5. TypeOK'
  BY <1>0, <1>1, <1>2 DEF TypeOK
<1>6. Control'
  BY <1>0, <1>1, <1>2 DEF Control, Inside, Peers
<1>7. Genuine'
  <2>1. ASSUME NEW n \in Nodes, NEW p \in Nodes PROVE known'[n][p] <= clock'[p]
    <3>1. CASE n = m
      <4>1. Drained(m)[p] \in Rounds /\ Drained(m)[p] >= Drained(m)[p]
        BY <1>0, DrainedFacts DEF Rounds
      <4>2. Knows(m, p, Drained(m)[p])
        BY <1>0, <4>1, DrainedFacts
      <4>3. known[m][p] <= clock[p] /\ known[m][p] \in Rounds
        BY <1>0 DEF Genuine, TypeOK
      <4>4. \A s \in seen[m] : s[1] = p => s[2] <= clock[p] /\ s[2] \in Rounds
        BY <1>0 DEF Genuine, TypeOK
      <4>5. Drained(m)[p] <= clock[p]
        BY <1>4, <4>1, <4>2, <4>3, <4>4 DEF Knows, Rounds
      <4> QED BY <1>1, <3>1, <4>5
    <3>2. CASE n # m
      BY <1>0, <1>1, <3>2 DEF Genuine
    <3> QED BY <3>1, <3>2
  <2>2. ASSUME NEW n \in Nodes, NEW s \in seen'[n] PROVE s[2] <= clock'[s[1]]
    BY <1>0, <1>1, <2>2 DEF Genuine
  <2> QED BY <2>1, <2>2 DEF Genuine
<1>8. Polling'
  <2>1. \A n, p \in Nodes : Waiting(n, p) => Waiting(n, p)' /\ clock'[n] = clock[n]
    BY <1>1, <1>2 DEF Waiting
  <2>2. \A n \in Nodes : status[n] = "dead" => status'[n] = "dead"
    BY <1>1, <1>2
  <2> QED BY <1>0, <1>1, <1>3, <1>4, <2>1, <2>2, PollingKept
<1>9. Single'
  BY <1>0, <1>1, SingleKept
<1>10. Replies'
  <2>1. \A n \in Nodes : reply'[n] # 0 =>
               /\ reply'[n] = reply[n] /\ at'[n] = at[n]
               /\ status'[n] = status[n] /\ clock'[n] = clock[n]
    BY <1>0, <1>1, <1>2 DEF Replies
  <2>2. \A n \in Nodes : Inside(n)' /\ clock'[n] = clock[n] => Inside(n)
    BY <1>1, <1>2 DEF Inside
  <2>3. \A n \in Nodes : status[n] = "wait" => at[n] \in Peers(n)
    BY <1>0 DEF Control
  <2> QED BY <1>0, <1>3, <1>4, <2>1, <2>2, <2>3, RepliesKept
<1>11. Left'
  <2>1. ASSUME NEW n \in Nodes, status'[n] \in {"leave", "out"}, NEW p \in Peers(n)
        PROVE  known'[n][p] >= clock'[n]
    <3>1. CASE n = m
      <4>1. Unheard(m, Drained(m)) = {} /\ p \in Peers(m) /\ p \in Nodes
        BY <1>2, <2>1, <3>1 DEF Peers
      <4>2. ~(Drained(m)[p] < clock[m])
        BY <4>1 DEF Unheard
      <4>3. Drained(m)[p] \in Rounds
        BY <1>0, <4>1, DrainedFacts
      <4> QED BY <1>1, <1>4, <3>1, <4>2, <4>3 DEF Rounds
    <3>2. CASE n # m
      BY <1>0, <1>1, <1>2, <2>1, <3>2 DEF Left
    <3> QED BY <3>1, <3>2
  <2> QED BY <2>1 DEF Left, Peers
<1>12. Mutual'
  <2> SUFFICES ASSUME NEW n \in Nodes, NEW p \in Peers(n),
                      clock[p] = clock[n], Inside(p)', status'[n] # "dead",
                      Knows(n, p, clock[n])'
               PROVE  \/ Heard(p, n)'
                      \/ <<p, n, clock[p]>> \in gaveUp \cup ahead
                      \/ Answering(n, p)
    BY <1>1 DEF Mutual, Peers, Answering
  <2>0. p \in Nodes /\ p # n /\ clock[n] \in Rounds /\ clock[p] \in Rounds
    BY <1>4 DEF Peers
  <2>1. PICK c \in Rounds : c = clock[n]
    BY <2>0
  <2>2. Knows(n, p, c)'
    BY <1>1, <2>1 DEF Knows
  <2>3. Knows(n, p, c)
    BY <1>3, <2>0, <2>2
  <2>4. Inside(p) /\ status[n] # "dead"
    BY <1>1, <1>2, <2>0 DEF Inside
  <2>5. Heard(p, n) \/ <<p, n, clock[p]>> \in gaveUp \cup ahead \/ Answering(n, p)
    BY <1>0, <2>1, <2>3, <2>4 DEF Mutual
  <2>6. ASSUME Heard(p, n) PROVE Heard(p, n)'
    <3>1. CASE Knows(p, n, c)
      <4>1. Knows(p, n, c)'
        BY <1>3, <2>0, <3>1
      <4> QED BY <1>1, <2>1, <4>1 DEF Knows, Heard
    <3>2. CASE status[p] = "wait" /\ at[p] = n /\ reply[p] >= clock[p]
      BY <1>1, <1>2, <2>0, <3>2 DEF Heard
    <3> QED BY <2>1, <2>6, <3>1, <3>2 DEF Heard, Knows
  <2> QED BY <2>5, <2>6
<1> QED BY <1>5, <1>6, <1>7, <1>8, <1>9, <1>10, <1>11, <1>12 DEF IInv

LEMMA PollStep == ASSUME IInv, NEW m \in Nodes, Poll(m) PROVE IInv'
<1>0. TypeOK /\ Control /\ Genuine /\ Polling /\ Single /\ Replies /\ Left /\ Mutual
  BY DEF IInv
<1>1. /\ status[m] = "poll" /\ at[m] \in Peers(m) /\ reply[m] = 0
      /\ clock' = clock /\ known' = known /\ reply' = reply /\ resp' = resp
      /\ serving' = serving /\ seen' = seen /\ gaveUp' = gaveUp /\ ahead' = ahead
  BY <1>0 DEF Poll, Control, Replies, history
<1> DEFINE new == [from |-> m, clock |-> clock[m], live |-> TRUE]
<1>2. PICK p \in Nodes : p = at[m] /\ p # m
  BY <1>1 DEF Peers
<1>3. /\ at' \in [Nodes -> 0 .. N] /\ \A n \in Nodes : at'[n] # n
      /\ status' \in [Nodes -> {"out", "drain", "poll", "wait", "end", "leave", "dead"}]
      /\ \A n \in Nodes \ {m} : at'[n] = at[n] /\ status'[n] = status[n]
      /\ \/ /\ queue' = queue
            /\ status'[m] \in {"end", "poll"} /\ (status'[m] = "poll" => at'[m] \in Peers(m))
         \/ /\ queue' = [queue EXCEPT ![p] = Append(@, new)]
            /\ status'[m] = "wait" /\ at'[m] = p
  <2>1. CASE Inside(p)
    BY <1>0, <1>2, <2>1 DEF Poll, TypeOK
  <2>2. CASE ~Inside(p)
    <3>1. GoTo(m, p, known[m]) /\ queue' = queue
      BY <1>2, <2>2 DEF Poll
    <3>2. p \in Nat
      BY DEF Nodes
    <3> QED BY <1>0, <3>1, <3>2, GoToFacts
  <2> QED BY <2>1, <2>2
<1>4. new \in Polls /\ new.from = m /\ new.clock = clock[m] /\ new.live
  BY <1>0 DEF Polls, TypeOK
<1>5. /\ queue' \in [Nodes -> Seq(Polls)]
      /\ \A n \in Nodes : \A i \in 1 .. Len(queue'[n]) :
             \/ i \in 1 .. Len(queue[n]) /\ queue'[n][i] = queue[n][i]
             \/ /\ n = p /\ i = Len(queue[n]) + 1 /\ queue'[n][i] = new
                /\ status'[m] = "wait" /\ at'[m] = p
  <2> HIDE DEF new
  <2>1. CASE queue' = queue
    BY <1>0, <2>1 DEF TypeOK
  <2>2. CASE queue' = [queue EXCEPT ![p] = Append(@, new)] /\ status'[m] = "wait" /\ at'[m] = p
    <3>1. queue \in [Nodes -> Seq(Polls)]
      BY <1>0 DEF TypeOK
    <3>2. queue'[p] = Append(queue[p], new) /\ \A n \in Nodes \ {p} : queue'[n] = queue[n]
      BY <2>2, <3>1
    <3>3. /\ Append(queue[p], new) \in Seq(Polls)
          /\ Len(Append(queue[p], new)) = Len(queue[p]) + 1 /\ Len(queue[p]) \in Nat
          /\ \A i \in 1 .. Len(queue[p]) : Append(queue[p], new)[i] = queue[p][i]
          /\ Append(queue[p], new)[Len(queue[p]) + 1] = new
      BY <1>4, <3>1
    <3>4. queue' \in [Nodes -> Seq(Polls)]
      BY <2>2, <3>1, <3>3
    <3>5. ASSUME NEW n \in Nodes, NEW i \in 1 .. Len(queue'[n])
          PROVE \/ i \in 1 .. Len(queue[n]) /\ queue'[n][i] = queue[n][i]
                \/ n = p /\ i = Len(queue[n]) + 1 /\ queue'[n][i] = new
      <4>1. CASE n # p
        BY <3>2, <4>1
      <4>2. CASE n = p
        BY <3>2, <3>3, <4>2
      <4> QED BY <4>1, <4>2
    <3> QED BY <2>2, <3>4, <3>5
  <2> QED BY <1>3, <2>1, <2>2
<1>6. \A n \in Nodes : clock'[n] \in Nat /\ clock[n] <= clock'[n] /\ clock[n] \in Rounds
  BY <1>0, <1>1 DEF TypeOK, Rounds
<1>7. TypeOK'
  BY <1>0, <1>1, <1>3, <1>5 DEF TypeOK
<1>8. Control'
  BY <1>0, <1>1, <1>2, <1>3 DEF Control, Inside, Peers
<1>9. Genuine'
  BY <1>0, <1>1, <1>6, GenuineKept
<1> HIDE DEF new
<1>10. \A n, q \in Nodes, c \in Rounds : Knows(n, q, c)' <=> Knows(n, q, c)
  BY <1>1 DEF Knows
<1>11. \A n, q \in Nodes : Waiting(n, q) => Waiting(n, q)'
  BY <1>1, <1>3 DEF Waiting
<1>12. ASSUME NEW n \in Nodes, NEW e \in Polls, GoodPoll(e, n)
       PROVE  /\ e.from # n
              /\ e.clock <= clock'[e.from]
              /\ e.live => Waiting(e.from, n)' /\ e.clock = clock'[e.from]
              /\ ~e.live => status'[e.from] = "dead" \/ <<e.from, n, e.clock>> \in gaveUp'
  <2>1. e.from \in Nodes
    BY DEF Polls
  <2> QED BY <1>1, <1>3, <1>11, <1>12, <2>1 DEF GoodPoll
<1>13. Polling'
  <2>1. ASSUME NEW n \in Nodes, NEW i \in 1 .. Len(queue'[n]) PROVE GoodPoll(queue[n][i], n)'
    <3>1. CASE i \in 1 .. Len(queue[n]) /\ queue'[n][i] = queue[n][i]
      <4>1. queue[n][i] \in Polls /\ GoodPoll(queue[n][i], n)
        BY <1>0, <3>1 DEF TypeOK, Polling
      <4> QED BY <1>12, <3>1, <4>1 DEF GoodPoll, Waiting
    <3>2. CASE n = p /\ queue'[n][i] = new /\ status'[m] = "wait" /\ at'[m] = p
      BY <1>1, <1>2, <1>4, <1>6, <3>2 DEF GoodPoll, Waiting, Rounds
    <3> QED BY <1>5, <3>1, <3>2
  <2>2. ASSUME NEW n \in Nodes, serving[n] # None
        PROVE  GoodPoll(serving[n], n)' /\ Knows(n, serving[n].from, serving[n].clock)'
    <3>1. serving[n] \in Polls /\ GoodPoll(serving[n], n)
      BY <1>0, <2>2 DEF TypeOK, Polling
    <3>2. Knows(n, serving[n].from, serving[n].clock)
      BY <1>0, <2>2 DEF Polling
    <3>3. GoodPoll(serving[n], n)'
      BY <1>1, <1>12, <3>1 DEF GoodPoll, Waiting
    <3> QED BY <1>1, <3>2, <3>3 DEF Knows
  <2> QED BY <1>1, <2>1, <2>2 DEF Polling
<1>14. Single'
  <2>1. ASSUME NEW n \in Nodes, NEW i \in 1 .. Len(queue[n])
        PROVE  ~(queue[n][i].live /\ queue[n][i].from = m)
    <3>1. GoodPoll(queue[n][i], n)
      BY <1>0 DEF Polling
    <3> QED BY <1>1, <3>1 DEF GoodPoll, Waiting
  <2>2. ASSUME NEW n \in Nodes, serving[n] # None PROVE ~(serving[n].live /\ serving[n].from = m)
    BY <1>0, <1>1, <2>2, ZenonT(30) DEF Polling, GoodPoll, Waiting
  <2>3. ASSUME NEW n \in Nodes, NEW i \in 1 .. Len(queue'[n]), NEW j \in 1 .. Len(queue'[n]),
               queue'[n][i].live, queue'[n][j].live, i # j
        PROVE  queue'[n][i].from # queue'[n][j].from
    <3>1. CASE i \in 1 .. Len(queue[n]) /\ queue'[n][i] = queue[n][i]
      <4>1. CASE j \in 1 .. Len(queue[n]) /\ queue'[n][j] = queue[n][j]
        BY <1>0, <2>3, <3>1, <4>1 DEF Single
      <4>2. CASE queue'[n][j] = new
        BY <1>4, <2>1, <2>3, <3>1, <4>2
      <4> QED BY <1>5, <4>1, <4>2
    <3>2. CASE i = Len(queue[n]) + 1 /\ queue'[n][i] = new
      <4>1. j \in 1 .. Len(queue[n]) /\ queue'[n][j] = queue[n][j]
        BY <1>5, <2>3, <3>2
      <4> QED BY <1>4, <2>1, <2>3, <3>2, <4>1
    <3> QED BY <1>5, <3>1, <3>2
  <2>4. ASSUME NEW n \in Nodes, NEW i \in 1 .. Len(queue'[n]),
               serving[n] # None, serving[n].live, queue'[n][i].live
        PROVE  serving[n].from # queue'[n][i].from
    <3>1. CASE i \in 1 .. Len(queue[n]) /\ queue'[n][i] = queue[n][i]
      BY <1>0, <2>4, <3>1 DEF Single
    <3>2. CASE queue'[n][i] = new
      BY <1>4, <2>2, <2>4, <3>2
    <3> QED BY <1>5, <3>1, <3>2
  <2> QED BY <1>1, <2>3, <2>4 DEF Single
<1>15. Replies'
  <2>1. \A n \in Nodes : reply'[n] # 0 =>
               /\ reply'[n] = reply[n] /\ at'[n] = at[n]
               /\ status'[n] = status[n] /\ clock'[n] = clock[n]
    BY <1>1, <1>3
  <2>2. \A n \in Nodes : Inside(n)' /\ clock'[n] = clock[n] => Inside(n)
    BY <1>1, <1>3 DEF Inside
  <2>3. \A n \in Nodes : status[n] = "wait" => at[n] \in Peers(n)
    BY <1>0 DEF Control
  <2> QED BY <1>0, <1>6, <1>10, <2>1, <2>2, <2>3, RepliesKept
<1>16. Left'
  <2>1. \A n \in Nodes : status'[n] \in {"leave", "out"} =>
               status[n] \in {"leave", "out"} /\ clock'[n] = clock[n] /\ known'[n] = known[n]
    BY <1>1, <1>3
  <2> QED BY <1>0, <2>1, LeftKept
<1>17. Mutual'
  <2>1. \A n \in Nodes : (Inside(n)' => Inside(n)) /\ (status[n] = "dead" => status'[n] = "dead")
    BY <1>1, <1>3 DEF Inside
  <2>2. \A n, q \in Nodes : Heard(q, n) => Heard(q, n)'
    BY <1>1, <1>3 DEF Heard
  <2>3. \A n, q \in Nodes : Answering(n, q) => Answering(n, q)'
    BY <1>1 DEF Answering
  <2> QED BY <1>0, <1>1, <1>10, <2>1, <2>2, <2>3, MutualKept
<1> QED BY <1>7, <1>8, <1>9, <1>13, <1>14, <1>15, <1>16, <1>17 DEF IInv

LEMMA PollDoneStep == ASSUME IInv, NEW m \in Nodes, PollDone(m) PROVE IInv'
<1>0. TypeOK /\ Control /\ Genuine /\ Polling /\ Single /\ Replies /\ Left /\ Mutual
  BY DEF IInv
<1>1. PICK q \in Nodes : q = at[m] /\ q # m
  <2>1. at[m] \in Peers(m)
    BY <1>0 DEF PollDone, Control
  <2> QED BY <2>1 DEF Peers
<1>2. /\ status[m] = "wait" /\ reply[m] # 0 /\ reply[m] \in Rounds /\ known[m][q] \in Rounds
      /\ reply[m] <= clock[q]
      /\ Inside(q) /\ reply[m] = clock[q] => Knows(q, m, clock[m])
  BY <1>0, <1>1 DEF PollDone, Replies, TypeOK
<1> DEFINE top == Later(known[m][q], reply[m])
<1>3. top \in Rounds /\ top >= known[m][q] /\ top >= reply[m] /\ (top = known[m][q] \/ top = reply[m])
  BY <1>2 DEF Later, Rounds
<1>4. /\ known'[m] = [known[m] EXCEPT ![q] = top]
      /\ known' \in [Nodes -> [Nodes -> Rounds]]
      /\ reply' \in [Nodes -> Rounds] /\ reply'[m] = 0
      /\ \A n \in Nodes \ {m} : known'[n] = known[n] /\ reply'[n] = reply[n]
      /\ clock' = clock /\ resp' = resp /\ serving' = serving /\ queue' = queue
      /\ seen' = seen /\ gaveUp' = gaveUp /\ ahead' = ahead
  <2>1. 0 \in Rounds
    BY DEF Rounds
  <2>2. known' = [known EXCEPT ![m] = [known[m] EXCEPT ![q] = top]]
    BY <1>1 DEF PollDone
  <2>3. [known[m] EXCEPT ![q] = top] \in [Nodes -> Rounds]
    BY <1>0, <1>3 DEF TypeOK
  <2> HIDE DEF top
  <2>4. /\ known'[m] = [known[m] EXCEPT ![q] = top] /\ known' \in [Nodes -> [Nodes -> Rounds]]
        /\ \A n \in Nodes \ {m} : known'[n] = known[n]
    BY <1>0, <2>2, <2>3 DEF TypeOK
  <2>5. /\ reply' \in [Nodes -> Rounds] /\ reply'[m] = 0
        /\ \A n \in Nodes \ {m} : reply'[n] = reply[n]
    BY <1>0, <2>1 DEF PollDone, TypeOK
  <2> QED BY <2>4, <2>5 DEF PollDone, respVars, history
<1>5. known'[m][q] = top /\ \A p \in Nodes \ {q} : known'[m][p] = known[m][p]
  BY <1>0, <1>4 DEF TypeOK
<1> HIDE DEF top
<1>6. /\ at' \in [Nodes -> 0 .. N] /\ \A n \in Nodes : at'[n] # n
      /\ status' \in [Nodes -> {"out", "drain", "poll", "wait", "end", "leave", "dead"}]
      /\ \A n \in Nodes \ {m} : at'[n] = at[n] /\ status'[n] = status[n]
      /\ status'[m] \in {"end", "poll"}
      /\ status'[m] = "poll" => at'[m] \in Peers(m)
  <2>1. PICK heard : GoTo(m, q, heard)
    BY <1>1 DEF PollDone
  <2>2. q \in Nat
    BY DEF Nodes
  <2> QED BY <1>0, <2>1, <2>2, GoToFacts
<1>7. \A n \in Nodes : clock'[n] \in Nat /\ clock[n] <= clock'[n] /\ clock[n] \in Rounds
  BY <1>0, <1>4 DEF TypeOK, Rounds
<1>8. \A n, p \in Nodes, c \in Rounds : Knows(n, p, c) => Knows(n, p, c)'
  <2> SUFFICES ASSUME NEW n \in Nodes, NEW p \in Nodes, NEW c \in Rounds, known[n][p] >= c
               PROVE  known'[n][p] >= c
    BY <1>4 DEF Knows
  <2>1. CASE n = m /\ p = q
    BY <1>2, <1>3, <1>5, <2>1 DEF Rounds
  <2>2. CASE ~(n = m /\ p = q)
    BY <1>4, <1>5, <2>2
  <2> QED BY <2>1, <2>2
<1>9. TypeOK'
  BY <1>0, <1>4, <1>6 DEF TypeOK
<1>10. Control'
  BY <1>0, <1>2, <1>4, <1>6 DEF Control, Inside, Peers
<1>11. Genuine'
  <2>1. ASSUME NEW n \in Nodes, NEW p \in Nodes PROVE known'[n][p] <= clock'[p]
    <3>1. CASE n = m /\ p = q
      BY <1>0, <1>2, <1>3, <1>4, <1>5, <3>1 DEF Genuine
    <3>2. CASE ~(n = m /\ p = q)
      BY <1>0, <1>4, <1>5, <3>2 DEF Genuine
    <3> QED BY <3>1, <3>2
  <2> QED BY <1>0, <1>4, <2>1 DEF Genuine
<1>12. Polling'
  <2>1. \A n, p \in Nodes : Waiting(n, p) => Waiting(n, p)' /\ clock'[n] = clock[n]
    BY <1>2, <1>4, <1>6 DEF Waiting
  <2>2. \A n \in Nodes : status[n] = "dead" => status'[n] = "dead"
    BY <1>2, <1>6
  <2> QED BY <1>0, <1>4, <1>7, <1>8, <2>1, <2>2, PollingKept
<1>13. Single'
  BY <1>0, <1>4, SingleKept
<1>14. Replies'
  <2>1. \A n \in Nodes : reply'[n] # 0 =>
               /\ reply'[n] = reply[n] /\ at'[n] = at[n]
               /\ status'[n] = status[n] /\ clock'[n] = clock[n]
    BY <1>4, <1>6
  <2>2. \A n \in Nodes : Inside(n)' /\ clock'[n] = clock[n] => Inside(n)
    BY <1>2, <1>6 DEF Inside
  <2>3. \A n \in Nodes : status[n] = "wait" => at[n] \in Peers(n)
    BY <1>0 DEF Control
  <2> QED BY <1>0, <1>7, <1>8, <2>1, <2>2, <2>3, RepliesKept
<1>15. Left'
  <2>1. \A n \in Nodes : status'[n] \in {"leave", "out"} =>
               status[n] \in {"leave", "out"} /\ clock'[n] = clock[n] /\ known'[n] = known[n]
    BY <1>4, <1>6
  <2> QED BY <1>0, <2>1, LeftKept
<1>16. Mutual'
  <2> SUFFICES ASSUME NEW n \in Nodes, NEW p \in Peers(n),
                      clock[p] = clock[n], Inside(p)', status'[n] # "dead",
                      Knows(n, p, clock[n])'
               PROVE  \/ Heard(p, n)'
                      \/ <<p, n, clock[p]>> \in gaveUp \cup ahead
                      \/ Answering(n, p)
    BY <1>4 DEF Mutual, Peers, Answering
  <2>0. p \in Nodes /\ p # n
    BY DEF Peers
  <2>1. PICK c \in Rounds : c = clock[n]
    BY <1>7
  <2>2. Knows(n, p, c)'
    BY <1>4, <2>1 DEF Knows
  <2>3. Inside(p) /\ status[n] # "dead"
    BY <1>2, <1>6, <2>0 DEF Inside
  <2>4. ASSUME Heard(p, n) PROVE Heard(p, n)'
    <3>1. CASE Knows(p, n, c)
      <4>1. Knows(p, n, c)'
        BY <1>8, <2>0, <3>1
      <4> QED BY <1>4, <2>1, <4>1 DEF Knows, Heard
    <3>2. CASE status[p] = "wait" /\ at[p] = n /\ reply[p] >= clock[p]
      <4>1. CASE p = m
        BY <1>1, <1>2, <1>3, <1>4, <1>5, <1>7, <3>2, <4>1 DEF Heard, Rounds
      <4>2. CASE p # m
        BY <1>4, <1>6, <2>0, <3>2, <4>2 DEF Heard
      <4> QED BY <4>1, <4>2
    <3> QED BY <2>1, <2>4, <3>1, <3>2 DEF Heard, Knows
  <2>5. CASE Knows(n, p, c)
    BY <1>0, <2>1, <2>3, <2>4, <2>5 DEF Mutual
  <2>6. CASE ~Knows(n, p, c)
    <3>1. n = m /\ p = q /\ top >= c
      BY <1>4, <1>5, <2>0, <2>2, <2>6 DEF Knows
    <3>2. reply[m] >= c
      BY <1>3, <2>6, <3>1 DEF Knows
    <3>3. reply[m] = clock[q]
      BY <1>2, <1>7, <2>1, <3>1, <3>2 DEF Rounds
    <3>4. Knows(p, n, c)
      BY <1>2, <2>1, <2>3, <3>1, <3>3
    <3> QED BY <2>1, <2>4, <3>4 DEF Heard, Knows
  <2> QED BY <2>5, <2>6
<1> QED BY <1>9, <1>10, <1>11, <1>12, <1>13, <1>14, <1>15, <1>16 DEF IInv

LEMMA PollBrokenStep == ASSUME IInv, NEW m \in Nodes, PollBroken(m) PROVE IInv'
<1>0. TypeOK /\ Control /\ Genuine /\ Polling /\ Single /\ Replies /\ Left /\ Mutual
  BY DEF IInv
<1>1. /\ status[m] = "wait" /\ reply[m] = 0
      /\ clock' = clock /\ known' = known /\ reply' = reply /\ resp' = resp
      /\ serving' = serving /\ queue' = queue /\ seen' = seen
      /\ gaveUp' = gaveUp /\ ahead' = ahead
  BY DEF PollBroken, respVars, history
<1>2. PICK q \in Nodes : q = at[m] /\ q # m
  <2>1. at[m] \in Peers(m)
    BY <1>0, <1>1 DEF Control
  <2> QED BY <2>1 DEF Peers
<1>3. /\ at' \in [Nodes -> 0 .. N] /\ \A n \in Nodes : at'[n] # n
      /\ status' \in [Nodes -> {"out", "drain", "poll", "wait", "end", "leave", "dead"}]
      /\ \A n \in Nodes \ {m} : at'[n] = at[n] /\ status'[n] = status[n]
      /\ status'[m] \in {"end", "poll"}
      /\ status'[m] = "poll" => at'[m] \in Peers(m)
  <2>1. GoTo(m, q, known[m])
    BY <1>2 DEF PollBroken
  <2>2. q \in Nat
    BY DEF Nodes
  <2> QED BY <1>0, <2>1, <2>2, GoToFacts
<1>4. \A n \in Nodes : clock'[n] \in Nat /\ clock[n] <= clock'[n] /\ clock[n] \in Rounds
  BY <1>0, <1>1 DEF TypeOK, Rounds
<1>5. \A n, p \in Nodes, c \in Rounds : Knows(n, p, c)' <=> Knows(n, p, c)
  BY <1>1 DEF Knows
<1>6. ASSUME NEW n \in Nodes, NEW e \in Polls, GoodPoll(e, n), e.live => e.from # m
      PROVE  /\ e.from # n
             /\ e.clock <= clock'[e.from]
             /\ e.live => Waiting(e.from, n)' /\ e.clock = clock'[e.from]
             /\ ~e.live => status'[e.from] = "dead" \/ <<e.from, n, e.clock>> \in gaveUp'
  <2>1. e.from \in Nodes
    BY DEF Polls
  <2> QED BY <1>1, <1>3, <1>6, <2>1 DEF GoodPoll, Waiting
<1>7. TypeOK'
  BY <1>0, <1>1, <1>3 DEF TypeOK
<1>8. Control'
  BY <1>0, <1>1, <1>3 DEF Control, Inside, Peers
<1>9. Genuine'
  BY <1>0, <1>1, <1>4, GenuineKept
<1>10. Polling'
  <2>1. ASSUME NEW n \in Nodes, NEW i \in 1 .. Len(queue[n]) PROVE GoodPoll(queue[n][i], n)'
    <3>1. queue[n][i] \in Polls /\ GoodPoll(queue[n][i], n)
      BY <1>0 DEF TypeOK, Polling
    <3>2. ASSUME queue[n][i].live, queue[n][i].from = m PROVE FALSE
      <4>1. n = q
        BY <1>2, <3>1, <3>2 DEF GoodPoll, Waiting
      <4>2. i \in DOMAIN queue[q] /\ queue[q][i] # None
        BY <1>0, <3>1, <4>1, PollIsSome DEF TypeOK
      <4> QED BY <1>2, <3>2, <4>1, <4>2 DEF PollBroken, Open
    <3> QED BY <1>1, <1>6, <3>1, <3>2 DEF GoodPoll, Waiting
  <2>2. ASSUME NEW n \in Nodes, serving[n] # None
        PROVE  GoodPoll(serving[n], n)' /\ Knows(n, serving[n].from, serving[n].clock)'
    <3>1. serving[n] \in Polls /\ GoodPoll(serving[n], n)
      BY <1>0, <2>2 DEF TypeOK, Polling
    <3>2. Knows(n, serving[n].from, serving[n].clock)
      BY <1>0, <2>2 DEF Polling
    <3>3. ASSUME serving[n].live, serving[n].from = m PROVE FALSE
      <4>1. n = q
        BY <1>2, <3>1, <3>3 DEF GoodPoll, Waiting
      <4> QED BY <1>2, <2>2, <3>3, <4>1 DEF PollBroken, Open
    <3>4. GoodPoll(serving[n], n)'
      BY <1>1, <1>6, <3>1, <3>3 DEF GoodPoll, Waiting
    <3> QED BY <1>1, <3>2, <3>4 DEF Knows
  <2> QED BY <1>1, <2>1, <2>2 DEF Polling
<1>11. Single'
  BY <1>0, <1>1, SingleKept
<1>12. Replies'
  <2>1. \A n \in Nodes : reply'[n] # 0 =>
               /\ reply'[n] = reply[n] /\ at'[n] = at[n]
               /\ status'[n] = status[n] /\ clock'[n] = clock[n]
    BY <1>1, <1>3
  <2>2. \A n \in Nodes : Inside(n)' /\ clock'[n] = clock[n] => Inside(n)
    BY <1>1, <1>3 DEF Inside
  <2>3. \A n \in Nodes : status[n] = "wait" => at[n] \in Peers(n)
    BY <1>0 DEF Control
  <2> QED BY <1>0, <1>4, <1>5, <2>1, <2>2, <2>3, RepliesKept
<1>13. Left'
  <2>1. \A n \in Nodes : status'[n] \in {"leave", "out"} =>
               status[n] \in {"leave", "out"} /\ clock'[n] = clock[n] /\ known'[n] = known[n]
    BY <1>1, <1>3
  <2> QED BY <1>0, <2>1, LeftKept
<1>14. Mutual'
  <2>1. \A n \in Nodes : (Inside(n)' => Inside(n)) /\ (status[n] = "dead" => status'[n] = "dead")
    BY <1>1, <1>3 DEF Inside
  <2>2. ASSUME NEW n \in Nodes, NEW p \in Nodes, Heard(p, n) PROVE Heard(p, n)'
    <3>1. CASE p = m
      <4>1. ~(reply[m] >= clock[m])
        BY <1>0, <1>1, <1>4 DEF Control, Inside, Rounds
      <4> QED BY <1>1, <2>2, <3>1, <4>1 DEF Heard
    <3>2. CASE p # m
      BY <1>1, <1>3, <2>2, <3>2 DEF Heard
    <3> QED BY <3>1, <3>2
  <2>3. \A n, p \in Nodes : Answering(n, p) => Answering(n, p)'
    BY <1>1 DEF Answering
  <2> QED BY <1>0, <1>1, <1>5, <2>1, <2>2, <2>3, MutualKept
<1> QED BY <1>7, <1>8, <1>9, <1>10, <1>11, <1>12, <1>13, <1>14 DEF IInv

LEMMA AgainStep == ASSUME IInv, NEW m \in Nodes, Again(m) PROVE IInv'
<1>0. TypeOK /\ Control /\ Genuine /\ Polling /\ Single /\ Replies /\ Left /\ Mutual
  BY DEF IInv
<1>1. /\ status[m] = "end" /\ status'[m] = "drain"
      /\ status' \in [Nodes -> {"out", "drain", "poll", "wait", "end", "leave", "dead"}]
      /\ \A n \in Nodes \ {m} : status'[n] = status[n]
      /\ clock' = clock /\ known' = known /\ reply' = reply /\ at' = at /\ resp' = resp
      /\ serving' = serving /\ queue' = queue /\ seen' = seen
      /\ gaveUp' = gaveUp /\ ahead' = ahead
  BY <1>0 DEF Again, TypeOK, respVars, history
<1>2. \A n \in Nodes : clock'[n] \in Nat /\ clock[n] <= clock'[n] /\ clock[n] \in Rounds
  BY <1>0, <1>1 DEF TypeOK, Rounds
<1>3. \A n, p \in Nodes, c \in Rounds : Knows(n, p, c)' <=> Knows(n, p, c)
  BY <1>1 DEF Knows
<1>4. TypeOK'
  BY <1>0, <1>1 DEF TypeOK
<1>5. Control'
  BY <1>0, <1>1 DEF Control, Inside, Peers
<1>6. Genuine'
  BY <1>0, <1>1, <1>2, GenuineKept
<1>7. Polling'
  <2>1. \A n, p \in Nodes : Waiting(n, p) => Waiting(n, p)' /\ clock'[n] = clock[n]
    BY <1>1 DEF Waiting
  <2>2. \A n \in Nodes : status[n] = "dead" => status'[n] = "dead"
    BY <1>1
  <2> QED BY <1>0, <1>1, <1>2, <1>3, <2>1, <2>2, PollingKept
<1>8. Single'
  BY <1>0, <1>1, SingleKept
<1>9. Replies'
  <2>1. \A n \in Nodes : reply'[n] # 0 =>
               /\ reply'[n] = reply[n] /\ at'[n] = at[n]
               /\ status'[n] = status[n] /\ clock'[n] = clock[n]
    BY <1>0, <1>1 DEF Replies
  <2>2. \A n \in Nodes : Inside(n)' /\ clock'[n] = clock[n] => Inside(n)
    BY <1>1 DEF Inside
  <2>3. \A n \in Nodes : status[n] = "wait" => at[n] \in Peers(n)
    BY <1>0 DEF Control
  <2> QED BY <1>0, <1>2, <1>3, <2>1, <2>2, <2>3, RepliesKept
<1>10. Left'
  <2>1. \A n \in Nodes : status'[n] \in {"leave", "out"} =>
               status[n] \in {"leave", "out"} /\ clock'[n] = clock[n] /\ known'[n] = known[n]
    BY <1>1
  <2> QED BY <1>0, <2>1, LeftKept
<1>11. Mutual'
  <2>1. \A n \in Nodes : (Inside(n)' => Inside(n)) /\ (status[n] = "dead" => status'[n] = "dead")
    BY <1>1 DEF Inside
  <2>2. \A n, p \in Nodes : Heard(p, n) => Heard(p, n)'
    BY <1>1 DEF Heard
  <2>3. \A n, p \in Nodes : Answering(n, p) => Answering(n, p)'
    BY <1>1 DEF Answering
  <2> QED BY <1>0, <1>1, <1>3, <2>1, <2>2, <2>3, MutualKept
<1> QED BY <1>4, <1>5, <1>6, <1>7, <1>8, <1>9, <1>10, <1>11 DEF IInv

(* Closing m's end keeps one live poll per poller.                         *)
LEMMA HangupSingle ==
    ASSUME TypeOK, Single, NEW m \in Nodes, Hangup(m)
    PROVE  Single'
<1>1. ASSUME NEW n \in Nodes, NEW i \in 1 .. Len(queue'[n])
      PROVE  /\ i \in 1 .. Len(queue[n]) /\ queue[n][i] \in Polls
             /\ queue'[n][i].from = queue[n][i].from
             /\ queue'[n][i].live => queue[n][i].live
  <2>1. i \in 1 .. Len(queue[n]) /\ queue'[n][i] = Dead(queue[n][i], m)
    BY HangupFacts
  <2>2. queue[n][i] \in Polls
    BY <2>1 DEF TypeOK
  <2> QED BY <2>1, <2>2, DeadFacts
<1>2. ASSUME NEW n \in Nodes, serving'[n] # None
      PROVE  /\ serving[n] # None
             /\ serving'[n].from = serving[n].from
             /\ serving'[n].live => serving[n].live
  <2>1. serving[n] # None /\ serving'[n] = Dead(serving[n], m)
    BY <1>2, HangupFacts
  <2>2. serving[n] \in Polls
    BY <2>1 DEF TypeOK
  <2> QED BY <2>1, <2>2, DeadFacts
<1> QED BY <1>1, <1>2 DEF Single

(* The polls of the others stay good; those of m are given up.             *)
LEMMA HangupPolling ==
    ASSUME TypeOK, Polling, NEW m \in Nodes, Hangup(m), clock' = clock,
           gaveUp \subseteq gaveUp',
           \A n \in Nodes \ {m} : /\ at'[n] = at[n] /\ reply'[n] = reply[n]
                                  /\ status'[n] = status[n] /\ seen'[n] = seen[n],
           status[m] = "dead" => status'[m] = "dead",
           status'[m] = "dead" \/ (<<m, at[m], clock[m]>> \in gaveUp' /\ seen'[m] = seen[m]),
           known' = known
    PROVE  Polling'
<1>1. ASSUME NEW n \in Nodes, NEW e \in Polls, NEW d \in Polls, GoodPoll(e, n), d = Dead(e, m)
      PROVE  /\ d.from # n
             /\ d.clock <= clock'[d.from]
             /\ d.live => Waiting(d.from, n)' /\ d.clock = clock'[d.from]
             /\ ~d.live => status'[d.from] = "dead" \/ <<d.from, n, d.clock>> \in gaveUp'
  <2>1. /\ e.from \in Nodes /\ e.live \in BOOLEAN /\ d.from = e.from /\ d.clock = e.clock
        /\ d.live <=> e.live /\ e.from # m
    BY <1>1, DeadFacts DEF Polls
  <2>2. d.from # n /\ d.clock <= clock'[d.from]
    BY <1>1, <2>1 DEF GoodPoll
  <2>3. ASSUME d.live PROVE Waiting(d.from, n)' /\ d.clock = clock'[d.from]
    BY <1>1, <2>1, <2>3 DEF GoodPoll, Waiting
  <2>4. ASSUME ~d.live PROVE status'[d.from] = "dead" \/ <<d.from, n, d.clock>> \in gaveUp'
    <3>1. CASE ~e.live
      BY <1>1, <2>1, <3>1 DEF GoodPoll
    <3>2. CASE e.live
      <4>1. d.from = m /\ at[m] = n /\ d.clock = clock[m]
        BY <1>1, <2>1, <2>4, <3>2 DEF GoodPoll, Waiting
      <4> QED BY <4>1
    <3> QED BY <3>1, <3>2
  <2> QED BY <2>2, <2>3, <2>4
<1>2. ASSUME NEW n \in Nodes, NEW i \in 1 .. Len(queue'[n]) PROVE GoodPoll(queue[n][i], n)'
  <2>1. i \in 1 .. Len(queue[n]) /\ queue'[n][i] = Dead(queue[n][i], m)
    BY HangupFacts
  <2>2. queue[n][i] \in Polls /\ GoodPoll(queue[n][i], n) /\ queue'[n][i] \in Polls
    BY <2>1, DeadFacts DEF TypeOK, Polling
  <2> QED BY <1>1, <2>1, <2>2 DEF GoodPoll, Waiting
<1>3. ASSUME NEW n \in Nodes, serving'[n] # None
      PROVE  GoodPoll(serving[n], n)' /\ Knows(n, serving[n].from, serving[n].clock)'
  <2>1. serving[n] # None /\ serving'[n] = Dead(serving[n], m) /\ serving'[n] \in Polls
    BY <1>3, HangupFacts
  <2>2. serving[n] \in Polls /\ GoodPoll(serving[n], n)
    BY <2>1 DEF TypeOK, Polling
  <2>3. Knows(n, serving[n].from, serving[n].clock)
    BY <2>1 DEF Polling
  <2>4. GoodPoll(serving[n], n)'
    BY <1>1, <2>1, <2>2 DEF GoodPoll, Waiting
  <2>5. seen'[n] = seen[n]
    BY <1>3, HangupFacts
  <2>6. serving'[n].from = serving[n].from /\ serving'[n].clock = serving[n].clock
    BY <2>1, <2>2, DeadFacts
  <2> QED BY <2>3, <2>4, <2>5, <2>6 DEF Knows
<1> QED BY <1>2, <1>3 DEF Polling

(* Answers under way to the others stay under way.                         *)
LEMMA HangupAnswering ==
    ASSUME TypeOK, NEW m \in Nodes, Hangup(m), NEW n \in Nodes, NEW p \in Nodes,
           Answering(n, p), p # m, status'[m] # "dead" \/ n # m
    PROVE  Answering(n, p)'
<1>1. serving[n] \in Polls /\ serving[n] # None
  BY DEF Answering, TypeOK
<1>2. serving'[n] # None /\ serving'[n] = Dead(serving[n], m)
  BY <1>1, HangupFacts
<1> QED BY <1>1, <1>2, DeadFacts DEF Answering

LEMMA PollTimeoutStep == ASSUME IInv, NEW m \in Nodes, PollTimeout(m) PROVE IInv'
<1>0. TypeOK /\ Control /\ Genuine /\ Polling /\ Single /\ Replies /\ Left /\ Mutual
  BY DEF IInv
<1>1. /\ status[m] = "wait" /\ reply[m] = 0 /\ Hangup(m)
      /\ gaveUp' = gaveUp \cup {<<m, at[m], clock[m]>>}
      /\ clock' = clock /\ known' = known /\ reply' = reply /\ resp' = resp
      /\ seen' = seen /\ ahead' = ahead
  BY DEF PollTimeout
<1>2. PICK q \in Nodes : q = at[m] /\ q # m
  <2>1. at[m] \in Peers(m)
    BY <1>0, <1>1 DEF Control
  <2> QED BY <2>1 DEF Peers
<1>3. /\ at' \in [Nodes -> 0 .. N] /\ \A n \in Nodes : at'[n] # n
      /\ status' \in [Nodes -> {"out", "drain", "poll", "wait", "end", "leave", "dead"}]
      /\ \A n \in Nodes \ {m} : at'[n] = at[n] /\ status'[n] = status[n]
      /\ status'[m] \in {"end", "poll"}
      /\ status'[m] = "poll" => at'[m] \in Peers(m)
  <2>1. GoTo(m, q, known[m])
    BY <1>2 DEF PollTimeout
  <2>2. q \in Nat
    BY DEF Nodes
  <2> QED BY <1>0, <2>1, <2>2, GoToFacts
<1>4. \A n \in Nodes : clock'[n] \in Nat /\ clock[n] <= clock'[n] /\ clock[n] \in Rounds
  BY <1>0, <1>1 DEF TypeOK, Rounds
<1>5. \A n, p \in Nodes, c \in Rounds : Knows(n, p, c)' <=> Knows(n, p, c)
  BY <1>1 DEF Knows
<1>6. /\ queue' \in [Nodes -> Seq(Polls)] /\ serving' \in [Nodes -> Polls \cup {None}]
      /\ \A n \in Nodes : serving'[n] # None <=> serving[n] # None
  BY <1>0, <1>1, <1>3, HangupFacts
<1>7. TypeOK'
  <2>1. gaveUp' \subseteq Nodes \X Nodes \X Rounds
    BY <1>0, <1>1, <1>2, <1>4 DEF TypeOK
  <2> QED BY <1>0, <1>1, <1>3, <1>6, <2>1 DEF TypeOK
<1>8. Control'
  BY <1>0, <1>1, <1>3, <1>6 DEF Control, Inside, Peers
<1>9. Genuine'
  BY <1>0, <1>1, <1>4, GenuineKept
<1>10. Polling'
  BY <1>0, <1>1, <1>3, HangupPolling
<1>11. Single'
  BY <1>0, <1>1, HangupSingle
<1>12. Replies'
  <2>1. \A n \in Nodes : reply'[n] # 0 =>
               /\ reply'[n] = reply[n] /\ at'[n] = at[n]
               /\ status'[n] = status[n] /\ clock'[n] = clock[n]
    BY <1>1, <1>3
  <2>2. \A n \in Nodes : Inside(n)' /\ clock'[n] = clock[n] => Inside(n)
    BY <1>1, <1>3 DEF Inside
  <2>3. \A n \in Nodes : status[n] = "wait" => at[n] \in Peers(n)
    BY <1>0 DEF Control
  <2> QED BY <1>0, <1>4, <1>5, <2>1, <2>2, <2>3, RepliesKept
<1>13. Left'
  <2>1. \A n \in Nodes : status'[n] \in {"leave", "out"} =>
               status[n] \in {"leave", "out"} /\ clock'[n] = clock[n] /\ known'[n] = known[n]
    BY <1>1, <1>3
  <2> QED BY <1>0, <2>1, LeftKept
<1>14. Mutual'
  <2>1. \A n \in Nodes : (Inside(n)' => Inside(n)) /\ (status[n] = "dead" => status'[n] = "dead")
    BY <1>1, <1>3 DEF Inside
  <2>2. ASSUME NEW n \in Nodes, NEW p \in Nodes, Heard(p, n) PROVE Heard(p, n)'
    <3>1. CASE p = m
      <4>1. ~(reply[m] >= clock[m])
        BY <1>0, <1>1, <1>4 DEF Control, Inside, Rounds
      <4> QED BY <1>1, <2>2, <3>1, <4>1 DEF Heard
    <3>2. CASE p # m
      BY <1>1, <1>3, <2>2, <3>2 DEF Heard
    <3> QED BY <3>1, <3>2
  <2>3. ASSUME NEW n \in Nodes, NEW p \in Nodes, Answering(n, p)
        PROVE  Answering(n, p)' \/ <<p, n, clock[p]>> \in gaveUp'
    <3>1. CASE p = m
      <4>1. serving[n] # None /\ serving[n].from = m /\ serving[n].live
        BY <2>3, <3>1 DEF Answering
      <4>2. GoodPoll(serving[n], n)
        BY <1>0, <4>1 DEF Polling
      <4>3. at[m] = n
        BY <4>1, <4>2 DEF GoodPoll, Waiting
      <4> QED BY <1>1, <3>1, <4>3
    <3>2. CASE p # m
      BY <1>0, <1>1, <1>3, <2>3, <3>2, HangupAnswering
    <3> QED BY <3>1, <3>2
  <2> QED BY <1>0, <1>1, <1>5, <2>1, <2>2, <2>3, MutualKept
<1> QED BY <1>7, <1>8, <1>9, <1>10, <1>11, <1>12, <1>13, <1>14 DEF IInv

LEMMA ExitStep == ASSUME IInv, NEW m \in Nodes, Exit(m) PROVE IInv'
<1>0. TypeOK /\ Control /\ Genuine /\ Polling /\ Single /\ Replies /\ Left /\ Mutual
  BY DEF IInv
<1>1. /\ status'[m] = "dead" /\ resp'[m] = "off" /\ seen'[m] = {} /\ reply'[m] = 0 /\ at'[m] = 0
      /\ \A n \in Nodes \ {m} : /\ status'[n] = status[n] /\ resp'[n] = resp[n]
                                /\ seen'[n] = seen[n] /\ reply'[n] = reply[n] /\ at'[n] = at[n]
      /\ Hangup(m)
      /\ clock' = clock /\ known' = known /\ gaveUp' = gaveUp /\ ahead' = ahead
  BY <1>0 DEF Exit, TypeOK, history
<1>2. \A n \in Nodes : clock'[n] \in Nat /\ clock[n] <= clock'[n] /\ clock[n] \in Rounds
  BY <1>0, <1>1 DEF TypeOK, Rounds
<1>3. \A n, p \in Nodes, c \in Rounds : n # m => (Knows(n, p, c)' <=> Knows(n, p, c))
  BY <1>1 DEF Knows
<1>4. /\ queue' \in [Nodes -> Seq(Polls)] /\ serving' \in [Nodes -> Polls \cup {None}]
      /\ serving'[m] = None
      /\ \A n \in Nodes \ {m} : serving'[n] # None <=> serving[n] # None
  BY <1>0, <1>1, HangupFacts
<1>5. TypeOK'
  <2>1. status' \in [Nodes -> {"out", "drain", "poll", "wait", "end", "leave", "dead"}]
    BY <1>0 DEF Exit, TypeOK
  <2>2. resp' \in [Nodes -> {"off", "check", "accept", "answer"}]
    BY <1>0 DEF Exit, TypeOK
  <2>3. seen' \in [Nodes -> SUBSET (Nodes \X Rounds)]
    BY <1>0 DEF Exit, TypeOK
  <2>4. reply' \in [Nodes -> Rounds]
    BY <1>0 DEF Exit, TypeOK, Rounds
  <2>5. at' \in [Nodes -> 0 .. N] /\ \A n \in Nodes : at'[n] # n
    <3>1. 0 \in 0 .. N /\ m # 0
      BY DEF Nodes
    <3> QED BY <1>0, <3>1 DEF Exit, TypeOK
  <2> QED BY <1>0, <1>1, <1>4, <2>1, <2>2, <2>3, <2>4, <2>5 DEF TypeOK
<1>6. Control'
  <2> SUFFICES ASSUME NEW n \in Nodes
               PROVE  /\ status'[n] \in {"poll", "wait"} => at'[n] \in Peers(n)
                      /\ resp'[n] = "answer" <=> serving'[n] # None
                      /\ status'[n] = "out" => resp'[n] = "off" /\ seen'[n] = {}
                      /\ Inside(n)' => clock'[n] > 0
    BY DEF Control, Peers
  <2>1. CASE n = m
    BY <1>1, <1>4, <2>1 DEF Inside
  <2>2. CASE n # m
    BY <1>0, <1>1, <1>4, <2>2 DEF Control, Inside
  <2> QED BY <2>1, <2>2
<1>7. Genuine'
  <2>1. \A n \in Nodes : seen'[n] \subseteq seen[n]
    BY <1>1
  <2> QED BY <1>0, <1>1, <1>2, <2>1, GenuineKept
<1>8. Polling'
  BY <1>0, <1>1, HangupPolling
<1>9. Single'
  BY <1>0, <1>1, HangupSingle
<1>10. Replies'
  <2>1. \A n \in Nodes : reply'[n] # 0 =>
               /\ reply'[n] = reply[n] /\ at'[n] = at[n]
               /\ status'[n] = status[n] /\ clock'[n] = clock[n]
    BY <1>1
  <2>2. \A n \in Nodes : Inside(n)' => n # m /\ Inside(n)
    BY <1>1 DEF Inside
  <2>3. \A n \in Nodes : status[n] = "wait" => at[n] \in Peers(n)
    BY <1>0 DEF Control
  <2> QED BY <1>0, <1>2, <1>3, <2>1, <2>2, <2>3, RepliesKept
<1>11. Left'
  <2>1. \A n \in Nodes : status'[n] \in {"leave", "out"} =>
               status[n] \in {"leave", "out"} /\ clock'[n] = clock[n] /\ known'[n] = known[n]
    BY <1>1
  <2> QED BY <1>0, <2>1, LeftKept
<1>12. Mutual'
  <2>1. \A n \in Nodes : (Inside(n)' => n # m /\ Inside(n)) /\ (status[n] = "dead" => status'[n] = "dead")
    BY <1>1 DEF Inside
  <2>2. \A n, p \in Nodes : Inside(p)' /\ Heard(p, n) => Heard(p, n)'
    BY <1>1, <2>1 DEF Heard
  <2>3. \A n, p \in Nodes : Inside(p)' /\ status'[n] # "dead" /\ Answering(n, p) => Answering(n, p)'
    BY <1>0, <1>1, <2>1, HangupAnswering
  <2>4. \A n \in Nodes : status'[n] # "dead" => n # m
    BY <1>1
  <2> QED BY <1>0, <1>1, <1>3, <2>1, <2>2, <2>3, <2>4, MutualKept
<1> QED BY <1>5, <1>6, <1>7, <1>8, <1>9, <1>10, <1>11, <1>12 DEF IInv

LEMMA LeaveStep == ASSUME IInv, NEW m \in Nodes, Leave(m) PROVE IInv'
<1>0. TypeOK /\ Control /\ Genuine /\ Polling /\ Single /\ Replies /\ Left /\ Mutual
  BY DEF IInv
<1>1. /\ status[m] = "leave" /\ status'[m] = "out" /\ resp[m] = "off" /\ resp'[m] = "off"
      /\ serving[m] = None /\ serving'[m] = None /\ queue'[m] = <<>> /\ seen'[m] = {}
      /\ \A n \in Nodes \ {m} : /\ status'[n] = status[n] /\ resp'[n] = resp[n]
                                /\ serving'[n] = serving[n] /\ queue'[n] = queue[n]
                                /\ seen'[n] = seen[n]
      /\ clock' = clock /\ known' = known /\ at' = at /\ reply' = reply
      /\ gaveUp' = gaveUp /\ ahead' = ahead
  <2>1. status[m] = "leave" /\ resp[m] = "off"
    BY DEF Leave, Joined
  <2>2. serving[m] = None
    BY <1>0, <2>1 DEF Control
  <2> QED BY <1>0, <2>1, <2>2 DEF Leave, TypeOK, history
<1>2. \A n \in Nodes : clock'[n] \in Nat /\ clock[n] <= clock'[n] /\ clock[n] \in Rounds
  BY <1>0, <1>1 DEF TypeOK, Rounds
<1>3. serving' = serving
  BY <1>0, <1>1 DEF Leave, TypeOK
<1>4. \A n \in Nodes : \A i \in 1 .. Len(queue'[n]) :
          n # m /\ i \in 1 .. Len(queue[n]) /\ queue'[n][i] = queue[n][i]
  BY <1>1
<1>5. \A n, p \in Nodes, c \in Rounds : n # m => (Knows(n, p, c)' <=> Knows(n, p, c))
  BY <1>1 DEF Knows
<1>6. TypeOK'
  <2>1. status' \in [Nodes -> {"out", "drain", "poll", "wait", "end", "leave", "dead"}]
    BY <1>0 DEF Leave, TypeOK
  <2>2. resp' \in [Nodes -> {"off", "check", "accept", "answer"}]
    BY <1>0 DEF Leave, TypeOK
  <2>3. seen' \in [Nodes -> SUBSET (Nodes \X Rounds)]
    BY <1>0 DEF Leave, TypeOK
  <2>4. queue' \in [Nodes -> Seq(Polls)]
    <3>1. <<>> \in Seq(Polls)
      OBVIOUS
    <3> QED BY <1>0, <3>1 DEF Leave, TypeOK
  <2> QED BY <1>0, <1>1, <1>3, <2>1, <2>2, <2>3, <2>4 DEF TypeOK
<1>7. Control'
  BY <1>0, <1>1 DEF Control, Inside, Peers
<1>8. Genuine'
  <2>1. \A n \in Nodes : seen'[n] \subseteq seen[n]
    BY <1>1
  <2> QED BY <1>0, <1>1, <1>2, <2>1, GenuineKept
<1>9. Polling'
  <2>1. ASSUME NEW n \in Nodes, NEW e \in Polls, GoodPoll(e, n)
        PROVE  /\ e.from # n
               /\ e.clock <= clock'[e.from]
               /\ e.live => Waiting(e.from, n)' /\ e.clock = clock'[e.from]
               /\ ~e.live => status'[e.from] = "dead" \/ <<e.from, n, e.clock>> \in gaveUp'
    <3>1. e.from \in Nodes
      BY DEF Polls
    <3> QED BY <1>1, <2>1, <3>1 DEF GoodPoll, Waiting
  <2>2. ASSUME NEW n \in Nodes, NEW i \in 1 .. Len(queue'[n]) PROVE GoodPoll(queue[n][i], n)'
    <3>1. i \in 1 .. Len(queue[n]) /\ queue'[n][i] = queue[n][i]
      BY <1>4
    <3>2. queue[n][i] \in Polls /\ GoodPoll(queue[n][i], n)
      BY <1>0, <3>1 DEF TypeOK, Polling
    <3> QED BY <2>1, <3>1, <3>2, SMTT(30) DEF GoodPoll, Waiting
  <2>3. ASSUME NEW n \in Nodes, serving[n] # None
        PROVE  GoodPoll(serving[n], n)' /\ Knows(n, serving[n].from, serving[n].clock)'
    <3>1. serving[n] \in Polls /\ GoodPoll(serving[n], n) /\ n # m
      BY <1>0, <1>1, <2>3 DEF TypeOK, Polling
    <3>2. Knows(n, serving[n].from, serving[n].clock)
      BY <1>0, <2>3 DEF Polling
    <3>3. GoodPoll(serving[n], n)'
      BY <1>3, <2>1, <3>1 DEF GoodPoll, Waiting
    <3> QED BY <1>1, <1>3, <3>1, <3>2, <3>3 DEF Knows
  <2> QED BY <1>3, <2>2, <2>3 DEF Polling
<1>10. Single'
  <2>1. ASSUME NEW n \in Nodes, NEW i \in 1 .. Len(queue'[n]), NEW j \in 1 .. Len(queue'[n]),
               queue'[n][i].live, queue'[n][j].live, i # j
        PROVE  queue'[n][i].from # queue'[n][j].from
    <3>1. n # m
      BY <1>4
    <3>2. queue'[n] = queue[n]
      BY <1>1, <3>1
    <3> QED BY <1>0, <2>1, <3>2 DEF Single
  <2>2. ASSUME NEW n \in Nodes, NEW i \in 1 .. Len(queue'[n]),
               serving'[n] # None, serving'[n].live, queue'[n][i].live
        PROVE  serving'[n].from # queue'[n][i].from
    <3>1. n # m
      BY <1>4
    <3>2. queue'[n] = queue[n]
      BY <1>1, <3>1
    <3> QED BY <1>0, <1>3, <2>2, <3>2 DEF Single
  <2> QED BY <2>1, <2>2 DEF Single
<1>11. Replies'
  <2>1. \A n \in Nodes : reply'[n] # 0 =>
               /\ reply'[n] = reply[n] /\ at'[n] = at[n]
               /\ status'[n] = status[n] /\ clock'[n] = clock[n]
    BY <1>0, <1>1 DEF Replies
  <2>2. \A n \in Nodes : Inside(n)' => n # m /\ Inside(n)
    BY <1>1 DEF Inside
  <2>3. \A n \in Nodes : status[n] = "wait" => at[n] \in Peers(n)
    BY <1>0 DEF Control
  <2> QED BY <1>0, <1>2, <1>5, <2>1, <2>2, <2>3, RepliesKept
<1>12. Left'
  <2>1. \A n \in Nodes : status'[n] \in {"leave", "out"} =>
               status[n] \in {"leave", "out"} /\ clock'[n] = clock[n] /\ known'[n] = known[n]
    BY <1>1
  <2> QED BY <1>0, <2>1, LeftKept
<1>13. Mutual'
  <2>1. \A n \in Nodes : (Inside(n)' => n # m /\ Inside(n)) /\ (status[n] = "dead" => status'[n] = "dead")
    BY <1>1 DEF Inside
  <2>2. \A n, p \in Nodes : Inside(p)' /\ Heard(p, n) => Heard(p, n)'
    BY <1>1, <2>1 DEF Heard
  <2>3. \A n, p \in Nodes : Answering(n, p) => Answering(n, p)'
    BY <1>3 DEF Answering
  <2>4. \A n, p \in Nodes, c \in Rounds : Knows(n, p, c)' => Knows(n, p, c)
    BY <1>1 DEF Knows
  <2> QED BY <1>0, <1>1, <2>1, <2>2, <2>3, <2>4, MutualKept
<1> QED BY <1>6, <1>7, <1>8, <1>9, <1>10, <1>11, <1>12, <1>13 DEF IInv

-----------------------------------------------------------------------------
(* The steps of the responder.                                             *)

LEMMA CheckFlagStep == ASSUME IInv, NEW m \in Nodes, CheckFlag(m) PROVE IInv'
<1>0. TypeOK /\ Control /\ Genuine /\ Polling /\ Single /\ Replies /\ Left /\ Mutual
  BY DEF IInv
<1>1. /\ resp[m] = "check" /\ resp'[m] \in {"off", "accept"}
      /\ resp' \in [Nodes -> {"off", "check", "accept", "answer"}]
      /\ \A n \in Nodes \ {m} : resp'[n] = resp[n]
      /\ clock' = clock /\ known' = known /\ at' = at /\ status' = status /\ reply' = reply
      /\ serving' = serving /\ queue' = queue /\ seen' = seen
      /\ gaveUp' = gaveUp /\ ahead' = ahead
  BY <1>0 DEF CheckFlag, TypeOK, mainVars, history
<1>2. TypeOK'
  BY <1>0, <1>1 DEF TypeOK
<1>3. Control'
  BY <1>0, <1>1 DEF Control, Inside, Peers
<1>4. Genuine'
  BY <1>0, <1>1 DEF Genuine
<1>5. Polling'
  <2>1. \A n \in Nodes : clock'[n] \in Nat /\ clock[n] <= clock'[n]
    BY <1>0, <1>1 DEF TypeOK, Rounds
  <2>2. \A n, p \in Nodes : Waiting(n, p) => Waiting(n, p)'
    BY <1>0, <1>1 DEF Waiting
  <2>3. \A n, p \in Nodes, c \in Rounds : Knows(n, p, c) => Knows(n, p, c)'
    BY <1>0, <1>1 DEF Knows
  <2> QED BY <1>0, <1>1, <2>1, <2>2, <2>3, PollingKept
<1>6. Single'
  BY <1>0, <1>1, SingleKept
<1>7. Replies'
  BY <1>0, <1>1 DEF Replies, Inside, Knows
<1>8. Left'
  BY <1>0, <1>1 DEF Left, Peers
<1>9. Mutual'
  BY <1>0, <1>1, MutualKept DEF Heard, Answering, Knows, Inside
<1> QED BY <1>2, <1>3, <1>4, <1>5, <1>6, <1>7, <1>8, <1>9 DEF IInv

LEMMA AcceptStep == ASSUME IInv, NEW m \in Nodes, Accept(m) PROVE IInv'
<1>0. TypeOK /\ Control /\ Genuine /\ Polling /\ Single /\ Replies /\ Left /\ Mutual
  BY DEF IInv
<1>1. /\ resp[m] = "accept" /\ serving[m] = None
      /\ resp'[m] \in {"check", "answer"}
      /\ resp' \in [Nodes -> {"off", "check", "accept", "answer"}]
      /\ \A n \in Nodes \ {m} : resp'[n] = resp[n]
      /\ clock' = clock /\ known' = known /\ at' = at /\ status' = status /\ reply' = reply
      /\ gaveUp' = gaveUp /\ ahead' = ahead
  BY <1>0 DEF Accept, TypeOK, Control, mainVars, history
<1>2. CASE queue[m] = <<>>
  <2>1. serving' = serving /\ queue' = queue /\ seen' = seen /\ resp'[m] = "check"
    BY <1>0, <1>2 DEF Accept, TypeOK
  <2>2. TypeOK'
    BY <1>0, <1>1, <2>1 DEF TypeOK
  <2>3. Control'
    BY <1>0, <1>1, <2>1 DEF Control, Inside, Peers
  <2>4. Genuine'
    BY <1>0, <1>1, <2>1 DEF Genuine
  <2>5. Polling'
    <3>1. \A n \in Nodes : clock'[n] \in Nat /\ clock[n] <= clock'[n]
      BY <1>0, <1>1, <2>1 DEF TypeOK, Rounds
    <3>2. \A n, p \in Nodes : Waiting(n, p) => Waiting(n, p)'
      BY <1>0, <1>1, <2>1 DEF Waiting
    <3>3. \A n, p \in Nodes, c \in Rounds : Knows(n, p, c) => Knows(n, p, c)'
      BY <1>0, <1>1, <2>1 DEF Knows
    <3> QED BY <1>0, <1>1, <2>1, <3>1, <3>2, <3>3, PollingKept
  <2>6. Single'
    BY <1>0, <1>1, <2>1, SingleKept
  <2>7. Replies'
    BY <1>0, <1>1, <2>1 DEF Replies, Inside, Knows
  <2>8. Left'
    BY <1>0, <1>1, <2>1 DEF Left, Peers
  <2>9. Mutual'
    BY <1>0, <1>1, <2>1, MutualKept DEF Heard, Answering, Knows, Inside
  <2> QED BY <2>2, <2>3, <2>4, <2>5, <2>6, <2>7, <2>8, <2>9 DEF IInv
<1>3. CASE queue[m] # <<>>
  <2>1. queue[m] \in Seq(Polls) /\ queue[m] # <<>>
    BY <1>0, <1>3 DEF TypeOK
  <2>2. /\ Head(queue[m]) \in Polls /\ Head(queue[m]) = queue[m][1] /\ 1 \in 1 .. Len(queue[m])
        /\ Tail(queue[m]) \in Seq(Polls) /\ Len(Tail(queue[m])) = Len(queue[m]) - 1
        /\ Len(queue[m]) \in Nat
        /\ \A i \in 1 .. Len(Tail(queue[m])) :
               i + 1 \in 1 .. Len(queue[m]) /\ Tail(queue[m])[i] = queue[m][i + 1]
    BY <2>1
  <2>3. PICK e \in Polls : e = Head(queue[m])
    BY <2>2
  <2>4. e.from \in Nodes /\ e.clock \in Rounds /\ e.live \in BOOLEAN /\ e # None
    BY PollIsSome DEF Polls
  <2>5. /\ serving' = [serving EXCEPT ![m] = e] /\ queue' = [queue EXCEPT ![m] = Tail(@)]
        /\ seen' = [seen EXCEPT ![m] = @ \cup {<<e.from, e.clock>>}]
        /\ resp' = [resp EXCEPT ![m] = "answer"]
    BY <1>3, <2>3 DEF Accept
  <2>6. /\ serving'[m] = e /\ \A n \in Nodes \ {m} : serving'[n] = serving[n]
        /\ queue'[m] = Tail(queue[m]) /\ \A n \in Nodes \ {m} : queue'[n] = queue[n]
        /\ seen'[m] = seen[m] \cup {<<e.from, e.clock>>}
        /\ \A n \in Nodes \ {m} : seen'[n] = seen[n]
        /\ resp'[m] = "answer"
    BY <1>0, <2>5 DEF TypeOK
  <2>7. GoodPoll(e, m)
    BY <1>0, <2>2, <2>3 DEF Polling
  <2>8. \A n, p \in Nodes, c \in Rounds :
            /\ Knows(n, p, c) => Knows(n, p, c)'
            /\ Knows(n, p, c)' => Knows(n, p, c) \/ (n = m /\ p = e.from /\ e.clock >= c)
    <3> TAKE n \in Nodes, p \in Nodes, c \in Rounds
    <3>1. CASE n = m
      BY <1>1, <2>6, <3>1 DEF Knows
    <3>2. CASE n # m
      BY <1>1, <2>6, <3>2 DEF Knows
    <3> QED BY <3>1, <3>2
  <2>9. ASSUME NEW n \in Nodes, NEW i \in 1 .. Len(queue'[n])
        PROVE  \/ n # m /\ i \in 1 .. Len(queue[n]) /\ queue'[n][i] = queue[n][i]
               \/ n = m /\ i + 1 \in 1 .. Len(queue[n]) /\ queue'[n][i] = queue[n][i + 1]
    <3>1. CASE n = m
      <4>1. queue'[n] = Tail(queue[m])
        BY <2>6, <3>1
      <4>2. i \in 1 .. Len(Tail(queue[m]))
        BY <4>1
      <4> QED BY <2>2, <3>1, <4>1, <4>2
    <3>2. CASE n # m
      BY <2>6, <3>2
    <3> QED BY <3>1, <3>2
  <2>10. TypeOK'
    <3>1. serving' \in [Nodes -> Polls \cup {None}]
      BY <1>0, <2>5 DEF TypeOK
    <3>2. queue' \in [Nodes -> Seq(Polls)]
      BY <1>0, <2>2, <2>5 DEF TypeOK
    <3>3. seen' \in [Nodes -> SUBSET (Nodes \X Rounds)]
      <4>1. seen[m] \cup {<<e.from, e.clock>>} \in SUBSET (Nodes \X Rounds)
        BY <1>0, <2>4 DEF TypeOK
      <4> QED BY <1>0, <2>5, <4>1 DEF TypeOK
    <3> QED BY <1>0, <1>1, <3>1, <3>2, <3>3 DEF TypeOK
  <2>11. Control'
    <3> SUFFICES ASSUME NEW n \in Nodes
                 PROVE  /\ status'[n] \in {"poll", "wait"} => at'[n] \in Peers(n)
                        /\ resp'[n] = "answer" <=> serving'[n] # None
                        /\ status'[n] = "out" => resp'[n] = "off" /\ seen'[n] = {}
                        /\ Inside(n)' => clock'[n] > 0
      BY DEF Control, Peers
    <3>1. CASE n = m
      BY <1>0, <1>1, <2>4, <2>6, <3>1 DEF Control, Inside
    <3>2. CASE n # m
      BY <1>0, <1>1, <2>6, <3>2 DEF Control, Inside
    <3> QED BY <3>1, <3>2
  <2>12. Genuine'
    <3>1. ASSUME NEW n \in Nodes, NEW s \in seen'[n] PROVE s[2] <= clock'[s[1]]
      <4>1. CASE s \in seen[n]
        BY <1>0, <1>1, <4>1 DEF Genuine
      <4>2. CASE s = <<e.from, e.clock>>
        BY <1>1, <2>7, <4>2 DEF GoodPoll
      <4> QED BY <2>6, <4>1, <4>2
    <3> QED BY <1>0, <1>1, <3>1 DEF Genuine
  <2>13. Polling'
    <3>1. ASSUME NEW n \in Nodes, NEW i \in 1 .. Len(queue'[n]) PROVE GoodPoll(queue[n][i], n)'
      <4>1. PICK j \in 1 .. Len(queue[n]) : queue'[n][i] = queue[n][j]
        BY <2>9
      <4>2. GoodPoll(queue[n][j], n)
        BY <1>0 DEF Polling
      <4> QED BY <1>1, <4>1, <4>2 DEF GoodPoll, Waiting
    <3>2. ASSUME NEW n \in Nodes, serving'[n] # None
          PROVE  GoodPoll(serving[n], n)' /\ Knows(n, serving[n].from, serving[n].clock)'
      <4>1. CASE n = m
        <5>1. GoodPoll(serving[n], n)'
          BY <1>1, <2>6, <2>7, <4>1 DEF GoodPoll, Waiting
        <5>2. <<e.from, e.clock>> \in seen'[m] /\ e.clock >= e.clock
          BY <2>4, <2>6 DEF Rounds
        <5> QED BY <2>6, <4>1, <5>1, <5>2 DEF Knows
      <4>2. CASE n # m
        <5>1. serving[n] # None /\ serving'[n] = serving[n]
          BY <2>6, <3>2, <4>2
        <5>2. GoodPoll(serving[n], n)
          BY <1>0, <5>1 DEF Polling
        <5>3. Knows(n, serving[n].from, serving[n].clock)
          BY <1>0, <5>1 DEF Polling
        <5>4. GoodPoll(serving[n], n)'
          BY <1>1, <5>1, <5>2 DEF GoodPoll, Waiting
        <5> QED BY <1>1, <2>6, <4>2, <5>1, <5>3, <5>4 DEF Knows
      <4> QED BY <4>1, <4>2
    <3> QED BY <3>1, <3>2 DEF Polling
  <2>14. Single'
    <3>1. ASSUME NEW n \in Nodes, NEW i \in 1 .. Len(queue'[n]), NEW j \in 1 .. Len(queue'[n]),
                 queue'[n][i].live, queue'[n][j].live, i # j
          PROVE  queue'[n][i].from # queue'[n][j].from
      <4>1. CASE n # m
        BY <1>0, <2>9, <3>1, <4>1 DEF Single
      <4>2. CASE n = m
        <5>1. /\ i + 1 \in 1 .. Len(queue[n]) /\ queue'[n][i] = queue[n][i + 1]
              /\ j + 1 \in 1 .. Len(queue[n]) /\ queue'[n][j] = queue[n][j + 1]
              /\ i + 1 # j + 1
          BY <2>9, <3>1, <4>2
        <5> QED BY <1>0, <3>1, <5>1 DEF Single
      <4> QED BY <4>1, <4>2
    <3>2. ASSUME NEW n \in Nodes, NEW i \in 1 .. Len(queue'[n]),
                 serving'[n] # None, serving'[n].live, queue'[n][i].live
          PROVE  serving'[n].from # queue'[n][i].from
      <4>1. CASE n # m
        BY <1>0, <2>6, <2>9, <3>2, <4>1 DEF Single
      <4>2. CASE n = m
        <5>1. /\ i + 1 \in 1 .. Len(queue[n]) /\ queue'[n][i] = queue[n][i + 1]
              /\ 1 \in 1 .. Len(queue[n]) /\ serving'[n] = queue[n][1] /\ 1 # i + 1
          BY <2>2, <2>3, <2>6, <2>9, <4>2
        <5> QED BY <1>0, <3>2, <5>1 DEF Single
      <4> QED BY <4>1, <4>2
    <3> QED BY <3>1, <3>2 DEF Single
  <2>15. Replies'
    <3>1. \A n \in Nodes : clock'[n] \in Nat /\ clock[n] <= clock'[n]
      BY <1>0, <1>1 DEF TypeOK, Rounds
    <3>2. \A n \in Nodes : status[n] = "wait" => at[n] \in Peers(n)
      BY <1>0 DEF Control
    <3>3. \A n \in Nodes : Inside(n)' <=> Inside(n)
      BY <1>1 DEF Inside
    <3> QED BY <1>0, <1>1, <2>8, <3>1, <3>2, <3>3, RepliesKept
  <2>16. Left'
    BY <1>0, <1>1 DEF Left, Peers
  <2>17. Mutual'
    <3> SUFFICES ASSUME NEW n \in Nodes, NEW p \in Peers(n),
                        clock[p] = clock[n], Inside(p), status[n] # "dead",
                        Knows(n, p, clock[n])'
                 PROVE  \/ Heard(p, n)'
                        \/ <<p, n, clock[p]>> \in gaveUp \cup ahead
                        \/ Answering(n, p)'
      BY <1>1 DEF Mutual, Peers, Inside
    <3>0. p \in Nodes /\ p # n /\ clock[n] \in Rounds
      BY <1>0 DEF Peers, TypeOK
    <3>1. PICK c \in Rounds : c = clock[n]
      BY <3>0
    <3>2. Knows(n, p, c)'
      BY <1>1, <3>1 DEF Knows
    <3>3. CASE Knows(n, p, c)
      <4>1. Heard(p, n) \/ <<p, n, clock[p]>> \in gaveUp \cup ahead \/ Answering(n, p)
        BY <1>0, <3>1, <3>3 DEF Mutual
      <4>2. seen[p] \subseteq seen'[p]
        BY <2>6, <3>0
      <4>3. Heard(p, n) => Heard(p, n)'
        BY <1>1, <4>2 DEF Heard
      <4>4. Answering(n, p) => Answering(n, p)'
        BY <1>1, <2>6 DEF Answering
      <4> QED BY <4>1, <4>3, <4>4
    <3>4. CASE n = m /\ p = e.from /\ e.clock >= c
      <4>1. e.clock = clock[p]
        BY <2>4, <2>7, <3>0, <3>1, <3>4 DEF GoodPoll, Rounds
      <4>2. CASE e.live
        BY <2>4, <2>6, <3>4, <4>2 DEF Answering
      <4>3. CASE ~e.live
        BY <2>7, <3>4, <4>1, <4>3 DEF GoodPoll, Inside
      <4> QED BY <4>2, <4>3
    <3> QED BY <2>8, <3>0, <3>2, <3>3, <3>4
  <2> QED BY <2>10, <2>11, <2>12, <2>13, <2>14, <2>15, <2>16, <2>17 DEF IInv
<1> QED BY <1>2, <1>3

LEMMA AnswerStep == ASSUME IInv, NEW m \in Nodes, Answer(m) PROVE IInv'
<1>0. TypeOK /\ Control /\ Genuine /\ Polling /\ Single /\ Replies /\ Left /\ Mutual
  BY DEF IInv
<1>1. serving[m] # None /\ serving[m] \in Polls
  BY <1>0 DEF Answer, Control, TypeOK
<1>2. PICK e \in Polls : e = serving[m]
  BY <1>1
<1>3. e.from \in Nodes /\ e.clock \in Rounds /\ e.live \in BOOLEAN
  BY DEF Polls
<1>4. /\ serving'[m] = None /\ \A n \in Nodes \ {m} : serving'[n] = serving[n]
      /\ serving' \in [Nodes -> Polls \cup {None}]
      /\ resp'[m] = "check" /\ \A n \in Nodes \ {m} : resp'[n] = resp[n]
      /\ resp' \in [Nodes -> {"off", "check", "accept", "answer"}]
      /\ clock' = clock /\ known' = known /\ at' = at /\ status' = status /\ queue' = queue
      /\ seen' = seen /\ gaveUp' = gaveUp /\ ahead' = ahead
  BY <1>0 DEF Answer, TypeOK, history
<1>5. /\ reply' \in [Nodes -> Rounds]
      /\ e.live => reply'[e.from] = clock[m]
      /\ \A n \in Nodes : (e.live /\ n = e.from) \/ reply'[n] = reply[n]
  <2>1. reply' = IF e.live THEN [reply EXCEPT ![e.from] = clock[m]] ELSE reply
    BY <1>2 DEF Answer
  <2>2. reply \in [Nodes -> Rounds] /\ clock[m] \in Rounds
    BY <1>0 DEF TypeOK
  <2>3. CASE e.live
    BY <1>3, <2>1, <2>2, <2>3
  <2>4. CASE ~e.live
    BY <1>3, <2>1, <2>2, <2>4
  <2> QED BY <2>3, <2>4
<1>6. GoodPoll(e, m) /\ Knows(m, e.from, e.clock)
  BY <1>0, <1>1, <1>2 DEF Polling
<1>7. /\ e.live => status[e.from] = "wait" /\ at[e.from] = m /\ reply[e.from] = 0
      /\ e.live => e.clock = clock[e.from]
  BY <1>6 DEF GoodPoll, Waiting
<1>8. resp[m] = "answer"
  BY DEF Answer
<1>9. TypeOK'
  BY <1>0, <1>4, <1>5 DEF TypeOK
<1>10. Control'
  <2> SUFFICES ASSUME NEW n \in Nodes
               PROVE  /\ status'[n] \in {"poll", "wait"} => at'[n] \in Peers(n)
                      /\ resp'[n] = "answer" <=> serving'[n] # None
                      /\ status'[n] = "out" => resp'[n] = "off" /\ seen'[n] = {}
                      /\ Inside(n)' => clock'[n] > 0
    BY DEF Control, Peers
  <2>1. CASE n = m
    BY <1>0, <1>4, <1>8, <2>1 DEF Control, Inside
  <2>2. CASE n # m
    BY <1>0, <1>4, <2>2 DEF Control, Inside
  <2> QED BY <2>1, <2>2
<1>11. Genuine'
  BY <1>0, <1>4 DEF Genuine
<1>12. Polling'
  <2>1. ASSUME NEW n \in Nodes, NEW f \in Polls, GoodPoll(f, n),
               f.live /\ e.live => f.from # e.from \/ n # m
        PROVE  GoodPoll(f, n)'
    <3>1. f.from \in Nodes /\ f.live \in BOOLEAN
      BY DEF Polls
    <3>2. /\ f.from # n /\ f.clock <= clock'[f.from]
          /\ ~f.live => status'[f.from] = "dead" \/ <<f.from, n, f.clock>> \in gaveUp'
          /\ f.live => f.clock = clock'[f.from]
      BY <1>4, <2>1 DEF GoodPoll
    <3>3. ASSUME f.live PROVE Waiting(f.from, n)'
      <4>1. status[f.from] = "wait" /\ at[f.from] = n /\ reply[f.from] = 0
        BY <2>1, <3>3 DEF GoodPoll, Waiting
      <4>2. ~(e.live /\ f.from = e.from)
        BY <1>7, <2>1, <3>3, <4>1
      <4>3. reply'[f.from] = reply[f.from]
        BY <1>5, <3>1, <4>2
      <4> QED BY <1>4, <4>1, <4>3 DEF Waiting
    <3> QED BY <3>2, <3>3 DEF GoodPoll, Waiting
  <2>2. ASSUME NEW n \in Nodes, NEW i \in 1 .. Len(queue[n]) PROVE GoodPoll(queue[n][i], n)'
    <3>1. queue[n][i] \in Polls /\ GoodPoll(queue[n][i], n)
      BY <1>0 DEF Polling, TypeOK
    <3>2. PICK f \in Polls : f = queue[n][i]
      BY <3>1
    <3>3. f.live /\ e.live => f.from # e.from \/ n # m
      BY <1>0, <1>1, <1>2, <3>2 DEF Single
    <3>4. GoodPoll(f, n)'
      BY <2>1, <3>1, <3>2, <3>3
    <3> QED BY <1>4, <3>2, <3>4 DEF GoodPoll, Waiting
  <2>3. ASSUME NEW n \in Nodes, serving'[n] # None
        PROVE  GoodPoll(serving[n], n)' /\ Knows(n, serving[n].from, serving[n].clock)'
    <3>1. n # m /\ serving'[n] = serving[n] /\ serving[n] # None
      BY <1>4, <2>3
    <3>2. serving[n] \in Polls /\ GoodPoll(serving[n], n) /\ Knows(n, serving[n].from, serving[n].clock)
      BY <1>0, <3>1 DEF Polling, TypeOK
    <3>3. PICK f \in Polls : f = serving[n]
      BY <3>2
    <3>4. GoodPoll(f, n)'
      BY <2>1, <3>1, <3>2, <3>3
    <3>5. GoodPoll(serving[n], n)'
      BY <3>1, <3>3, <3>4 DEF GoodPoll, Waiting
    <3> QED BY <1>4, <3>1, <3>2, <3>5 DEF Knows
  <2> QED BY <1>4, <2>2, <2>3 DEF Polling
<1>13. Single'
  <2>1. \A n \in Nodes : serving'[n] # None => serving'[n] = serving[n]
    BY <1>4
  <2> QED BY <1>0, <1>4, <2>1 DEF Single
<1>14. Replies'
  <2> SUFFICES ASSUME NEW n \in Nodes, reply'[n] # 0
               PROVE  /\ status'[n] = "wait"
                      /\ reply'[n] <= clock'[at'[n]]
                      /\ Inside(at[n])' /\ reply'[n] = clock'[at'[n]] => Knows(at[n], n, clock[n])'
    BY DEF Replies
  <2>1. CASE e.live /\ n = e.from
    <3>1. status[n] = "wait" /\ at[n] = m /\ reply'[n] = clock[m] /\ e.clock = clock[n]
      BY <1>5, <1>7, <2>1
    <3>2. clock[m] <= clock[m]
      BY <1>0 DEF TypeOK, Rounds
    <3>3. Knows(m, n, clock[n])
      BY <1>6, <2>1, <3>1
    <3> QED BY <1>4, <3>1, <3>2, <3>3 DEF Knows
  <2>2. CASE ~(e.live /\ n = e.from)
    <3>1. reply'[n] = reply[n] /\ reply[n] # 0
      BY <1>5, <2>2
    <3>2. /\ status[n] = "wait" /\ reply[n] <= clock[at[n]]
          /\ Inside(at[n]) /\ reply[n] = clock[at[n]] => Knows(at[n], n, clock[n])
      BY <1>0, <3>1 DEF Replies
    <3> QED BY <1>4, <3>1, <3>2 DEF Knows, Inside
  <2> QED BY <2>1, <2>2
<1>15. Left'
  BY <1>0, <1>4 DEF Left, Peers
<1>16. Mutual'
  <2>1. \A n \in Nodes : (Inside(n)' <=> Inside(n)) /\ status'[n] = status[n]
    BY <1>4 DEF Inside
  <2>2. \A n, p \in Nodes, c \in Rounds : Knows(n, p, c)' => Knows(n, p, c)
    BY <1>4 DEF Knows
  <2>3. ASSUME NEW n \in Nodes, NEW p \in Nodes, Inside(p), Heard(p, n) PROVE Heard(p, n)'
    <3>0. clock[p] > 0 /\ reply[p] \in Nat /\ clock[p] \in Nat
      BY <1>0, <2>3 DEF Control, TypeOK, Rounds
    <3>1. CASE reply[p] >= clock[p]
      <4>1. reply[p] # 0
        BY <3>0, <3>1
      <4>2. reply'[p] = reply[p]
        BY <1>5, <1>7, <4>1
      <4> QED BY <1>4, <2>3, <4>2 DEF Heard
    <3>2. CASE ~(reply[p] >= clock[p])
      BY <1>4, <2>3, <3>2 DEF Heard
    <3> QED BY <3>1, <3>2
  <2>4. ASSUME NEW n \in Nodes, NEW p \in Nodes, clock[n] = clock[p], Answering(n, p)
        PROVE  Answering(n, p)' \/ Heard(p, n)'
    <3>1. CASE n # m
      BY <1>4, <2>4, <3>1 DEF Answering
    <3>2. CASE n = m
      <4>1. e.live /\ p = e.from
        BY <1>2, <2>4, <3>2 DEF Answering
      <4>2. status[p] = "wait" /\ at[p] = n /\ reply'[p] = clock[n]
        BY <1>5, <1>7, <3>2, <4>1
      <4>3. reply'[p] >= clock[p]
        BY <1>0, <2>4, <4>2 DEF TypeOK, Rounds
      <4> QED BY <1>4, <4>2, <4>3 DEF Heard
    <3> QED BY <3>1, <3>2
  <2> QED BY <1>0, <1>4, <2>1, <2>2, <2>3, <2>4, MutualKept
<1> QED BY <1>9, <1>10, <1>11, <1>12, <1>13, <1>14, <1>15, <1>16 DEF IInv

-----------------------------------------------------------------------------
(* The invariant, and what follows from it.                                *)

LEMMA InitInv == Init => IInv
<1> SUFFICES ASSUME Init PROVE IInv
  OBVIOUS
<1>0. /\ \A n \in Nodes : /\ clock[n] = 0 /\ at[n] = 0 /\ status[n] = "out" /\ reply[n] = 0
                          /\ resp[n] = "off" /\ serving[n] = None /\ queue[n] = <<>>
                          /\ seen[n] = {} /\ n # 0
      /\ \A n, p \in Nodes : known[n][p] = 0
  BY DEF Init, Nodes
<1>1. TypeOK
  <2>1. 0 \in Rounds /\ 0 \in 0 .. N /\ <<>> \in Seq(Polls)
    BY DEF Rounds
  <2>2. known \in [Nodes -> [Nodes -> Rounds]]
    BY <2>1 DEF Init
  <2> QED BY <1>0, <2>1, <2>2 DEF Init, TypeOK
<1>2. Control
  BY <1>0 DEF Control, Inside
<1>3. Genuine
  BY <1>0 DEF Genuine
<1>4. Polling /\ Single
  <2>1. \A n \in Nodes : 1 .. Len(queue[n]) = {}
    BY <1>0
  <2> QED BY <1>0, <2>1 DEF Polling, Single
<1>5. Replies
  BY <1>0 DEF Replies
<1>6. Left
  BY <1>0 DEF Left, Peers
<1>7. Mutual
  BY <1>0 DEF Mutual, Inside, Peers
<1> QED BY <1>1, <1>2, <1>3, <1>4, <1>5, <1>6, <1>7 DEF IInv

LEMMA StutterInv == ASSUME IInv, UNCHANGED vars PROVE IInv'
<1>0. TypeOK /\ Control /\ Genuine /\ Polling /\ Single /\ Replies /\ Left /\ Mutual
  BY DEF IInv
<1>1. /\ clock' = clock /\ known' = known /\ at' = at /\ status' = status /\ reply' = reply
      /\ resp' = resp /\ serving' = serving /\ queue' = queue /\ seen' = seen
      /\ gaveUp' = gaveUp /\ ahead' = ahead
  BY DEF vars, mainVars, respVars, history
<1>2. TypeOK' /\ Control' /\ Genuine'
  BY <1>0, <1>1 DEF TypeOK, Control, Genuine, Inside, Peers
<1>3. Polling'
  BY <1>0, <1>1 DEF Polling, GoodPoll, Waiting, Knows
<1>4. Single' /\ Left'
  BY <1>0, <1>1 DEF Single, Left, Peers
<1>5. Replies'
  BY <1>0, <1>1 DEF Replies, Inside, Knows
<1>6. Mutual'
  BY <1>0, <1>1 DEF Mutual, Inside, Knows, Heard, Answering, Peers
<1> QED BY <1>2, <1>3, <1>4, <1>5, <1>6 DEF IInv

LEMMA NextInv == IInv /\ [Next]_vars => IInv'
<1> SUFFICES ASSUME IInv, [Next]_vars PROVE IInv'
  OBVIOUS
<1>1. CASE UNCHANGED vars
  BY <1>1, StutterInv
<1>2. ASSUME NEW n \in Nodes, Enter(n) \/ PollTimeout(n) \/ Exit(n) PROVE IInv'
  BY <1>2, EnterStep, PollTimeoutStep, ExitStep
<1>3. ASSUME NEW n \in Nodes, Calling(n) PROVE IInv'
  BY <1>3, DrainStep, PollStep, PollDoneStep, PollBrokenStep, AgainStep, LeaveStep DEF Calling
<1>4. ASSUME NEW n \in Nodes, Responder(n) PROVE IInv'
  BY <1>4, CheckFlagStep, AcceptStep, AnswerStep DEF Responder
<1> QED BY <1>1, <1>2, <1>3, <1>4 DEF Next

LEMMA Invariance == Spec => []IInv
BY InitInv, NextInv, PTL DEF Spec

(* The state of every node stays within its type, in any number of rounds, *)
(* with any pattern of time-outs and exits.                                *)
THEOREM TypesCorrect == Spec => []TypeOK
<1>1. IInv => TypeOK
  BY DEF IInv
<1> QED BY <1>1, Invariance, PTL

(* synch blocks until every other node has called it as many times as this *)
(* one: Left, that a node leaves having heard every peer, and Genuine,     *)
(* that nobody is thought further than it is.                              *)
THEOREM NobodyLeavesEarly == Spec => []NoEarlyLeave
<1>1. ASSUME IInv, NEW n \in Nodes, NEW p \in Nodes, status[n] \in {"leave", "out"}
      PROVE  clock[p] >= clock[n]
  <2>1. TypeOK /\ Left /\ Genuine
    BY <1>1 DEF IInv
  <2>2. clock[n] \in Nat /\ clock[p] \in Nat /\ known[n][p] \in Nat
    BY <2>1 DEF TypeOK, Rounds
  <2>3. CASE p = n
    BY <2>2, <2>3
  <2>4. CASE p # n
    <3>1. known[n][p] >= clock[n]
      BY <1>1, <2>1, <2>4 DEF Left, Peers
    <3>2. known[n][p] <= clock[p]
      BY <2>1 DEF Genuine
    <3> QED BY <2>2, <3>1, <3>2
  <2> QED BY <2>3, <2>4
<1>2. IInv => NoEarlyLeave
  BY <1>1 DEF NoEarlyLeave
<1> QED BY <1>2, Invariance, PTL

(* A node that has left its barrier has been heard by every peer still in  *)
(* that round, unless the peer gave up on its reply or was already known   *)
(* to be in the round when the node entered: the two cases, and the only   *)
(* ones, in which GlobalSynch can strand a node.                           *)
THEOREM HeardBeforeLeaving == Spec => []HeardBeforeLeft
<1>1. ASSUME IInv, NEW n \in Nodes, NEW p \in Nodes, Missed(p, n)
      PROVE  <<p, n, clock[p]>> \in gaveUp \cup ahead
  <2>0. TypeOK /\ Control /\ Left /\ Genuine /\ Mutual
    BY <1>1 DEF IInv
  <2>1. p # n /\ status[n] = "out" /\ Inside(p) /\ clock[p] <= clock[n] /\ ~Heard(p, n)
    BY <1>1 DEF Missed
  <2>2. clock[n] \in Nat /\ clock[p] \in Nat /\ known[n][p] \in Nat
    BY <2>0 DEF TypeOK, Rounds
  <2>3. known[n][p] >= clock[n] /\ p \in Peers(n)
    BY <2>0, <2>1 DEF Left, Peers
  <2>4. known[n][p] <= clock[p]
    BY <2>0 DEF Genuine
  <2>5. clock[p] = clock[n]
    BY <2>1, <2>2, <2>3, <2>4
  <2>6. serving[n] = None
    BY <2>0, <2>1 DEF Control
  <2>7. Knows(n, p, clock[n])
    BY <2>3 DEF Knows
  <2>8. status[n] # "dead"
    BY <2>1
  <2>9. Heard(p, n) \/ <<p, n, clock[p]>> \in gaveUp \cup ahead \/ Answering(n, p)
    BY <2>0, <2>1, <2>3, <2>5, <2>7, <2>8 DEF Mutual
  <2> QED BY <2>1, <2>6, <2>9 DEF Answering
<1>2. IInv => HeardBeforeLeft
  BY <1>1 DEF HeardBeforeLeft
<1> QED BY <1>2, Invariance, PTL
=============================================================================
