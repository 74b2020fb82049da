------------------------------- MODULE Barrier ------------------------------
(***************************************************************************)
(* GlobalSynch, the barrier that holds the phases of the cluster tests     *)
(* apart (src/tests/common/mod.rs).  Inside synch a node has two threads:  *)
(* the calling one polls the other nodes, the responder answers polls.     *)
(* The listener, and with it the polls waiting to be accepted, lives as    *)
(* long as the call.                                                       *)
(***************************************************************************)
EXTENDS Naturals, Sequences, FiniteSets

CONSTANTS
    N,           \* nodes of the cluster
    Faults,      \* "exit": a process dies, or ends itself at the deadline
    MaxRounds,   \* bound: calls of synch by a node
    MaxTimeouts  \* bound: polls that wait longer than SYNCH_IO_TIMEOUT

ASSUME NAssumption == N \in Nat \ {0} /\ MaxRounds \in Nat /\ MaxTimeouts \in Nat
ASSUME FaultsAssumption == Faults \subseteq {"exit"}

VARIABLES
    clock,    \* how many times the node has entered a barrier
    known,    \* the highest clock heard from each peer
    at,       \* the calling thread: which peer it has come to
    status,   \* and what it is doing
    reply,    \* the reply that has arrived for its poll, 0 when none has
    resp,     \* the responder thread
    serving,  \* the poll the responder is answering
    queue,    \* polls in the listener's backlog
    seen,     \* the channel from the responder to the calling thread
    gaveUp,   \* history: <<poller, peer, clock>> of polls that timed out
    ahead     \* history: <<peer, node, clock>>: the node entered that round
              \* knowing that the peer was already in it

mainVars == <<clock, known, at, status, reply>>
respVars == <<resp, serving, queue, seen>>
history  == <<gaveUp, ahead>>
vars     == <<mainVars, respVars, history>>

Nodes    == 1 .. N
None     == <<>>

(* Mutant: a node is its own peer.                                         *)
Everybody(n) == Nodes

(* TestCluster::others.                                                    *)
Peers(n) == Nodes \ {n}

Later(a, b) == IF a > b THEN a ELSE b

Inside(n) == status[n] \notin {"out", "dead"}

Init ==
    /\ clock = [n \in Nodes |-> 0]
    /\ known = [n \in Nodes |-> [p \in Nodes |-> 0]]
    /\ at = [n \in Nodes |-> 0]
    /\ status = [n \in Nodes |-> "out"]
    /\ reply = [n \in Nodes |-> 0]
    /\ resp = [n \in Nodes |-> "off"]
    /\ serving = [n \in Nodes |-> None]
    /\ queue = [n \in Nodes |-> <<>>]
    /\ seen = [n \in Nodes |-> {}]
    /\ gaveUp = {} /\ ahead = {}

-----------------------------------------------------------------------------
(* The calling thread.                                                     *)

(* synch: raise the clock, listen, start the responder.                    *)
Enter(n) ==
    /\ status[n] = "out"
    /\ clock[n] < MaxRounds
    /\ clock' = [clock EXCEPT ![n] = @ + 1]
    /\ status' = [status EXCEPT ![n] = "drain"]
    /\ resp' = [resp EXCEPT ![n] = "check"]
    /\ ahead' = ahead \cup {<<p, n, clock[n] + 1>> : p \in {q \in Peers(n) : known[n][q] > clock[n]}}
    /\ UNCHANGED <<known, at, reply, serving, queue, seen, gaveUp>>

(* Mutant: one barrier behind is good enough.                              *)
UnheardLax(n, heard) == {p \in Peers(n) : heard[p] + 1 < clock[n]}

(* Peers this node has not heard from in this round.                       *)
Unheard(n, heard) == {p \in Peers(n) : heard[p] < clock[n]}

(* What it knows after the responder's reports.                            *)
Drained(n) ==
    [p \in Nodes |->
        LET told == {s[2] : s \in {t \in seen[n] : t[1] = p}}
        IN  CHOOSE c \in told \cup {known[n][p]} :
                \A d \in told \cup {known[n][p]} : Later(c, d) = c]

(* The loop's next unheard peer after position i: the first step of the    *)
(* next poll, or the end of the pass.                                      *)
GoTo(n, i, heard) ==
    LET rest == {p \in Unheard(n, heard) : p > i}
    IN  /\ at' = [at EXCEPT ![n] = IF rest = {} THEN 0
                                   ELSE CHOOSE p \in rest : \A q \in rest : p <= q]
        /\ status' = [status EXCEPT ![n] = IF rest = {} THEN "end" ELSE "poll"]

(* A new pass: read the reports; with every peer heard from, leave.        *)
Drain(n) ==
    /\ status[n] = "drain"
    /\ known' = [known EXCEPT ![n] = Drained(n)]
    /\ seen' = [seen EXCEPT ![n] = {}]
    /\ IF Unheard(n, Drained(n)) = {}
       THEN status' = [status EXCEPT ![n] = "leave"] /\ UNCHANGED at
       ELSE GoTo(n, 0, Drained(n))
    /\ UNCHANGED <<clock, reply, resp, serving, queue, history>>

(* poll: connect and send the clock.  A peer outside its barrier refuses.  *)
Poll(n) ==
    LET p == at[n]
    IN  /\ status[n] = "poll"
        /\ IF Inside(p)
           THEN /\ queue' = [queue EXCEPT ![p] =
                                Append(@, [from |-> n, clock |-> clock[n], live |-> TRUE])]
                /\ status' = [status EXCEPT ![n] = "wait"]
                /\ UNCHANGED at
           ELSE GoTo(n, p, known[n]) /\ UNCHANGED queue
        /\ UNCHANGED <<clock, known, reply, resp, serving, seen, history>>

(* The reply is read.                                                      *)
PollDone(n) ==
    LET heard == [known[n] EXCEPT ![at[n]] = Later(@, reply[n])]
    IN  /\ status[n] = "wait"
        /\ reply[n] # 0
        /\ known' = [known EXCEPT ![n] = heard]
        /\ reply' = [reply EXCEPT ![n] = 0]
        /\ GoTo(n, at[n], heard)
        /\ UNCHANGED <<clock, respVars, history>>

(* The poll n has open, when the peer still holds it.                      *)
Open(n, e) == e # None /\ e.from = n /\ e.live

(* The peer closed its listener on the waiting poll: the read fails.       *)
PollBroken(n) ==
    LET p == at[n]
    IN  /\ status[n] = "wait"
        /\ reply[n] = 0
        /\ ~Open(n, serving[p])
        /\ \A i \in DOMAIN queue[p] : ~Open(n, queue[p][i])
        /\ GoTo(n, p, known[n])
        /\ UNCHANGED <<clock, known, reply, respVars, history>>

(* n closes its end: what the peer has received of the poll stays there.   *)
Dead(e, n) == IF Open(n, e) THEN [e EXCEPT !.live = FALSE] ELSE e
Hangup(n) ==
    /\ queue' = [p \in Nodes |-> IF p = n /\ status'[n] = "dead" THEN <<>>
                                 ELSE [i \in DOMAIN queue[p] |-> Dead(queue[p][i], n)]]
    /\ serving' = [p \in Nodes |-> IF p = n /\ status'[n] = "dead" THEN None
                                   ELSE Dead(serving[p], n)]

(* SYNCH_IO_TIMEOUT passes without a reply.                                *)
PollTimeout(n) ==
    /\ status[n] = "wait"
    /\ reply[n] = 0
    /\ Cardinality(gaveUp) < MaxTimeouts
    /\ gaveUp' = gaveUp \cup {<<n, at[n], clock[n]>>}
    /\ GoTo(n, at[n], known[n])
    /\ Hangup(n)
    /\ UNCHANGED <<clock, known, reply, resp, seen, ahead>>

(* The pass is over; sleep and start the next one.                         *)
Again(n) ==
    /\ status[n] = "end"
    /\ status' = [status EXCEPT ![n] = "drain"]
    /\ UNCHANGED <<clock, known, at, reply, respVars, history>>

(* Mutant: the responder is not joined.                                    *)
Unjoined(n) == TRUE

(* responder.join: the thread is over, and the listener closed with it.    *)
Joined(n) == resp[n] = "off"

Leave(n) ==
    /\ status[n] = "leave"
    /\ Joined(n)
    /\ status' = [status EXCEPT ![n] = "out"]
    /\ resp' = [resp EXCEPT ![n] = "off"]
    /\ serving' = [serving EXCEPT ![n] = None]
    /\ queue' = [queue EXCEPT ![n] = <<>>]
    /\ seen' = [seen EXCEPT ![n] = {}]
    /\ UNCHANGED <<clock, known, at, reply, history>>

(* The process ends: in bail_out at the deadline, or in a crash.           *)
Exit(n) ==
    /\ "exit" \in Faults
    /\ status[n] # "dead"
    /\ status' = [status EXCEPT ![n] = "dead"]
    /\ resp' = [resp EXCEPT ![n] = "off"]
    /\ seen' = [seen EXCEPT ![n] = {}]
    /\ reply' = [reply EXCEPT ![n] = 0]
    /\ at' = [at EXCEPT ![n] = 0]
    /\ Hangup(n)
    /\ UNCHANGED <<clock, known, history>>

-----------------------------------------------------------------------------
(* The responder thread.                                                   *)

(* Mutant: the flag is not looked at.                                      *)
NoFlag(n) == FALSE

(* The flag the calling thread raises when it leaves the loop.             *)
Shutdown(n) == status[n] = "leave"

(* It is looked at between two polls.                                      *)
CheckFlag(n) ==
    /\ resp[n] = "check"
    /\ resp' = [resp EXCEPT ![n] = IF Shutdown(n) THEN "off" ELSE "accept"]
    /\ UNCHANGED <<mainVars, serving, queue, seen, history>>

(* accept, or nothing to accept; answer reads the poller's clock and       *)
(* reports it ...                                                          *)
Accept(n) ==
    /\ resp[n] = "accept"
    /\ IF queue[n] = <<>>
       THEN resp' = [resp EXCEPT ![n] = "check"] /\ UNCHANGED <<serving, queue, seen>>
       ELSE /\ serving' = [serving EXCEPT ![n] = Head(queue[n])]
            /\ queue' = [queue EXCEPT ![n] = Tail(@)]
            /\ seen' = [seen EXCEPT ![n] = @ \cup {<<Head(queue[n]).from, Head(queue[n]).clock>>}]
            /\ resp' = [resp EXCEPT ![n] = "answer"]
    /\ UNCHANGED <<mainVars, history>>

(* ... and then sends its own, which reaches a poller that still waits.    *)
Answer(n) ==
    LET e == serving[n]
    IN  /\ resp[n] = "answer"
        /\ reply' = IF e.live THEN [reply EXCEPT ![e.from] = clock[n]] ELSE reply
        /\ serving' = [serving EXCEPT ![n] = None]
        /\ resp' = [resp EXCEPT ![n] = "check"]
        /\ UNCHANGED <<clock, known, at, status, queue, seen, history>>

-----------------------------------------------------------------------------
Calling(n) == Drain(n) \/ Poll(n) \/ PollDone(n) \/ PollBroken(n) \/ Again(n) \/ Leave(n)
Responder(n) == CheckFlag(n) \/ Accept(n) \/ Answer(n)

Next == \E n \in Nodes :
    Enter(n) \/ Calling(n) \/ Responder(n) \/ PollTimeout(n) \/ Exit(n)

(* Both threads of a node inside the barrier keep running.  Nobody has to  *)
(* enter.                                                                  *)
Fairness == \A n \in Nodes : WF_vars(Calling(n)) /\ WF_vars(Responder(n))

Spec     == Init /\ [][Next]_vars
FairSpec == Spec /\ Fairness

-----------------------------------------------------------------------------
Rounds == 0 .. MaxRounds
Polls  == [from : Nodes, clock : Rounds, live : BOOLEAN]

TypeOK ==
    /\ clock \in [Nodes -> Rounds]
    /\ known \in [Nodes -> [Nodes -> Rounds]]
    /\ at \in [Nodes -> 0 .. N] /\ \A n \in Nodes : at[n] # n
    /\ status \in [Nodes -> {"out", "drain", "poll", "wait", "end", "leave", "dead"}]
    /\ reply \in [Nodes -> Rounds]
    /\ resp \in [Nodes -> {"off", "check", "accept", "answer"}]
    /\ serving \in [Nodes -> Polls \cup {None}]
    /\ queue \in [Nodes -> Seq(Polls)]
    /\ seen \in [Nodes -> SUBSET (Nodes \X Rounds)]
    /\ gaveUp \subseteq Nodes \X Nodes \X Rounds
    /\ ahead \subseteq Nodes \X Nodes \X Rounds

(* synch "blocks until every other node has called `synch` at least as     *)
(* many times as this one has": a node that leaves, or has left, its k-th  *)
(* barrier finds every other node in the k-th or a later one.              *)
NoEarlyLeave ==
    \A n, p \in Nodes : status[n] \in {"leave", "out"} => clock[p] >= clock[n]

(* p knows that n is in p's round, or is about to find out.               *)
Heard(p, n) ==
    \/ known[p][n] >= clock[p]
    \/ \E s \in seen[p] : s[1] = n /\ s[2] >= clock[p]
    \/ status[p] = "wait" /\ at[p] = n /\ reply[p] >= clock[p]

Missed(p, n) ==
    /\ p # n /\ status[n] = "out" /\ clock[n] > 0
    /\ Inside(p) /\ clock[p] <= clock[n]
    /\ ~Heard(p, n)

(* "No peer ever still needs to hear from a node that has left", the       *)
(* comment on GlobalSynch that justifies listening only inside synch.      *)
NobodyStranded == \A n, p \in Nodes : ~Missed(p, n)

(* The same, in the cases in which the protocol does keep the promise: the *)
(* peer did not give up waiting for that node's reply in this round, and   *)
(* the node did not enter the round with the peer's clock already known.   *)
HeardBeforeLeft ==
    \A n, p \in Nodes : Missed(p, n) =>
        <<p, n, clock[p]>> \in gaveUp \cup ahead

(* Once every node has called synch k times, every node gets past its k-th *)
(* barrier, as long as no process ends, no poll times out and no node      *)
(* enters a round with a peer's clock for it already known.                *)
RoundCompletes ==
    [](gaveUp = {} /\ ahead = {} /\ \A n \in Nodes : status[n] # "dead") =>
        \A k \in 1 .. MaxRounds :
            (\A n \in Nodes : clock[n] >= k)
                ~> (\A n \in Nodes : clock[n] > k \/ status[n] = "out")
=============================================================================
