-------------------------- MODULE ConnectionsProofs --------------------------
(* Proofs about Connections, for any connections and devices.              *)
EXTENDS Connections, TLAPS

Kinds == {"channel", "id", "cq", "qp"}

(* What a connection holds exists, and what exists of its own it holds,    *)
(* but for a child id that was swallowed.  Creation and destruction keep   *)
(* to one order, so that every prefix of a set-up and every suffix of a    *)
(* drop holds what the rest is used through.                               *)
Owned(k) ==
    /\ \A kind \in Kinds : <<kind, k>> \in alive <=> kind \in holds[k] \/ <<kind, k>> \in lost
    /\ at[k] \in {"unused", "gone"} => holds[k] = {}
    /\ at[k] = "unused" => k \notin accepted /\ pd[k] = NoPd
    /\ at[k] = "up" => "qp" \in holds[k]
    /\ "qp" \in holds[k] => "id" \in holds[k] /\ "cq" \in holds[k]
    /\ "id" \in holds[k] => k \in accepted \/ "channel" \in holds[k]
    /\ at[k] = "building" => ("cq" \in holds[k] => "id" \in holds[k])

(* The domain of a queue pair, and the one a set-up is about to use.       *)
Placed(k) ==
    /\ at[k] # "building" => arg[k] = NoPd
    /\ at[k] = "building" /\ "qp" \notin holds[k] =>
           pd[k] = NoPd /\ ("cq" \in holds[k] => arg[k] # NoPd)
    /\ "qp" \in holds[k] => arg[k] = NoPd /\ pd[k] # NoPd /\ dev[pd[k]] = dev[k]
    /\ arg[k] # NoPd => dev[arg[k]] = dev[k]

(* A domain exists as long as somebody has a handle of it, and no longer.  *)
Domains ==
    \A p \in Conns : <<"pd", p>> \in alive <=> Holders(p, pd, arg, clones) # {}

Losses ==
    \A o \in lost : \/ o = <<"channel", "listener">> /\ lst = "gone"
                    \/ \E k \in accepted : at[k] = "gone" /\ o = <<"id", k>>

Bound ==
    /\ <<"channel", "listener">> \in alive <=>
           lst \in {"channel", "id", "up", "closing"} \/ <<"channel", "listener">> \in lost
    /\ <<"id", "listener">> \in alive => lst \in {"id", "up", "closing"}
    /\ \A kind \in {"cq", "qp", "pd"} : <<kind, "listener">> \notin alive
    /\ accepted # {} => lst \in {"up", "closing", "gone"}

IInv ==
    /\ TypeOK /\ Domains /\ Losses /\ Bound
    /\ \A k \in Conns : Owned(k) /\ Placed(k)

-----------------------------------------------------------------------------
(* What a step leaves alone.                                               *)

(* A connection a step is not about.                                       *)
LEMMA OtherKept ==
    ASSUME NEW q \in Conns, Owned(q), Placed(q), dev' = dev,
           at'[q] = at[q], holds'[q] = holds[q], pd'[q] = pd[q], arg'[q] = arg[q],
           q \in accepted' <=> q \in accepted,
           \A kind \in Kinds : /\ <<kind, q>> \in alive' <=> <<kind, q>> \in alive
                               /\ <<kind, q>> \in lost' <=> <<kind, q>> \in lost
    PROVE  Owned(q)' /\ Placed(q)'
<1>1. Owned(q)'
  BY DEF Owned
<1>2. Placed(q)'
  BY DEF Placed
<1> QED BY <1>1, <1>2

(* A step of connection k: it loses nothing and leaves the listener and    *)
(* the other connections alone.                                            *)
LEMMA ConnStep ==
    ASSUME IInv, TypeOK', NEW k \in Conns, dev' = dev, lst' = lst, lost' = lost,
           at[k] # "gone",
           accepted' = accepted \/ (accepted' = accepted \cup {k} /\ lst = "up"),
           \A q \in Conns : q # k => /\ at'[q] = at[q] /\ holds'[q] = holds[q]
                                     /\ pd'[q] = pd[q] /\ arg'[q] = arg[q],
           \A q \in Conns \cup {"listener"} : q # k =>
               \A kind \in Kinds : <<kind, q>> \in alive' <=> <<kind, q>> \in alive,
           <<"pd", "listener">> \notin alive',
           Owned(k)', Placed(k)', Domains'
    PROVE  IInv'
<1>0. TypeOK /\ Losses /\ Bound /\ \A q \in Conns : Owned(q) /\ Placed(q)
  BY DEF IInv
<1>1. ASSUME NEW q \in Conns PROVE Owned(q)' /\ Placed(q)'
  <2>1. CASE q = k
    BY <2>1
  <2>2. CASE q # k
    BY <1>0, <2>2, OtherKept
  <2> QED BY <2>1, <2>2
<1>2. Losses'
  <2> SUFFICES ASSUME NEW o \in lost
               PROVE  \/ o = <<"channel", "listener">> /\ lst = "gone"
                      \/ \E q \in accepted' : at'[q] = "gone" /\ o = <<"id", q>>
    BY DEF Losses
  <2>1. CASE o = <<"channel", "listener">> /\ lst = "gone"
    BY <2>1
  <2>2. CASE \E q \in accepted : at[q] = "gone" /\ o = <<"id", q>>
    BY <1>0, <2>2 DEF TypeOK
  <2> QED BY <1>0, <2>1, <2>2 DEF Losses
<1>3. Bound'
  <2>1. "listener" # k
    BY ConnsAssumption
  <2>2. \A kind \in Kinds : <<kind, "listener">> \in alive' <=> <<kind, "listener">> \in alive
    BY <2>1
  <2> QED BY <1>0, <2>2 DEF Bound, Kinds
<1> QED BY <1>1, <1>2, <1>3 DEF IInv

(* Nobody's handle of a domain moves.                                      *)
LEMMA DomainsKept ==
    ASSUME Domains, pd' = pd, arg' = arg, clones' = clones,
           \A p \in Conns : <<"pd", p>> \in alive' <=> <<"pd", p>> \in alive
    PROVE  Domains'
BY DEF Domains, Holders

(* Handles are given up, and the domains nobody holds any more released.   *)
LEMMA Release ==
    ASSUME IInv, NEW pds, NEW args, NEW cs,
           \A p \in Conns : Holders(p, pds, args, cs) \subseteq Holders(p, pd, arg, clones)
    PROVE  /\ \A p \in Conns : <<"pd", p>> \in alive \ Unused(pds, args, cs)
                                 <=> Holders(p, pds, args, cs) # {}
           /\ \A kind \in Kinds, q \in Conns \cup {"listener"} :
                  <<kind, q>> \in alive \ Unused(pds, args, cs) <=> <<kind, q>> \in alive
           /\ lost \subseteq alive \ Unused(pds, args, cs)
           /\ <<"pd", "listener">> \notin alive \ Unused(pds, args, cs)
<1>0. TypeOK /\ Domains /\ Losses /\ Bound
  BY DEF IInv
<1>1. ASSUME NEW p \in Conns
      PROVE  <<"pd", p>> \in alive \ Unused(pds, args, cs) <=> Holders(p, pds, args, cs) # {}
  <2>1. <<"pd", p>>[1] = "pd" /\ <<"pd", p>>[2] = p
    OBVIOUS
  <2>2. <<"pd", p>> \in alive <=> Holders(p, pd, arg, clones) # {}
    BY <1>0 DEF Domains
  <2>3. Holders(p, pds, args, cs) # {} => Holders(p, pd, arg, clones) # {}
    OBVIOUS
  <2>4. <<"pd", p>> \in Unused(pds, args, cs)
            <=> <<"pd", p>> \in alive /\ Holders(p, pds, args, cs) = {}
    BY <2>1 DEF Unused
  <2> QED BY <2>2, <2>3, <2>4
<1>2. ASSUME NEW kind \in Kinds, NEW q \in Conns \cup {"listener"}
      PROVE  <<kind, q>> \notin Unused(pds, args, cs)
  BY DEF Unused, Kinds
<1>3. lost \cap Unused(pds, args, cs) = {}
  <2> SUFFICES ASSUME NEW o \in lost, o \in Unused(pds, args, cs) PROVE FALSE
    OBVIOUS
  <2>1. o[1] = "pd"
    BY DEF Unused
  <2>2. o[1] = "channel" \/ o[1] = "id"
    BY <1>0 DEF Losses
  <2> QED BY <2>1, <2>2
<1>4. lost \subseteq alive /\ <<"pd", "listener">> \notin alive
  BY <1>0 DEF TypeOK, Bound
<1> QED BY <1>1, <1>2, <1>3, <1>4

(* The objects of connection k, where a step creates or destroys one.      *)
LEMMA PairFacts ==
    ASSUME NEW a, NEW b, NEW x, NEW y PROVE <<a, x>> = <<b, y>> <=> a = b /\ x = y
OBVIOUS

-----------------------------------------------------------------------------
(* Set-up.                                                                 *)

LEMMA ConnectStep == ASSUME IInv, NEW k \in Conns, Connect(k) PROVE IInv'
<1>0. TypeOK /\ Domains /\ Losses /\ Bound /\ Owned(k) /\ Placed(k)
  BY DEF IInv
<1>1. /\ at[k] = "unused" /\ at' = [at EXCEPT ![k] = "building"]
      /\ alive' = alive \cup {<<"channel", k>>}
      /\ holds' = [holds EXCEPT ![k] = {"channel"}]
      /\ accepted' = accepted /\ dev' = dev /\ pd' = pd /\ arg' = arg
      /\ clones' = clones /\ lst' = lst /\ lost' = lost
  BY DEF Connect
<1>2. /\ at'[k] = "building" /\ holds'[k] = {"channel"}
      /\ \A q \in Conns : q # k => at'[q] = at[q] /\ holds'[q] = holds[q]
  BY <1>0, <1>1 DEF TypeOK
<1>3. TypeOK'
  BY <1>0, <1>1 DEF TypeOK
<1>4. \A kind, q : <<kind, q>> \in alive' <=>
          <<kind, q>> \in alive \/ (kind = "channel" /\ q = k)
  BY <1>1, PairFacts
<1>5. Owned(k)'
  <2>1. ASSUME NEW kind \in Kinds
        PROVE <<kind, k>> \in alive' <=> kind \in holds'[k] \/ <<kind, k>> \in lost'
    BY <1>0, <1>1, <1>2, <1>4 DEF Owned
  <2> QED BY <1>0, <1>1, <1>2, <2>1 DEF Owned
<1>6. Placed(k)'
  BY <1>0, <1>1, <1>2 DEF Placed, Owned
<1>7. Domains'
  BY <1>0, <1>1, <1>4, DomainsKept
<1>8. <<"pd", "listener">> \notin alive'
  BY <1>0, <1>4 DEF Bound
<1> QED BY <1>1, <1>2, <1>3, <1>4, <1>5, <1>6, <1>7, <1>8, ConnStep

LEMMA RequestStep == ASSUME IInv, NEW k \in Conns, Request(k) PROVE IInv'
<1>0. TypeOK /\ Domains /\ Losses /\ Bound /\ Owned(k) /\ Placed(k)
  BY DEF IInv
<1>1. /\ lst = "up" /\ at[k] = "unused" /\ at' = [at EXCEPT ![k] = "building"]
      /\ alive' = alive \cup {<<"id", k>>}
      /\ holds' = [holds EXCEPT ![k] = {"id"}]
      /\ accepted' = accepted \cup {k} /\ dev' = dev /\ pd' = pd /\ arg' = arg
      /\ clones' = clones /\ lst' = lst /\ lost' = lost
  BY DEF Request
<1>2. /\ at'[k] = "building" /\ holds'[k] = {"id"}
      /\ \A q \in Conns : q # k => at'[q] = at[q] /\ holds'[q] = holds[q]
  BY <1>0, <1>1 DEF TypeOK
<1>3. TypeOK'
  BY <1>0, <1>1 DEF TypeOK
<1>4. \A kind, q : <<kind, q>> \in alive' <=>
          <<kind, q>> \in alive \/ (kind = "id" /\ q = k)
  BY <1>1, PairFacts
<1>5. Owned(k)'
  <2>1. ASSUME NEW kind \in Kinds
        PROVE <<kind, k>> \in alive' <=> kind \in holds'[k] \/ <<kind, k>> \in lost'
    BY <1>0, <1>1, <1>2, <1>4 DEF Owned
  <2> QED BY <1>0, <1>1, <1>2, <2>1 DEF Owned
<1>6. Placed(k)'
  BY <1>0, <1>1, <1>2 DEF Placed, Owned
<1>7. Domains'
  BY <1>0, <1>1, <1>4, DomainsKept
<1>8. <<"pd", "listener">> \notin alive'
  BY <1>0, <1>4 DEF Bound
<1> QED BY <1>1, <1>2, <1>3, <1>4, <1>5, <1>6, <1>7, <1>8, ConnStep

(* A set-up creates the next object.                                       *)
LEMMA CreateStep ==
    ASSUME IInv, NEW k \in Conns, NEW kind \in {"id", "cq", "qp"}, Create(k, kind),
           at[k] = "building", at' = at, accepted' = accepted, dev' = dev,
           clones' = clones, lst' = lst, lost' = lost,
           pd' \in [Conns -> Conns \cup {NoPd}], arg' \in [Conns -> Conns \cup {NoPd}],
           \A q \in Conns : q # k => pd'[q] = pd[q] /\ arg'[q] = arg[q],
           \A p \in Conns : Holders(p, pd, arg, clones) # {}
                              <=> Holders(p, pd', arg', clones') # {},
           kind = "id" => k \in accepted \/ "channel" \in holds[k],
           kind # "id" => "id" \in holds[k],
           kind = "qp" => "cq" \in holds[k],
           Placed(k)'
    PROVE  IInv'
<1>0. TypeOK /\ Domains /\ Losses /\ Bound /\ Owned(k) /\ Placed(k)
  BY DEF IInv
<1>1. /\ alive' = alive \cup {<<kind, k>>}
      /\ holds' = [holds EXCEPT ![k] = @ \cup {kind}]
  BY DEF Create
<1>2. /\ holds'[k] = holds[k] \cup {kind}
      /\ \A q \in Conns : q # k => holds'[q] = holds[q]
  BY <1>0, <1>1 DEF TypeOK
<1>3. TypeOK'
  BY <1>0, <1>1 DEF TypeOK
<1>4. \A d, q : <<d, q>> \in alive' <=> <<d, q>> \in alive \/ (d = kind /\ q = k)
  BY <1>1, PairFacts
<1>5. Owned(k)'
  <2>1. ASSUME NEW d \in Kinds
        PROVE <<d, k>> \in alive' <=> d \in holds'[k] \/ <<d, k>> \in lost'
    BY <1>0, <1>2, <1>4 DEF Owned
  <2>2. at'[k] = "building" /\ accepted' = accepted
    OBVIOUS
  <2>3. \A d \in Kinds : d \in holds'[k] <=> d \in holds[k] \/ d = kind
    BY <1>2
  <2> QED BY <1>0, <2>1, <2>2, <2>3 DEF Owned, Kinds
<1>6. Domains'
  <2>1. \A p \in Conns : <<"pd", p>> \in alive' <=> <<"pd", p>> \in alive
    BY <1>4
  <2> QED BY <1>0, <2>1 DEF Domains
<1>7. <<"pd", "listener">> \notin alive'
  BY <1>0, <1>4 DEF Bound
<1> QED BY <1>2, <1>3, <1>4, <1>5, <1>6, <1>7, ConnStep

LEMMA CreateIdStep == ASSUME IInv, NEW k \in Conns, CreateId(k) PROVE IInv'
<1>0. TypeOK /\ Owned(k) /\ Placed(k)
  BY DEF IInv
<1>1. /\ at[k] = "building" /\ "channel" \in holds[k] /\ "id" \notin holds[k]
      /\ Create(k, "id")
      /\ at' = at /\ accepted' = accepted /\ dev' = dev /\ pd' = pd /\ arg' = arg
      /\ clones' = clones /\ lst' = lst /\ lost' = lost
  BY DEF CreateId, Building
<1>2. holds'[k] = holds[k] \cup {"id"}
  BY <1>0, <1>1 DEF Create, TypeOK
<1>3. Placed(k)'
  BY <1>0, <1>1, <1>2 DEF Placed
<1>4. /\ pd \in [Conns -> Conns \cup {NoPd}] /\ arg \in [Conns -> Conns \cup {NoPd}]
  BY <1>0 DEF TypeOK
<1> QED BY <1>1, <1>3, <1>4, CreateStep

LEMMA CreateCqStep == ASSUME IInv, NEW k \in Conns, CreateCq(k) PROVE IInv'
<1>0. TypeOK /\ Owned(k) /\ Placed(k)
  BY DEF IInv
<1>1. /\ at[k] = "building" /\ "id" \in holds[k] /\ "cq" \notin holds[k]
      /\ arg[k] # NoPd /\ Create(k, "cq")
      /\ at' = at /\ accepted' = accepted /\ dev' = dev /\ pd' = pd /\ arg' = arg
      /\ clones' = clones /\ lst' = lst /\ lost' = lost
  BY DEF CreateCq, Building
<1>2. holds'[k] = holds[k] \cup {"cq"}
  BY <1>0, <1>1 DEF Create, TypeOK
<1>3. Placed(k)'
  BY <1>0, <1>1, <1>2 DEF Placed
<1>4. /\ pd \in [Conns -> Conns \cup {NoPd}] /\ arg \in [Conns -> Conns \cup {NoPd}]
  BY <1>0 DEF TypeOK
<1> QED BY <1>1, <1>3, <1>4, CreateStep

(* The domain passes from the set-up to the connection: its handle stays.  *)
LEMMA CreateQpStep == ASSUME IInv, NEW k \in Conns, CreateQp(k) PROVE IInv'
<1>0. TypeOK /\ Owned(k) /\ Placed(k)
  BY DEF IInv
<1>1. /\ at[k] = "building" /\ "cq" \in holds[k] /\ "qp" \notin holds[k]
      /\ Create(k, "qp")
      /\ pd' = [pd EXCEPT ![k] = arg[k]] /\ arg' = [arg EXCEPT ![k] = NoPd]
      /\ at' = at /\ accepted' = accepted /\ dev' = dev
      /\ clones' = clones /\ lst' = lst /\ lost' = lost
  BY DEF CreateQp, Building
<1>2. holds'[k] = holds[k] \cup {"qp"}
  BY <1>0, <1>1 DEF Create, TypeOK
<1>3. "id" \in holds[k] /\ pd[k] = NoPd /\ arg[k] # NoPd /\ dev[arg[k]] = dev[k]
  BY <1>0, <1>1 DEF Owned, Placed
<1>4. /\ pd' \in [Conns -> Conns \cup {NoPd}] /\ arg' \in [Conns -> Conns \cup {NoPd}]
      /\ pd'[k] = arg[k] /\ arg'[k] = NoPd
      /\ \A q \in Conns : q # k => pd'[q] = pd[q] /\ arg'[q] = arg[q]
  BY <1>0, <1>1 DEF TypeOK
<1>5. ASSUME NEW p \in Conns PROVE Holders(p, pd, arg, clones) = Holders(p, pd', arg', clones')
  <2>1. p # NoPd
    BY ConnsAssumption
  <2>2. \A q \in Conns : pd[q] = p \/ arg[q] = p <=> pd'[q] = p \/ arg'[q] = p
    BY <1>3, <1>4, <2>1
  <2> QED BY <1>1, <2>2 DEF Holders
<1>6. Placed(k)'
  BY <1>1, <1>2, <1>3, <1>4 DEF Placed
<1> QED BY <1>1, <1>3, <1>4, <1>5, <1>6, CreateStep, ZenonT(30)

LEMMA AllocPdStep == ASSUME IInv, NEW k \in Conns, AllocPd(k) PROVE IInv'
<1>0. TypeOK /\ Domains /\ Bound /\ Owned(k) /\ Placed(k)
  BY DEF IInv
<1>1. /\ at[k] = "building" /\ "id" \in holds[k] /\ "cq" \notin holds[k] /\ arg[k] = NoPd
      /\ alive' = alive \cup {<<"pd", k>>} /\ arg' = [arg EXCEPT ![k] = k]
      /\ at' = at /\ accepted' = accepted /\ dev' = dev /\ holds' = holds /\ pd' = pd
      /\ clones' = clones /\ lst' = lst /\ lost' = lost
  BY DEF AllocPd, Building
<1>2. arg'[k] = k /\ \A q \in Conns : q # k => arg'[q] = arg[q]
  BY <1>0, <1>1 DEF TypeOK
<1>3. TypeOK'
  BY <1>0, <1>1 DEF TypeOK
<1>4. \A d, q : <<d, q>> \in alive' <=> <<d, q>> \in alive \/ (d = "pd" /\ q = k)
  BY <1>1, PairFacts
<1>5. Owned(k)'
  <2>1. ASSUME NEW d \in Kinds PROVE <<d, k>> \in alive' <=> <<d, k>> \in alive
    BY <1>4 DEF Kinds
  <2> QED BY <1>0, <1>1, <2>1 DEF Owned
<1>6. Placed(k)'
  BY <1>0, <1>1, <1>2 DEF Placed, Owned
<1>7. Domains'
  <2> SUFFICES ASSUME NEW p \in Conns
               PROVE  <<"pd", p>> \in alive' <=> Holders(p, pd', arg', clones') # {}
    BY DEF Domains
  <2>0. p # NoPd
    BY ConnsAssumption
  <2>1. CASE p = k
    <3>1. k \in Holders(p, pd', arg', clones')
      BY <1>2, <2>1 DEF Holders
    <3> QED BY <1>4, <2>1, <3>1
  <2>2. CASE p # k
    <3>1. \A q \in Conns : pd[q] = p \/ arg[q] = p <=> pd'[q] = p \/ arg'[q] = p
      BY <1>1, <1>2, <2>0, <2>2
    <3>2. Holders(p, pd', arg', clones') = Holders(p, pd, arg, clones)
      BY <1>1, <3>1 DEF Holders
    <3> QED BY <1>0, <1>4, <2>2, <3>2 DEF Domains
  <2> QED BY <2>1, <2>2
<1>8. <<"pd", "listener">> \notin alive'
  BY <1>0, <1>4, ConnsAssumption DEF Bound
<1>9. \A q \in Conns \cup {"listener"}, d \in Kinds : <<d, q>> \in alive' <=> <<d, q>> \in alive
  BY <1>4 DEF Kinds
<1> QED BY <1>1, <1>2, <1>3, <1>5, <1>6, <1>7, <1>8, <1>9, ConnStep

LEMMA ClonePdStep ==
    ASSUME IInv, NEW k \in Conns, NEW p \in Conns, ClonePd(k, p) PROVE IInv'
<1>0. TypeOK /\ Domains /\ Bound /\ Owned(k) /\ Placed(k)
  BY DEF IInv
<1>1. /\ at[k] = "building" /\ "id" \in holds[k] /\ "cq" \notin holds[k] /\ arg[k] = NoPd
      /\ p \in clones /\ dev[k] = dev[p]
      /\ alive' = alive /\ arg' = [arg EXCEPT ![k] = p]
      /\ at' = at /\ accepted' = accepted /\ dev' = dev /\ holds' = holds /\ pd' = pd
      /\ clones' = clones /\ lst' = lst /\ lost' = lost
  BY DEF ClonePd, Building, SameDevice
<1>2. arg'[k] = p /\ \A q \in Conns : q # k => arg'[q] = arg[q]
  BY <1>0, <1>1 DEF TypeOK
<1>3. TypeOK'
  BY <1>0, <1>1 DEF TypeOK
<1>4. Owned(k)'
  BY <1>0, <1>1 DEF Owned
<1>5. Placed(k)'
  BY <1>0, <1>1, <1>2 DEF Placed, Owned
<1>6. Domains'
  <2> SUFFICES ASSUME NEW x \in Conns
               PROVE  Holders(x, pd', arg', clones') # {} <=> Holders(x, pd, arg, clones) # {}
    BY <1>0, <1>1 DEF Domains
  <2>0. x # NoPd
    BY ConnsAssumption
  <2>1. CASE x = p
    BY <1>1, <2>1 DEF Holders
  <2>2. CASE x # p
    <3>1. \A q \in Conns : pd[q] = x \/ arg[q] = x <=> pd'[q] = x \/ arg'[q] = x
      BY <1>1, <1>2, <2>0, <2>2
    <3>2. Holders(x, pd', arg', clones') = Holders(x, pd, arg, clones)
      BY <1>1, <3>1 DEF Holders
    <3> QED BY <3>2
  <2> QED BY <2>1, <2>2
<1>7. <<"pd", "listener">> \notin alive'
  BY <1>0, <1>1 DEF Bound
<1> QED BY <1>1, <1>2, <1>3, <1>4, <1>5, <1>6, <1>7, ConnStep

LEMMA EstablishStep == ASSUME IInv, NEW k \in Conns, Establish(k) PROVE IInv'
<1>0. TypeOK /\ Domains /\ Bound /\ Owned(k) /\ Placed(k)
  BY DEF IInv
<1>1. /\ at[k] = "building" /\ "qp" \in holds[k] /\ at' = [at EXCEPT ![k] = "up"]
      /\ alive' = alive /\ accepted' = accepted /\ dev' = dev /\ holds' = holds /\ pd' = pd
      /\ arg' = arg /\ clones' = clones /\ lst' = lst /\ lost' = lost
  BY DEF Establish, Building
<1>2. at'[k] = "up" /\ \A q \in Conns : q # k => at'[q] = at[q]
  BY <1>0, <1>1 DEF TypeOK
<1>3. TypeOK'
  BY <1>0, <1>1 DEF TypeOK
<1>4. Owned(k)'
  BY <1>0, <1>1, <1>2 DEF Owned
<1>5. Placed(k)'
  BY <1>0, <1>1, <1>2 DEF Placed
<1>6. Domains'
  BY <1>0, <1>1, DomainsKept
<1>7. <<"pd", "listener">> \notin alive'
  BY <1>0, <1>1 DEF Bound
<1> QED BY <1>1, <1>2, <1>3, <1>4, <1>5, <1>6, <1>7, ConnStep

LEMMA FailStep == ASSUME IInv, NEW k \in Conns, Fail(k) PROVE IInv'
<1>0. TypeOK /\ Domains /\ Bound /\ Owned(k) /\ Placed(k)
  BY DEF IInv
<1>1. /\ at[k] = "building" /\ at' = [at EXCEPT ![k] = "dropping"]
      /\ arg' = [arg EXCEPT ![k] = NoPd] /\ alive' = alive \ Unused(pd, arg', clones)
      /\ accepted' = accepted /\ dev' = dev /\ holds' = holds /\ pd' = pd
      /\ clones' = clones /\ lst' = lst /\ lost' = lost
  BY DEF Fail
<1>2. /\ at'[k] = "dropping" /\ arg'[k] = NoPd
      /\ \A q \in Conns : q # k => at'[q] = at[q] /\ arg'[q] = arg[q]
  BY <1>0, <1>1 DEF TypeOK
<1>3. ASSUME NEW p \in Conns
      PROVE  Holders(p, pd, arg', clones) \subseteq Holders(p, pd, arg, clones)
  <2>1. p # NoPd
    BY ConnsAssumption
  <2> QED BY <1>2, <2>1 DEF Holders
<1>4. /\ \A p \in Conns : <<"pd", p>> \in alive' <=> Holders(p, pd, arg', clones) # {}
      /\ \A d \in Kinds, q \in Conns \cup {"listener"} :
             <<d, q>> \in alive' <=> <<d, q>> \in alive
      /\ lost \subseteq alive' /\ <<"pd", "listener">> \notin alive'
  BY <1>1, <1>3, Release
<1>5. TypeOK'
  BY <1>0, <1>1, <1>4 DEF TypeOK
<1>6. Owned(k)'
  BY <1>0, <1>1, <1>2, <1>4 DEF Owned
<1>7. Placed(k)'
  BY <1>0, <1>1, <1>2 DEF Placed
<1>8. Domains'
  BY <1>1, <1>4 DEF Domains
<1> QED BY <1>1, <1>2, <1>4, <1>5, <1>6, <1>7, <1>8, ConnStep

(* The child id that is forgotten stays alive, and belongs to nobody.      *)
LEMMA SwallowStep ==
    ASSUME IInv, NEW k \in Conns, NEW other \in Conns, Swallow(k, other) PROVE IInv'
<1>0. TypeOK /\ Domains /\ Losses /\ Bound /\ \A q \in Conns : Owned(q) /\ Placed(q)
  BY DEF IInv
<1>1. /\ k \in accepted /\ at[k] = "building" /\ "qp" \in holds[k] /\ at[other] = "unused"
      /\ at' = [at EXCEPT ![k] = "dropping", ![other] = "gone"]
      /\ accepted' = accepted \cup {other}
      /\ alive' = alive \cup {<<"id", other>>} /\ lost' = lost \cup {<<"id", other>>}
      /\ dev' = dev /\ holds' = holds /\ pd' = pd /\ arg' = arg
      /\ clones' = clones /\ lst' = lst
  BY DEF Swallow, Building
<1>2. k # other
  BY <1>1
<1>3. /\ at'[k] = "dropping" /\ at'[other] = "gone"
      /\ \A q \in Conns : q # k /\ q # other => at'[q] = at[q]
  BY <1>0, <1>1, <1>2 DEF TypeOK
<1>4. TypeOK'
  <2>1. at' \in [Conns -> {"unused", "building", "up", "dropping", "gone"}]
    BY <1>0, <1>1 DEF TypeOK
  <2> QED BY <1>0, <1>1, <2>1 DEF TypeOK
<1>5. \A d, q : /\ <<d, q>> \in alive' <=> <<d, q>> \in alive \/ (d = "id" /\ q = other)
                /\ <<d, q>> \in lost' <=> <<d, q>> \in lost \/ (d = "id" /\ q = other)
  BY <1>1, PairFacts
<1>6. ASSUME NEW q \in Conns PROVE Owned(q)' /\ Placed(q)'
  <2>0. Owned(q) /\ Placed(q)
    BY <1>0
  <2>a. \A d \in Kinds : <<d, q>> \in alive' <=> d \in holds'[q] \/ <<d, q>> \in lost'
    BY <1>1, <1>5, <2>0 DEF Owned
  <2>1. CASE q = k
    <3>1. Owned(k)'
      BY <1>1, <1>2, <1>3, <2>0, <2>1, <2>a DEF Owned
    <3>2. Placed(k)'
      BY <1>1, <1>3, <2>0, <2>1 DEF Placed
    <3> QED BY <2>1, <3>1, <3>2
  <2>2. CASE q = other
    <3>1. Owned(other)'
      BY <1>1, <1>3, <2>0, <2>2, <2>a DEF Owned
    <3>2. Placed(other)'
      BY <1>1, <1>3, <2>0, <2>2 DEF Placed
    <3> QED BY <2>2, <3>1, <3>2
  <2>3. CASE q # k /\ q # other
    BY <1>1, <1>3, <1>5, <2>0, <2>3, OtherKept
  <2> QED BY <2>1, <2>2, <2>3
<1>7. Domains'
  BY <1>0, <1>1, <1>5, DomainsKept
<1>8. Losses'
  <2> SUFFICES ASSUME NEW o \in lost'
               PROVE  \/ o = <<"channel", "listener">> /\ lst = "gone"
                      \/ \E q \in accepted' : at'[q] = "gone" /\ o = <<"id", q>>
    BY <1>1 DEF Losses
  <2>1. CASE o = <<"id", other>>
    BY <1>1, <1>3, <2>1
  <2>2. CASE o \in lost
    <3>1. CASE o = <<"channel", "listener">> /\ lst = "gone"
      BY <3>1
    <3>2. CASE \E q \in accepted : at[q] = "gone" /\ o = <<"id", q>>
      <4>1. PICK q \in accepted : at[q] = "gone" /\ o = <<"id", q>>
        BY <3>2
      <4>2. q \in Conns /\ q # k /\ q # other
        BY <1>0, <1>1, <4>1 DEF TypeOK
      <4> QED BY <1>1, <1>3, <4>1, <4>2
    <3> QED BY <1>0, <2>2, <3>1, <3>2 DEF Losses
  <2> QED BY <1>1, <2>1, <2>2
<1>9. Bound'
  <2>1. other # "listener"
    BY ConnsAssumption
  <2>2. \A d : /\ <<d, "listener">> \in alive' <=> <<d, "listener">> \in alive
               /\ <<d, "listener">> \in lost' <=> <<d, "listener">> \in lost
    BY <1>5, <2>1
  <2>3. lst \in {"up", "closing", "gone"}
    BY <1>0, <1>1 DEF Bound
  <2> QED BY <1>0, <1>1, <2>2, <2>3 DEF Bound
<1> QED BY <1>4, <1>6, <1>7, <1>8, <1>9 DEF IInv

-----------------------------------------------------------------------------
(* Use and release.                                                        *)

LEMMA TakeHandleStep == ASSUME IInv, NEW k \in Conns, TakeHandle(k) PROVE IInv'
<1>0. TypeOK /\ Domains /\ Bound /\ Owned(k) /\ Placed(k)
  BY DEF IInv
<1>1. /\ at[k] = "up" /\ clones' = clones \cup {pd[k]}
      /\ alive' = alive /\ at' = at /\ accepted' = accepted /\ dev' = dev /\ holds' = holds
      /\ pd' = pd /\ arg' = arg /\ lst' = lst /\ lost' = lost
  BY DEF TakeHandle, InUse
<1>2. pd[k] \in Conns
  BY <1>0, <1>1 DEF Owned, Placed, TypeOK
<1>3. TypeOK'
  BY <1>0, <1>1, <1>2 DEF TypeOK
<1>4. Owned(k)' /\ Placed(k)'
  BY <1>0, <1>1 DEF Owned, Placed
<1>5. Domains'
  <2> SUFFICES ASSUME NEW x \in Conns
               PROVE  Holders(x, pd', arg', clones') # {} <=> Holders(x, pd, arg, clones) # {}
    BY <1>0, <1>1 DEF Domains
  <2>1. CASE x = pd[k]
    BY <1>1, <2>1 DEF Holders
  <2>2. CASE x # pd[k]
    BY <1>1, <2>2 DEF Holders
  <2> QED BY <2>1, <2>2
<1>6. <<"pd", "listener">> \notin alive'
  BY <1>0, <1>1 DEF Bound
<1> QED BY <1>1, <1>3, <1>4, <1>5, <1>6, ConnStep

LEMMA DropHandleStep == ASSUME IInv, NEW p \in Conns, DropHandle(p) PROVE IInv'
<1>0. TypeOK /\ Domains /\ Losses /\ Bound /\ \A q \in Conns : Owned(q) /\ Placed(q)
  BY DEF IInv
<1>1. /\ clones' = clones \ {p} /\ alive' = alive \ Unused(pd, arg, clones')
      /\ at' = at /\ accepted' = accepted /\ dev' = dev /\ holds' = holds
      /\ pd' = pd /\ arg' = arg /\ lst' = lst /\ lost' = lost
  BY DEF DropHandle
<1>2. \A x \in Conns : Holders(x, pd, arg, clones') \subseteq Holders(x, pd, arg, clones)
  BY <1>1 DEF Holders
<1>3. /\ \A x \in Conns : <<"pd", x>> \in alive' <=> Holders(x, pd, arg, clones') # {}
      /\ \A d \in Kinds, q \in Conns \cup {"listener"} :
             <<d, q>> \in alive' <=> <<d, q>> \in alive
      /\ lost \subseteq alive' /\ <<"pd", "listener">> \notin alive'
  BY <1>1, <1>2, Release
<1>4. TypeOK'
  BY <1>0, <1>1, <1>3 DEF TypeOK
<1>5. Domains'
  BY <1>1, <1>3 DEF Domains
<1>6. ASSUME NEW q \in Conns PROVE Owned(q)' /\ Placed(q)'
  BY <1>0, <1>1, <1>3, OtherKept
<1>7. Losses'
  BY <1>0, <1>1 DEF Losses
<1>8. Bound'
  BY <1>0, <1>1, <1>3 DEF Bound, Kinds
<1> QED BY <1>4, <1>5, <1>6, <1>7, <1>8 DEF IInv

LEMMA DropStep == ASSUME IInv, NEW k \in Conns, Drop(k) PROVE IInv'
<1>0. TypeOK /\ Domains /\ Bound /\ Owned(k) /\ Placed(k)
  BY DEF IInv
<1>1. /\ at[k] = "up" /\ at' = [at EXCEPT ![k] = "dropping"]
      /\ alive' = alive /\ accepted' = accepted /\ dev' = dev /\ holds' = holds /\ pd' = pd
      /\ arg' = arg /\ clones' = clones /\ lst' = lst /\ lost' = lost
  BY DEF Drop
<1>2. at'[k] = "dropping" /\ \A q \in Conns : q # k => at'[q] = at[q]
  BY <1>0, <1>1 DEF TypeOK
<1>3. TypeOK'
  BY <1>0, <1>1 DEF TypeOK
<1>4. Owned(k)'
  BY <1>0, <1>1, <1>2 DEF Owned
<1>5. Placed(k)'
  BY <1>0, <1>1, <1>2 DEF Placed
<1>6. Domains'
  BY <1>0, <1>1, DomainsKept
<1>7. <<"pd", "listener">> \notin alive'
  BY <1>0, <1>1 DEF Bound
<1> QED BY <1>1, <1>2, <1>3, <1>4, <1>5, <1>6, <1>7, ConnStep

(* DropOrder takes what is used before what it is used through.            *)
LEMMA OrderFacts ==
    ASSUME TypeOK, NEW k \in Conns, NEW i \in Left(k), \A j \in Left(k) : i <= j
    PROVE  /\ DropOrder[i] \in Kinds /\ DropOrder[i] \in holds[k]
           /\ DropOrder[i] # "qp" => "qp" \notin holds[k]
           /\ DropOrder[i] \in {"cq", "channel"} => "id" \notin holds[k]
<1>1. /\ DOMAIN DropOrder = 1 .. 4 /\ DropOrder[1] = "qp" /\ DropOrder[2] = "id"
      /\ DropOrder[3] = "cq" /\ DropOrder[4] = "channel"
  BY DEF DropOrder
<1>2. i \in 1 .. 4 /\ DropOrder[i] \in holds[k]
  BY <1>1 DEF Left
<1>3. "qp" \in holds[k] => i <= 1
  <2>1. "qp" \in holds[k] => 1 \in Left(k)
    BY <1>1 DEF Left
  <2> QED BY <2>1
<1>4. "id" \in holds[k] => i <= 2
  <2>1. "id" \in holds[k] => 2 \in Left(k)
    BY <1>1 DEF Left
  <2> QED BY <2>1
<1>5. i = 1 \/ i = 2 \/ i = 3 \/ i = 4
  BY <1>2
<1> QED BY <1>1, <1>2, <1>3, <1>4, <1>5 DEF Kinds

LEMMA DropNextStep == ASSUME IInv, NEW k \in Conns, DropNext(k) PROVE IInv'
<1>0. TypeOK /\ Domains /\ Losses /\ Bound /\ Owned(k) /\ Placed(k)
  BY DEF IInv
<1>1. PICK i \in Left(k) : /\ \A j \in Left(k) : i <= j
                           /\ holds' = [holds EXCEPT ![k] = @ \ {DropOrder[i]}]
                           /\ alive' = alive \ {<<DropOrder[i], k>>}
  BY DEF DropNext
<1>2. /\ at[k] = "dropping" /\ at' = at /\ accepted' = accepted /\ dev' = dev /\ pd' = pd
      /\ arg' = arg /\ clones' = clones /\ lst' = lst /\ lost' = lost
  BY DEF DropNext
<1>3. PICK kind \in Kinds :
          /\ kind = DropOrder[i] /\ kind \in holds[k]
          /\ kind # "qp" => "qp" \notin holds[k]
          /\ kind \in {"cq", "channel"} => "id" \notin holds[k]
  BY <1>0, <1>1, OrderFacts
<1>4. /\ holds'[k] = holds[k] \ {kind}
      /\ \A q \in Conns : q # k => holds'[q] = holds[q]
  BY <1>0, <1>1, <1>3 DEF TypeOK
<1>5. \A d, q : <<d, q>> \in alive' <=> <<d, q>> \in alive /\ ~(d = kind /\ q = k)
  BY <1>1, <1>3, PairFacts
<1>6. \A d : <<d, k>> \notin lost
  <2>1. k # "listener"
    BY ConnsAssumption
  <2> QED BY <1>0, <1>2, <2>1, PairFacts DEF Losses
<1>7. TypeOK'
  <2>1. lost' \subseteq alive'
    BY <1>0, <1>1, <1>2, <1>6 DEF TypeOK
  <2>2. holds' \in [Conns -> SUBSET {"channel", "id", "cq", "qp"}]
    BY <1>0, <1>1 DEF TypeOK
  <2> QED BY <1>0, <1>1, <1>2, <2>1, <2>2 DEF TypeOK
<1>8. Owned(k)'
  <2>1. ASSUME NEW d \in Kinds
        PROVE <<d, k>> \in alive' <=> d \in holds'[k] \/ <<d, k>> \in lost'
    BY <1>0, <1>2, <1>4, <1>5, <1>6 DEF Owned
  <2>2. \A d \in Kinds : d \in holds'[k] <=> d \in holds[k] /\ d # kind
    BY <1>4
  <2> QED BY <1>0, <1>2, <1>3, <2>1, <2>2 DEF Owned, Kinds
<1>9. Placed(k)'
  BY <1>0, <1>2, <1>4 DEF Placed
<1>10. Domains'
  BY <1>0, <1>2, <1>5, DomainsKept DEF Kinds
<1>11. <<"pd", "listener">> \notin alive'
  BY <1>0, <1>1 DEF Bound
<1> QED BY <1>2, <1>4, <1>5, <1>7, <1>8, <1>9, <1>10, <1>11, ConnStep

LEMMA DropPdStep == ASSUME IInv, NEW k \in Conns, DropPd(k) PROVE IInv'
<1>0. TypeOK /\ Domains /\ Losses /\ Bound /\ \A q \in Conns : Owned(q) /\ Placed(q)
  BY DEF IInv
<1>1. /\ at[k] = "dropping" /\ Left(k) = {} /\ at' = [at EXCEPT ![k] = "gone"]
      /\ holds' = [holds EXCEPT ![k] = {}] /\ pd' = [pd EXCEPT ![k] = NoPd]
      /\ alive' = alive \ Unused(pd', arg, clones)
      /\ accepted' = accepted /\ dev' = dev /\ arg' = arg
      /\ clones' = clones /\ lst' = lst /\ lost' = lost
  BY DEF DropPd
<1>2. /\ at'[k] = "gone" /\ holds'[k] = {} /\ pd'[k] = NoPd
      /\ \A q \in Conns : q # k => at'[q] = at[q] /\ holds'[q] = holds[q] /\ pd'[q] = pd[q]
  BY <1>0, <1>1 DEF TypeOK
<1>3. holds[k] = {}
  <2>1. /\ DOMAIN DropOrder = 1 .. 4 /\ DropOrder[1] = "qp" /\ DropOrder[2] = "id"
        /\ DropOrder[3] = "cq" /\ DropOrder[4] = "channel"
    BY DEF DropOrder
  <2>2. \A i \in 1 .. 4 : DropOrder[i] \notin holds[k]
    BY <1>1, <2>1 DEF Left
  <2>3. 1 \in 1 .. 4 /\ 2 \in 1 .. 4 /\ 3 \in 1 .. 4 /\ 4 \in 1 .. 4
    OBVIOUS
  <2>4. holds[k] \subseteq {"channel", "id", "cq", "qp"}
    BY <1>0 DEF TypeOK
  <2> QED BY <2>1, <2>2, <2>3, <2>4
<1>4. ASSUME NEW p \in Conns
      PROVE  Holders(p, pd', arg, clones) \subseteq Holders(p, pd, arg, clones)
  <2>1. p # NoPd
    BY ConnsAssumption
  <2> QED BY <1>2, <2>1 DEF Holders
<1>5. /\ \A p \in Conns : <<"pd", p>> \in alive' <=> Holders(p, pd', arg, clones) # {}
      /\ \A d \in Kinds, q \in Conns \cup {"listener"} :
             <<d, q>> \in alive' <=> <<d, q>> \in alive
      /\ lost \subseteq alive' /\ <<"pd", "listener">> \notin alive'
  BY <1>1, <1>4, Release
<1>6. TypeOK'
  BY <1>0, <1>1, <1>5 DEF TypeOK
<1>7. Owned(k)'
  BY <1>0, <1>1, <1>2, <1>3, <1>5 DEF Owned
<1>8. Placed(k)'
  BY <1>0, <1>1, <1>2 DEF Placed
<1>9. Domains'
  BY <1>1, <1>5 DEF Domains
<1> QED BY <1>1, <1>2, <1>5, <1>6, <1>7, <1>8, <1>9, ConnStep

-----------------------------------------------------------------------------
(* The listener.                                                           *)

(* A step of the listener leaves every connection alone.                   *)
LEMMA ListenerStep ==
    ASSUME IInv, TypeOK', Losses', Bound',
           UNCHANGED <<at, accepted, dev, holds, pd, arg, clones>>,
           \A q \in Conns : \A d :
               /\ <<d, q>> \in alive' <=> <<d, q>> \in alive
               /\ <<d, q>> \in lost' <=> <<d, q>> \in lost
    PROVE  IInv'
<1>0. Domains /\ \A q \in Conns : Owned(q) /\ Placed(q)
  BY DEF IInv
<1>1. Domains'
  BY <1>0, DomainsKept
<1>2. \A q \in Conns : Owned(q)' /\ Placed(q)'
  BY <1>0, OtherKept
<1> QED BY <1>1, <1>2 DEF IInv

LEMMA BindingStep ==
    ASSUME IInv, BindChannel \/ BindId \/ BindIdFails \/ Listen \/ ListenFails PROVE IInv'
<1>0. TypeOK /\ Losses /\ Bound
  BY DEF IInv
<1>1. UNCHANGED <<at, accepted, dev, holds, pd, arg, clones>>
  BY DEF BindChannel, BindId, BindIdFails, Listen, ListenFails, Lst
<1>2. accepted = {} /\ lst \in {"none", "channel", "id"} /\ lst # "gone"
  BY <1>0 DEF BindChannel, BindId, BindIdFails, Listen, ListenFails, Lst, Bound
<1>3. lost = {}
  BY <1>0, <1>2 DEF Losses
<1>4. ASSUME NEW q \in Conns PROVE q # "listener"
  BY ConnsAssumption
<1>5. CASE BindChannel
  <2>1. /\ lst = "none" /\ lst' = "channel" /\ lost' = lost
        /\ alive' = alive \cup {<<"channel", "listener">>}
    BY <1>5 DEF BindChannel, Lst
  <2>2. \A d, q : <<d, q>> \in alive' <=>
            <<d, q>> \in alive \/ (d = "channel" /\ q = "listener")
    BY <2>1, PairFacts
  <2>3. TypeOK'
    BY <1>0, <1>1, <2>1 DEF TypeOK
  <2>4. Losses' /\ Bound'
    BY <1>0, <1>1, <1>2, <1>3, <2>1, <2>2 DEF Losses, Bound
  <2> QED BY <1>1, <1>4, <2>1, <2>2, <2>3, <2>4, ListenerStep
<1>6. CASE BindId
  <2>1. /\ lst = "channel" /\ lst' = "id" /\ lost' = lost
        /\ alive' = alive \cup {<<"id", "listener">>}
    BY <1>6 DEF BindId, Lst
  <2>2. \A d, q : <<d, q>> \in alive' <=>
            <<d, q>> \in alive \/ (d = "id" /\ q = "listener")
    BY <2>1, PairFacts
  <2>3. TypeOK'
    BY <1>0, <1>1, <2>1 DEF TypeOK
  <2>4. Losses' /\ Bound'
    BY <1>0, <1>1, <1>2, <1>3, <2>1, <2>2 DEF Losses, Bound
  <2> QED BY <1>1, <1>4, <2>1, <2>2, <2>3, <2>4, ListenerStep
<1>7. CASE BindIdFails
  <2>1. /\ lst = "channel" /\ lst' = "gone" /\ alive' = alive
        /\ lost' = {<<"channel", "listener">>}
    BY <1>3, <1>7 DEF BindIdFails, Lst
  <2>2. \A d, q : <<d, q>> \in lost' <=> d = "channel" /\ q = "listener"
    BY <2>1, PairFacts
  <2>3. TypeOK'
    BY <1>0, <1>1, <2>1 DEF TypeOK, Bound
  <2>4. Losses' /\ Bound'
    BY <1>0, <1>1, <1>2, <2>1, <2>2 DEF Losses, Bound
  <2> QED BY <1>1, <1>3, <1>4, <2>1, <2>2, <2>3, <2>4, ListenerStep
<1>8. CASE Listen \/ ListenFails
  <2>1. lst = "id" /\ lst' \in {"up", "closing"} /\ alive' = alive /\ lost' = lost
    BY <1>8 DEF Listen, ListenFails, Lst
  <2>2. TypeOK'
    BY <1>0, <1>1, <2>1 DEF TypeOK
  <2>3. Losses' /\ Bound'
    BY <1>0, <1>1, <1>2, <1>3, <2>1 DEF Losses, Bound
  <2> QED BY <1>1, <2>1, <2>2, <2>3, ListenerStep
<1> QED BY <1>5, <1>6, <1>7, <1>8

LEMMA ClosingStep ==
    ASSUME IInv, DropListener \/ CloseId \/ CloseChannel PROVE IInv'
<1>0. TypeOK /\ Losses /\ Bound
  BY DEF IInv
<1>1. /\ UNCHANGED <<at, accepted, dev, holds, pd, arg, clones>> /\ lost' = lost
      /\ at' = at /\ accepted' = accepted
  BY DEF DropListener, CloseId, CloseChannel, Lst
<1>2. lst \in {"up", "closing"} /\ lst' \in {"closing", "gone"}
  BY DEF DropListener, CloseId, CloseChannel, Lst
<1>3. \A d : <<d, "listener">> \notin lost
  <2>1. \A q \in accepted : q # "listener"
    BY <1>0, ConnsAssumption DEF TypeOK
  <2> QED BY <1>0, <1>2, <2>1, PairFacts DEF Losses
<1>4. Losses'
  BY <1>0, <1>1, <1>2 DEF Losses
<1>5. ASSUME NEW q \in Conns PROVE q # "listener"
  BY ConnsAssumption
<1>6. CASE DropListener
  <2>1. lst' = "closing" /\ alive' = alive
    BY <1>6 DEF DropListener, Lst
  <2>2. TypeOK'
    BY <1>0, <1>1, <2>1 DEF TypeOK
  <2>3. Bound'
    BY <1>0, <1>1, <1>2, <2>1 DEF Bound
  <2> QED BY <1>1, <1>4, <2>1, <2>2, <2>3, ListenerStep
<1>7. CASE CloseId
  <2>1. lst = "closing" /\ lst' = "closing" /\ alive' = alive \ {<<"id", "listener">>}
    BY <1>7 DEF CloseId, Lst
  <2>2. \A d, q : <<d, q>> \in alive' <=>
            <<d, q>> \in alive /\ ~(d = "id" /\ q = "listener")
    BY <2>1, PairFacts
  <2>3. TypeOK'
    BY <1>0, <1>1, <1>3, <2>1 DEF TypeOK
  <2>4. Bound'
    BY <1>0, <1>1, <2>1, <2>2 DEF Bound
  <2> QED BY <1>1, <1>4, <1>5, <2>2, <2>3, <2>4, ListenerStep
<1>8. CASE CloseChannel
  <2>1. /\ lst = "closing" /\ lst' = "gone" /\ alive' = alive \ {<<"channel", "listener">>}
        /\ <<"id", "listener">> \notin alive
    BY <1>8 DEF CloseChannel, Lst
  <2>2. \A d, q : <<d, q>> \in alive' <=>
            <<d, q>> \in alive /\ ~(d = "channel" /\ q = "listener")
    BY <2>1, PairFacts
  <2>3. TypeOK'
    BY <1>0, <1>1, <1>3, <2>1 DEF TypeOK
  <2>4. Bound'
    BY <1>0, <1>1, <1>3, <2>1, <2>2 DEF Bound
  <2> QED BY <1>1, <1>4, <1>5, <2>2, <2>3, <2>4, ListenerStep
<1> QED BY <1>6, <1>7, <1>8

-----------------------------------------------------------------------------
(* The invariant and what follows from it.                                 *)

LEMMA InitInv == Init => IInv
<1> SUFFICES ASSUME Init PROVE IInv
  OBVIOUS
<1>1. TypeOK
  BY DEF Init, TypeOK
<1>2. Domains
  BY ConnsAssumption DEF Init, Domains, Holders
<1>3. Losses /\ Bound
  BY DEF Init, Losses, Bound
<1>4. \A k \in Conns : Owned(k) /\ Placed(k)
  BY DEF Init, Owned, Placed
<1> QED BY <1>1, <1>2, <1>3, <1>4 DEF IInv

(* Every step keeps the invariant.                                         *)
LEMMA NextInv == IInv /\ [Next]_vars => IInv'
<1> SUFFICES ASSUME IInv, [Next]_vars PROVE IInv'
  OBVIOUS
<1>1. ASSUME NEW k \in Conns,
             \/ Connect(k) \/ Request(k) \/ CreateId(k) \/ AllocPd(k)
             \/ CreateCq(k) \/ CreateQp(k) \/ Establish(k) \/ Fail(k)
      PROVE  IInv'
  BY <1>1, ConnectStep, RequestStep, CreateIdStep, AllocPdStep, CreateCqStep, CreateQpStep,
     EstablishStep, FailStep
<1>2. ASSUME NEW k \in Conns,
             TakeHandle(k) \/ DropHandle(k) \/ Drop(k) \/ DropNext(k) \/ DropPd(k)
      PROVE  IInv'
  BY <1>2, TakeHandleStep, DropHandleStep, DropStep, DropNextStep, DropPdStep
<1>3. ASSUME NEW k \in Conns, NEW p \in Conns, ClonePd(k, p) \/ Swallow(k, p) PROVE IInv'
  BY <1>3, ClonePdStep, SwallowStep
<1>4. CASE UNCHANGED vars
  BY <1>4 DEF vars, IInv, TypeOK, Domains, Losses, Bound, Owned, Placed, Holders
<1> QED BY <1>1, <1>2, <1>3, <1>4, BindingStep, ClosingStep DEF Next

LEMMA Invariance == Spec => []IInv
BY InitInv, NextInv, PTL DEF Spec

(* Every variable keeps its type, and what the program has lost is never   *)
(* destroyed, for any number of connections and devices.                   *)
THEOREM TypesCorrect == Spec => []TypeOK
<1>1. IInv => TypeOK
  BY DEF IInv
<1> QED BY <1>1, Invariance, PTL

(* create_resources and both Drop implementations keep alive whatever an   *)
(* existing object is used through: however many connections share a       *)
(* domain, and whichever step of a set-up fails.  The only object missing  *)
(* is a dropped listener's channel.                                        *)
THEOREM NothingDestroyedEarly == Spec => []Supported
<1>1. IInv => Supported
  <2> SUFFICES ASSUME IInv, NEW o \in alive
               PROVE  Needs(o) \ alive \subseteq
                          IF lst = "gone" /\ o[2] \in accepted
                          THEN {<<"channel", "listener">>} ELSE {}
    BY DEF Supported
  <2>0. TypeOK /\ Domains /\ Losses /\ Bound /\ \A q \in Conns : Owned(q) /\ Placed(q)
    BY DEF IInv
  <2>1. PICK d \in {"channel", "id", "cq", "qp", "pd"}, q \in Conns \cup {"listener"} :
            o = <<d, q>>
    BY <2>0 DEF TypeOK
  <2>2. o[1] = d /\ o[2] = q
    BY <2>1
  <2>3. CASE d = "id"
    <3>0. Needs(o) = {<<"channel", IF q \in accepted THEN "listener" ELSE q>>}
      BY <2>2, <2>3 DEF Needs, ChannelOf
    <3>1. CASE q \in accepted
      <4>1. lst \in {"up", "closing", "gone"}
        BY <2>0, <3>1 DEF Bound
      <4>2. lst # "gone" => <<"channel", "listener">> \in alive
        BY <2>0, <4>1 DEF Bound
      <4> QED BY <2>2, <3>0, <3>1, <4>2
    <3>2. CASE q \notin accepted /\ q \in Conns
      <4>1. <<"id", q>> \notin lost
        BY <2>0, <3>2, PairFacts DEF Losses
      <4>2. "id" \in holds[q] /\ "channel" \in holds[q]
        BY <2>0, <2>1, <2>3, <3>2, <4>1 DEF Owned, Kinds
      <4>3. <<"channel", q>> \in alive
        BY <2>0, <3>2, <4>2 DEF Owned, Kinds
      <4> QED BY <3>0, <3>2, <4>3
    <3>3. CASE q \notin accepted /\ q = "listener"
      <4>1. <<"channel", "listener">> \in alive
        BY <2>0, <2>1, <2>3, <3>3 DEF Bound
      <4> QED BY <3>0, <3>3, <4>1
    <3> QED BY <3>1, <3>2, <3>3
  <2>4. CASE d = "qp"
    <3>0. Needs(o) = {<<"id", q>>, <<"cq", q>>, <<"pd", pd[q]>>}
      BY <2>2, <2>4 DEF Needs
    <3>1. q \in Conns
      BY <2>0, <2>1, <2>4 DEF Bound
    <3>2. <<"qp", q>> \notin lost
      BY <2>0, PairFacts DEF Losses
    <3>3. "qp" \in holds[q]
      BY <2>0, <2>1, <2>4, <3>1, <3>2 DEF Owned, Kinds
    <3>4. <<"id", q>> \in alive /\ <<"cq", q>> \in alive
      BY <2>0, <3>1, <3>3 DEF Owned, Kinds
    <3>5. pd[q] \in Conns
      BY <2>0, <3>1, <3>3 DEF Placed, TypeOK
    <3>6. q \in Holders(pd[q], pd, arg, clones)
      BY <3>1 DEF Holders
    <3>7. <<"pd", pd[q]>> \in alive
      BY <2>0, <3>5, <3>6 DEF Domains
    <3> QED BY <3>0, <3>4, <3>7
  <2>5. CASE d \notin {"id", "qp"}
    <3>1. Needs(o) = {}
      BY <2>2, <2>5 DEF Needs
    <3> QED BY <3>1
  <2> QED BY <2>3, <2>4, <2>5
<1> QED BY <1>1, Invariance, PTL

(* accept_into puts a queue pair only into a domain of its own device,     *)
(* whatever devices a wildcard listener serves.                            *)
THEOREM QueuePairsOnDevice == Spec => []DomainOnDevice
<1>1. IInv => DomainOnDevice
  <2> SUFFICES ASSUME IInv, NEW k \in Conns, <<"qp", k>> \in alive PROVE dev[pd[k]] = dev[k]
    BY DEF DomainOnDevice
  <2>1. Losses /\ Owned(k) /\ Placed(k)
    BY DEF IInv
  <2>2. <<"qp", k>> \notin lost
    BY <2>1, PairFacts DEF Losses
  <2> QED BY <2>1, <2>2 DEF Owned, Placed, Kinds
<1> QED BY <1>1, Invariance, PTL

(* Every object that exists is reachable from a Connection, a Listener or  *)
(* a domain handle, so that some Drop releases it, except the two kinds    *)
(* the early returns of bind and of wait_event leave behind.               *)
THEOREM NothingElseLeaks == Spec => []Reachable
<1>1. IInv => Reachable
  <2> SUFFICES ASSUME IInv, NEW o \in alive \ lost
               PROVE  CASE o[2] = "listener" -> lst \notin {"none", "gone"}
                        [] o[1] = "pd" -> Holders(o[2], pd, arg, clones) # {}
                        [] OTHER -> o[1] \in holds[o[2]] /\ at[o[2]] # "gone"
    BY DEF Reachable
  <2>0. TypeOK /\ Domains /\ Bound /\ \A q \in Conns : Owned(q)
    BY DEF IInv
  <2>1. PICK d \in {"channel", "id", "cq", "qp", "pd"}, q \in Conns \cup {"listener"} :
            o = <<d, q>>
    BY <2>0 DEF TypeOK
  <2>2. o[1] = d /\ o[2] = q
    BY <2>1
  <2>3. CASE q = "listener"
    <3>1. lst \notin {"none", "gone"} /\ d # "pd"
      BY <2>0, <2>1, <2>3 DEF Bound
    <3> QED BY <2>2, <2>3, <3>1
  <2>4. CASE q \in Conns /\ d = "pd"
    <3>1. Holders(q, pd, arg, clones) # {} /\ q # "listener"
      BY <2>0, <2>1, <2>4, ConnsAssumption DEF Domains
    <3> QED BY <2>2, <2>4, <3>1
  <2>5. CASE q \in Conns /\ d \in Kinds
    <3>1. d \in holds[q] /\ at[q] # "gone" /\ q # "listener" /\ d # "pd"
      BY <2>0, <2>1, <2>5, ConnsAssumption DEF Owned, Kinds
    <3> QED BY <2>2, <3>1
  <2> QED BY <2>3, <2>4, <2>5 DEF Kinds
<1> QED BY <1>1, Invariance, PTL

=============================================================================
