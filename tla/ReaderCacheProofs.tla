-------------------------- MODULE ReaderCacheProofs --------------------------
(* Proofs about ReaderCache, for any groups, names, layouts and bounds.    *)
EXTENDS ReaderCache, DataLemmas

(* What a provider has advertised is what the start of its catalog says.   *)
Sound(rep, t, cat) ==
    /\ rep.from \in 1 .. t
    /\ Len(rep.regions) <= Len(cat[rep.from])
    /\ \A i \in 1 .. Len(rep.regions) : rep.regions[i] = cat[rep.from][i]
    /\ rep.tuples \subseteq 1 .. Len(rep.regions)

Bounded == \A e \in Starts : Len(catalog[e]) <= MaxRegions

(* One exchange is not older than another: a later incarnation's, or a     *)
(* catalog at least as long of the same.                                   *)
NotAfter(a, b) == a.from <= b.from /\ (a.from = b.from => Len(a.regions) <= Len(b.regions))

(* The update that is running talks to the provider its group's slot leads *)
(* to, and the exchange it waits for is not older than any taken in.       *)
Running ==
    /\ call # NoCall => call.group \in opened /\ call.to = slot[call.group]
    /\ reply # NoReply => /\ call # NoCall /\ reply.from = call.to /\ Sound(reply, now, catalog)
                          /\ \A g \in Groups : NotAfter(answer[g], reply)

(* A group's session: the channel it keeps belongs to the connection in    *)
(* its slot, and after an Ok to the exchange it took in.                   *)
Kept(g) ==
    /\ slot[g] <= now
    /\ channel[g] # 0 => channel[g] = slot[g] /\ g \in opened
    /\ answer[g] # NoReply => Sound(answer[g], now, catalog)
    /\ last[g] = "ok" => channel[g] # 0 /\ answer[g].from = slot[g]

(* A cached tuple is one of its provider's, under its own name and id.     *)
Genuine(key, c, open, cat) ==
    /\ c.group \in open /\ c.id = key[2]
    /\ c.id \in 1 .. Len(cat[c.from])
    /\ cat[c.from][c.id].layout = c.layout
    /\ cat[c.from][c.id].name = key[1]

Entries ==
    \A key \in DOMAIN regions : \A n \in 1 .. Len(regions[key]) :
        Genuine(key, regions[key][n], opened, catalog)

(* No other group has taken in an exchange of a later incarnation.         *)
Latest(g) == last[g] = "ok" /\ \A h \in Groups : answer[h].from <= answer[g].from

(* As long as no other group has reached a later incarnation, a group has  *)
(* exactly the tuples its last update brought.                             *)
Complete ==
    \A g \in Groups :
        /\ last[g] = "ok" => \A key \in DOMAIN regions : \A n \in 1 .. Len(regions[key]) :
               regions[key][n].group = g =>
                   regions[key][n].from = slot[g] /\ regions[key][n].id \in answer[g].tuples
        /\ Latest(g) => \A i \in answer[g].tuples :
               \E key \in DOMAIN regions : \E n \in 1 .. Len(regions[key]) :
                   regions[key][n].group = g /\ regions[key][n].id = i

IInv ==
    /\ TypeOK /\ Bounded /\ Running /\ MirrorsCatalog /\ Entries /\ Complete /\ HandlesUsable
    /\ \A g \in Groups : Kept(g)

-----------------------------------------------------------------------------
(* Data: catalogs that grow, and what ingest makes of a region's tuples.   *)

Grows(cat, cat2) ==
    \A e \in Starts : /\ Len(cat[e]) <= Len(cat2[e])
                      /\ \A i \in 1 .. Len(cat[e]) : cat2[e][i] = cat[e][i]

(* What is true of an exchange stays true while catalogs grow.             *)
LEMMA SoundKept ==
    ASSUME NEW rep \in Replies, NEW t \in Starts, NEW t2 \in Starts, t <= t2,
           NEW cat \in [Starts -> Seq(Regions)], NEW cat2 \in [Starts -> Seq(Regions)],
           Grows(cat, cat2), Sound(rep, t, cat)
    PROVE  Sound(rep, t2, cat2)
<1>0. t \in Nat /\ t2 \in Nat /\ MaxStarts \in Nat
  BY BoundsAssumption DEF Starts
<1>1. rep.from \in 1 .. t /\ rep.from \in 1 .. t2 /\ rep.from \in Starts
  BY <1>0 DEF Sound, Starts
<1>2. Len(cat[rep.from]) \in Nat /\ Len(cat2[rep.from]) \in Nat
  BY <1>1
<1>3. Len(rep.regions) \in Nat
  BY DEF Replies, NoReply
<1>4. /\ Len(rep.regions) <= Len(cat[rep.from]) /\ Len(cat[rep.from]) <= Len(cat2[rep.from])
      /\ \A i \in 1 .. Len(cat[rep.from]) : cat2[rep.from][i] = cat[rep.from][i]
      /\ \A i \in 1 .. Len(rep.regions) : rep.regions[i] = cat[rep.from][i]
      /\ rep.tuples \subseteq 1 .. Len(rep.regions)
  BY <1>1 DEF Sound, Grows
<1>5. \A i \in 1 .. Len(rep.regions) : i \in 1 .. Len(cat[rep.from])
  BY <1>2, <1>3, <1>4
<1>6. Len(rep.regions) <= Len(cat2[rep.from])
  BY <1>2, <1>3, <1>4
<1> QED BY <1>1, <1>4, <1>5, <1>6 DEF Sound

LEMMA GenuineKept ==
    ASSUME NEW key, NEW c \in CachedRegions, NEW open, NEW open2, open \subseteq open2,
           NEW cat \in [Starts -> Seq(Regions)], NEW cat2 \in [Starts -> Seq(Regions)],
           Grows(cat, cat2), Genuine(key, c, open, cat)
    PROVE  Genuine(key, c, open2, cat2)
<1>1. c.from \in Starts
  BY DEF CachedRegions
<1>2. Len(cat[c.from]) \in Nat /\ Len(cat2[c.from]) \in Nat
  BY <1>1
<1>3. /\ Len(cat[c.from]) <= Len(cat2[c.from]) /\ c.id \in 1 .. Len(cat[c.from])
      /\ cat2[c.from][c.id] = cat[c.from][c.id]
  BY <1>1 DEF Grows, Genuine
<1>4. c.id \in 1 .. Len(cat2[c.from])
  BY <1>2, <1>3
<1> QED BY <1>3, <1>4 DEF Genuine

(* ingest for group g: the other groups' tuples and what is new.           *)
LEMMA Merge ==
    ASSUME NEW g, NEW s \in Seq(CachedRegions), NEW new \in Seq(CachedRegions),
           Len(new) <= 1, \A n \in 1 .. Len(new) : new[n].group = g
    PROVE  LET q == Retain(g, s) \o new
           IN  /\ q \in Seq(CachedRegions)
               /\ \A n \in 1 .. Len(q) :
                      \/ \E m \in 1 .. Len(s) : q[n] = s[m] /\ s[m].group # g
                      \/ Len(new) = 1 /\ q[n] = new[1]
               /\ \A m \in 1 .. Len(s) :
                      s[m].group # g => \E n \in 1 .. Len(q) : q[n] = s[m]
               /\ Len(new) = 1 => \E n \in 1 .. Len(q) : q[n] = new[1]
               /\ (\A a, b \in 1 .. Len(s) : s[a].group = s[b].group => a = b) =>
                      \A a, b \in 1 .. Len(q) : q[a].group = q[b].group => a = b
<1> DEFINE T == {c \in CachedRegions : c.group # g}
           k == Retain(g, s)
           q == k \o new
<1>1. k \in Seq(CachedRegions) /\ \E h : Selects(h, k, s, Len(s), T)
  BY KeepSelects DEF Retain
<1>2. PICK h : Selects(h, k, s, Len(s), T)
  BY <1>1
<1>3. /\ \A i \in 1 .. Len(k) : h[i] \in 1 .. Len(s) /\ k[i] = s[h[i]] /\ s[h[i]].group # g
      /\ \A i, j \in 1 .. Len(k) : i < j => h[i] < h[j]
      /\ \A n \in 1 .. Len(s) : s[n].group # g => \E i \in 1 .. Len(k) : h[i] = n
  <2>1. \A n \in 1 .. Len(s) : s[n] \in CachedRegions
    OBVIOUS
  <2> QED BY <1>2, <2>1 DEF Selects
<1> HIDE DEF k
<1>4. Len(k) \in Nat /\ Len(new) \in Nat /\ Len(s) \in Nat /\ Len(q) = Len(k) + Len(new)
  BY <1>1
<1>a. q \in Seq(CachedRegions) /\ \A n \in 1 .. Len(k) : q[n] = k[n]
  BY <1>1
<1>b. Len(new) = 1 => q[Len(k) + 1] = new[1] /\ new[1].group = g
  <2>1. ASSUME Len(new) = 1 PROVE q[Len(k) + 1] = new[1] /\ new[1].group = g
    <3>1. 1 \in 1 .. Len(new) /\ Len(k) + 1 \in 1 .. Len(k) + Len(new)
      BY <1>4, <2>1
    <3>2. ~(Len(k) + 1 <= Len(k)) /\ (Len(k) + 1) - Len(k) = 1
      BY <1>4
    <3>3. q[Len(k) + 1] = IF Len(k) + 1 <= Len(k) THEN k[Len(k) + 1]
                                                ELSE new[(Len(k) + 1) - Len(k)]
      BY <1>1, <3>1, ConcatProperties
    <3> QED BY <3>1, <3>2, <3>3
  <2> QED BY <2>1
<1> HIDE DEF q
<1>5. ASSUME NEW n \in 1 .. Len(q)
      PROVE  n \in 1 .. Len(k) \/ (n = Len(k) + 1 /\ Len(new) = 1)
  <2>1. n \in Nat /\ 1 <= n /\ n <= Len(k) + Len(new) /\ Len(new) <= 1
    BY <1>4
  <2>2. Len(new) = 0 \/ Len(new) = 1
    <3>1. ASSUME NEW x \in Nat, x <= 1 PROVE x = 0 \/ x = 1
      BY <3>1
    <3> QED BY <1>4, <2>1, <3>1
  <2>3. CASE Len(new) = 0
    BY <1>4, <2>1, <2>3
  <2>4. CASE Len(new) = 1
    <3>1. n <= Len(k) \/ n = Len(k) + 1
      BY <1>4, <2>1, <2>4
    <3> QED BY <1>4, <2>1, <2>4, <3>1
  <2> QED BY <2>2, <2>3, <2>4
<1>7. ASSUME NEW n \in 1 .. Len(k) PROVE n \in 1 .. Len(q)
  BY <1>4
<1>8. Len(new) = 1 => Len(k) + 1 \in 1 .. Len(q)
  BY <1>4
<1>9. ASSUME NEW n \in 1 .. Len(q)
      PROVE  \/ \E m \in 1 .. Len(s) : q[n] = s[m] /\ s[m].group # g
             \/ Len(new) = 1 /\ q[n] = new[1]
  <2>1. CASE n \in 1 .. Len(k)
    <3>1. h[n] \in 1 .. Len(s) /\ q[n] = s[h[n]] /\ s[h[n]].group # g
      BY <1>3, <1>a, <2>1
    <3> QED BY <3>1
  <2>2. CASE n = Len(k) + 1 /\ Len(new) = 1
    BY <1>b, <2>2
  <2> QED BY <1>5, <2>1, <2>2
<1>10. \A m \in 1 .. Len(s) : s[m].group # g => \E n \in 1 .. Len(q) : q[n] = s[m]
  BY <1>3, <1>a, <1>7
<1>11. ASSUME \A a, b \in 1 .. Len(s) : s[a].group = s[b].group => a = b,
              NEW a \in 1 .. Len(q), NEW b \in 1 .. Len(q), q[a].group = q[b].group
       PROVE  a = b
  <2>1. CASE a \in 1 .. Len(k) /\ b \in 1 .. Len(k)
    <3>0. s[h[a]].group = s[h[b]].group /\ h[a] \in 1 .. Len(s) /\ h[b] \in 1 .. Len(s)
      BY <1>3, <1>a, <1>11, <2>1
    <3>1. h[a] = h[b]
      BY <1>11, <3>0
    <3>2. a \in Nat /\ b \in Nat /\ h[a] \in Nat /\ h[b] \in Nat
      BY <1>3, <2>1
    <3>3. (a < b => h[a] < h[b]) /\ (b < a => h[b] < h[a])
      BY <1>3, <2>1
    <3> QED BY <3>1, <3>2, <3>3
  <2>2. CASE a \in 1 .. Len(k) /\ ~(b \in 1 .. Len(k))
    <3>1. q[a].group # g
      BY <1>3, <1>a, <2>2, SMTT(30)
    <3>2. q[b].group = g
      BY <1>5, <1>b, <2>2
    <3> QED BY <1>11, <3>1, <3>2
  <2>3. CASE ~(a \in 1 .. Len(k)) /\ b \in 1 .. Len(k)
    <3>1. q[b].group # g
      BY <1>3, <1>a, <2>3
    <3>2. q[a].group = g
      BY <1>5, <1>b, <2>3
    <3> QED BY <1>11, <3>1, <3>2
  <2>4. CASE ~(a \in 1 .. Len(k)) /\ ~(b \in 1 .. Len(k))
    BY <1>5, <2>4
  <2> QED BY <2>1, <2>2, <2>3, <2>4
<1>12. q \in Seq(CachedRegions) /\ (Len(new) = 1 => \E n \in 1 .. Len(q) : q[n] = new[1])
  BY <1>a, <1>b, <1>8
<1> QED BY <1>9, <1>10, <1>11, <1>12 DEF q, k


-----------------------------------------------------------------------------
(* Steps that leave the cache alone.                                       *)

LEMMA Lengths ==
    ASSUME TypeOK
    PROVE  /\ MaxStarts \in Nat /\ MaxRegions \in Nat /\ now \in Nat /\ 1 <= now
           /\ \A e \in Starts : catalog[e] \in Seq(Regions) /\ Len(catalog[e]) \in Nat
           /\ \A g \in Groups : slot[g] \in Nat /\ channel[g] \in Nat
           /\ \A g \in Groups : answer[g] \in Replies
<1>1. MaxStarts \in Nat /\ MaxRegions \in Nat
  BY BoundsAssumption
<1>2. now \in Nat /\ 1 <= now
  BY <1>1 DEF TypeOK, Starts
<1>3. \A g \in Groups : slot[g] \in Nat /\ channel[g] \in Nat
  BY <1>1 DEF TypeOK
<1>4. ASSUME NEW e \in Starts PROVE catalog[e] \in Seq(Regions) /\ Len(catalog[e]) \in Nat
  BY DEF TypeOK
<1>5. \A g \in Groups : answer[g] \in Replies
  BY DEF TypeOK
<1> QED BY <1>1, <1>2, <1>3, <1>4, <1>5

LEMMA ReplyTypes ==
    ASSUME NEW rep \in Replies
    PROVE  /\ rep.from \in 0 .. MaxStarts /\ rep.regions \in Seq(Regions)
           /\ Len(rep.regions) \in Nat /\ rep.tuples \subseteq Ids /\ rep.from \in Nat
           /\ rep # NoReply => rep.from \in Starts
<1>1. MaxStarts \in Nat
  BY BoundsAssumption
<1>2. CASE rep = NoReply
  BY <1>1, <1>2 DEF NoReply
<1>3. CASE rep \in [from : Starts, regions : Seq(Regions), tuples : SUBSET Ids]
  BY <1>1, <1>3 DEF Starts
<1> QED BY <1>2, <1>3 DEF Replies

LEMMA GrowsNot ==
    ASSUME TypeOK, catalog' = catalog
    PROVE  Grows(catalog, catalog')
BY Lengths DEF Grows

LEMMA CacheKept ==
    ASSUME IInv, TypeOK', UNCHANGED <<metadata, regions, answer>>, handed' = handed,
           opened \subseteq opened', Grows(catalog, catalog'),
           \A g \in Groups : last'[g] = "ok" => last[g] = "ok" /\ slot'[g] = slot[g]
    PROVE  MirrorsCatalog' /\ Entries' /\ Complete' /\ HandlesUsable'
<1>0. catalog \in [Starts -> Seq(Regions)] /\ catalog' \in [Starts -> Seq(Regions)]
  BY DEF IInv, TypeOK
<1>1. MirrorsCatalog'
  BY DEF IInv, MirrorsCatalog, Key
<1>2. Entries'
  <2>1. ASSUME NEW key \in DOMAIN regions, NEW n \in 1 .. Len(regions[key])
        PROVE  Genuine(key, regions[key][n], opened', catalog')
    <3>1. regions[key] \in Seq(CachedRegions)
      BY DEF IInv, TypeOK
    <3>2. regions[key][n] \in CachedRegions
      BY <3>1
    <3>3. Genuine(key, regions[key][n], opened, catalog)
      BY DEF IInv, Entries
    <3> QED BY <1>0, <3>2, <3>3, GenuineKept
  <2> QED BY <2>1 DEF Entries
<1>3. Complete'
  <2>1. ASSUME NEW g \in Groups PROVE Latest(g)' => Latest(g)
    BY DEF Latest
  <2> QED BY <2>1 DEF IInv, Complete
<1>4. HandlesUsable'
  <2>1. ASSUME NEW h \in handed
        PROVE  /\ h.shares
               /\ h.cached.id \in DOMAIN catalog'[h.cached.from]
               /\ h.cached.layout = catalog'[h.cached.from][h.cached.id].layout
    <3>1. h.cached.from \in Starts
      BY DEF IInv, TypeOK, CachedRegions
    <3>2. DOMAIN catalog[h.cached.from] = 1 .. Len(catalog[h.cached.from])
      BY <1>0, <3>1
    <3>3. DOMAIN catalog'[h.cached.from] = 1 .. Len(catalog'[h.cached.from])
      BY <1>0, <3>1
    <3>4. /\ h.shares /\ h.cached.id \in 1 .. Len(catalog[h.cached.from])
          /\ h.cached.layout = catalog[h.cached.from][h.cached.id].layout
      BY <3>2 DEF IInv, HandlesUsable
    <3>5. /\ Len(catalog[h.cached.from]) <= Len(catalog'[h.cached.from])
          /\ catalog'[h.cached.from][h.cached.id] = catalog[h.cached.from][h.cached.id]
      BY <3>1, <3>4 DEF Grows
    <3>6. Len(catalog[h.cached.from]) \in Nat /\ Len(catalog'[h.cached.from]) \in Nat
      BY <1>0, <3>1
    <3>7. h.cached.id \in 1 .. Len(catalog'[h.cached.from])
      BY <3>4, <3>5, <3>6
    <3> QED BY <3>3, <3>4, <3>5, <3>7
  <2> QED BY <2>1 DEF HandlesUsable
<1> QED BY <1>1, <1>2, <1>3, <1>4

(* The provider registers or is restarted: what it said stays true.        *)
LEMMA ProviderStep ==
    ASSUME IInv, now' \in Starts, now <= now', catalog' \in [Starts -> Seq(Regions)],
           Grows(catalog, catalog'), Bounded',
           UNCHANGED <<opened, channel, slot, metadata, regions, answer,
                       handed, call, reply, calls, last>>
    PROVE  IInv'
<1>0. TypeOK /\ now \in Starts /\ catalog \in [Starts -> Seq(Regions)]
  BY DEF IInv, TypeOK
<1>1. TypeOK'
  BY <1>0 DEF TypeOK
<1>2. MirrorsCatalog' /\ Entries' /\ Complete' /\ HandlesUsable'
  BY <1>1, CacheKept
<1>3. ASSUME NEW rep \in Replies, Sound(rep, now, catalog) PROVE Sound(rep, now', catalog')
  BY <1>0, <1>3, SoundKept
<1>4. Running'
  <2>1. reply \in Replies
    BY <1>0 DEF TypeOK
  <2>2. Running
    BY DEF IInv
  <2> QED BY <1>3, <2>1, <2>2 DEF Running
<1>5. ASSUME NEW g \in Groups PROVE Kept(g)'
  <2>1. Kept(g) /\ answer[g] \in Replies /\ slot[g] \in Nat
    BY <1>0, Lengths DEF IInv
  <2>2. now \in Nat /\ now' \in Nat
    BY BoundsAssumption, <1>0 DEF Starts
  <2>3. slot'[g] <= now'
    BY <2>1, <2>2 DEF Kept
  <2> QED BY <1>3, <2>1, <2>3 DEF Kept
<1> QED BY <1>1, <1>2, <1>4, <1>5 DEF IInv

LEMMA RegisterStep == ASSUME IInv, NEW region \in Regions, Register(region) PROVE IInv'
<1>0. TypeOK /\ now \in Starts /\ catalog \in [Starts -> Seq(Regions)] /\ Bounded
  BY DEF IInv, TypeOK
<1>1. /\ UNCHANGED <<opened, channel, slot, metadata, regions, answer,
                     handed, call, reply, calls, last>>
      /\ now' = now /\ Len(catalog[now]) < MaxRegions
      /\ catalog' = [catalog EXCEPT ![now] = Append(catalog[now], region)]
  BY DEF Register, cache
<1>2. catalog[now] \in Seq(Regions) /\ Len(catalog[now]) \in Nat
  BY <1>0
<1>3. /\ Append(catalog[now], region) \in Seq(Regions)
      /\ Len(Append(catalog[now], region)) = Len(catalog[now]) + 1
      /\ \A i \in 1 .. Len(catalog[now]) : Append(catalog[now], region)[i] = catalog[now][i]
  BY <1>2, AppendProperties
<1>4. /\ catalog' \in [Starts -> Seq(Regions)] /\ catalog'[now] = Append(catalog[now], region)
      /\ \A e \in Starts : e # now => catalog'[e] = catalog[e]
  BY <1>0, <1>1, <1>3
<1>5. Grows(catalog, catalog')
  <2>1. ASSUME NEW e \in Starts, e # now
        PROVE  /\ Len(catalog[e]) <= Len(catalog'[e])
               /\ \A i \in 1 .. Len(catalog[e]) : catalog'[e][i] = catalog[e][i]
    <3>1. Len(catalog[e]) \in Nat
      BY <1>0
    <3> QED BY <1>4, <2>1, <3>1
  <2>2. /\ Len(catalog[now]) <= Len(catalog'[now])
        /\ \A i \in 1 .. Len(catalog[now]) : catalog'[now][i] = catalog[now][i]
    BY <1>2, <1>3, <1>4
  <2> QED BY <2>1, <2>2 DEF Grows
<1>6. Bounded'
  <2>1. Len(catalog'[now]) <= MaxRegions
    BY <1>1, <1>2, <1>3, <1>4, BoundsAssumption
  <2> QED BY <1>0, <1>4, <2>1 DEF Bounded
<1>7. now' \in Starts /\ now <= now'
  BY <1>0, <1>1, Lengths
<1> QED BY <1>1, <1>4, <1>5, <1>6, <1>7, ProviderStep

LEMMA RestartStep == ASSUME IInv, Restart PROVE IInv'
<1>0. TypeOK /\ now \in Starts /\ catalog \in [Starts -> Seq(Regions)] /\ Bounded
  BY DEF IInv, TypeOK
<1>1. /\ UNCHANGED <<opened, channel, slot, metadata, regions, answer,
                     handed, call, reply, calls, last>>
      /\ now' = now + 1 /\ now < MaxStarts /\ catalog' = catalog
  BY DEF Restart, cache
<1>2. now' \in Starts /\ now <= now'
  BY <1>0, <1>1, BoundsAssumption DEF Starts
<1>3. Bounded' /\ Grows(catalog, catalog')
  BY <1>0, <1>1, GrowsNot DEF Bounded
<1> QED BY <1>0, <1>1, <1>2, <1>3, ProviderStep

(* What IInv says of the pieces the steps below look at.                   *)
LEMMA Parts ==
    ASSUME IInv
    PROVE  /\ TypeOK /\ Bounded /\ Running /\ now \in Starts
           /\ catalog \in [Starts -> Seq(Regions)] /\ opened \subseteq Groups
           /\ channel \in [Groups -> 0 .. MaxStarts] /\ slot \in [Groups -> 0 .. MaxStarts]
           /\ last \in [Groups -> {"none", "ok", "err"}]
           /\ reply \in Replies /\ answer \in [Groups -> Replies]
           /\ call # NoCall => /\ call \in [group : Groups, to : Starts]
                               /\ call.group \in Groups /\ call.to \in Starts
           /\ reply # NoReply => call # NoCall
BY DEF IInv, TypeOK, Running

LEMMA ServeStep == ASSUME IInv, Serve PROVE IInv'
<1>0. TypeOK /\ Bounded /\ Running /\ now \in Starts
  BY Parts
<1>1. /\ UNCHANGED <<now, catalog, opened, channel, slot, metadata, regions, answer,
                     handed, call, calls, last>>
      /\ call # NoCall /\ call.to = now
  BY DEF Serve, cache, remote
<1>2. PICK ids \in SUBSET DOMAIN catalog[now] :
          reply' = [from |-> now, regions |-> catalog[now], tuples |-> ids]
  BY DEF Serve
<1>3. /\ catalog[now] \in Seq(Regions) /\ Len(catalog[now]) \in Nat
      /\ DOMAIN catalog[now] = 1 .. Len(catalog[now]) /\ Len(catalog[now]) <= MaxRegions
  BY <1>0, Parts DEF Bounded
<1>4. ids \subseteq Ids
  <2>1. MaxRegions \in Nat
    BY BoundsAssumption
  <2> QED BY <1>3, <2>1 DEF Ids
<1>5. reply' \in Replies /\ reply'.from = now /\ reply'.regions = catalog[now] /\ reply'.tuples = ids
  BY <1>0, <1>2, <1>3, <1>4 DEF Replies
<1>6. TypeOK'
  BY <1>0, <1>1, <1>5 DEF TypeOK
<1>7. MirrorsCatalog' /\ Entries' /\ Complete' /\ HandlesUsable'
  BY <1>0, <1>1, <1>6, CacheKept, GrowsNot
<1>8. now \in Nat /\ 1 <= now
  BY <1>0, Lengths
<1>9. Sound(reply', now, catalog)
  BY <1>3, <1>5, <1>8 DEF Sound
<1>10. ASSUME NEW g \in Groups PROVE NotAfter(answer[g], reply')
  <2>1. answer[g] \in Replies /\ (answer[g] # NoReply => Sound(answer[g], now, catalog))
    BY <1>0, Lengths DEF IInv, Kept
  <2>2. CASE answer[g] = NoReply
    <3>1. answer[g].from = 0
      BY <2>2 DEF NoReply
    <3> QED BY <1>5, <1>8, <3>1 DEF NotAfter
  <2>3. CASE Sound(answer[g], now, catalog)
    BY <1>5, <1>8, <2>3 DEF NotAfter, Sound
  <2> QED BY <2>1, <2>2, <2>3
<1>11. Running'
  BY <1>0, <1>1, <1>5, <1>9, <1>10 DEF Running
<1>12. ASSUME NEW g \in Groups PROVE Kept(g)'
  BY <1>1 DEF IInv, Kept
<1>13. Bounded'
  BY <1>0, <1>1 DEF Bounded
<1> QED BY <1>6, <1>7, <1>11, <1>12, <1>13 DEF IInv

LEMMA Entered ==
    ASSUME IInv, NEW g \in Groups, Enter(g)
    PROVE  /\ call = NoCall /\ reply = NoReply /\ calls' \in 0 .. MaxUpdates
           /\ opened' \subseteq Groups /\ opened \subseteq opened' /\ g \in opened'
<1>1. call = NoCall /\ calls < MaxUpdates /\ calls' = calls + 1 /\ opened' = opened \cup {g}
  BY DEF Enter, Session
<1>2. calls \in 0 .. MaxUpdates /\ MaxUpdates \in Nat
  BY BoundsAssumption DEF IInv, TypeOK
<1>3. calls' \in 0 .. MaxUpdates
  BY <1>1, <1>2
<1> QED BY <1>1, <1>3, Parts

LEMMA RefreshStep == ASSUME IInv, NEW g \in Groups, Refresh(g) PROVE IInv'
<1>0. TypeOK /\ Bounded /\ Running
  BY Parts
<1>1. /\ UNCHANGED <<now, catalog, channel, slot, metadata, regions, answer, handed, reply, last>>
      /\ Enter(g) /\ channel[g] # 0 /\ call' = [group |-> g, to |-> channel[g]]
  BY DEF Refresh, cache, remote
<1>2. /\ call = NoCall /\ reply = NoReply /\ calls' \in 0 .. MaxUpdates
      /\ opened' \subseteq Groups /\ opened \subseteq opened' /\ g \in opened'
  BY <1>1, Entered
<1>3. channel[g] \in Starts
  <2>1. channel[g] \in 0 .. MaxStarts /\ MaxStarts \in Nat
    BY BoundsAssumption, Parts
  <2> QED BY <1>1, <2>1 DEF Starts
<1>4. call' \in [group : Groups, to : Starts] /\ call'.group = g /\ call'.to = channel[g]
  BY <1>1, <1>3
<1>5. TypeOK'
  BY <1>0, <1>1, <1>2, <1>4 DEF TypeOK
<1>6. MirrorsCatalog' /\ Entries' /\ Complete' /\ HandlesUsable'
  BY <1>0, <1>1, <1>2, <1>5, CacheKept, GrowsNot
<1>7. Running'
  BY <1>1, <1>2, <1>4 DEF IInv, Running, Kept
<1>8. ASSUME NEW k \in Groups PROVE Kept(k)'
  BY <1>1, <1>2 DEF IInv, Kept
<1>9. Bounded'
  BY <1>0, <1>1 DEF Bounded
<1> QED BY <1>5, <1>6, <1>7, <1>8, <1>9 DEF IInv

LEMMA ConnectStep == ASSUME IInv, NEW g \in Groups, Connect(g) PROVE IInv'
<1>0. TypeOK /\ Bounded /\ Running /\ now \in Starts /\ slot \in [Groups -> 0 .. MaxStarts]
  BY Parts
<1>1. /\ UNCHANGED <<now, catalog, channel, metadata, regions, answer, handed, reply, last>>
      /\ Enter(g) /\ channel[g] = 0 /\ call' = [group |-> g, to |-> now]
      /\ slot' = [slot EXCEPT ![g] = now]
  BY DEF Connect, Fill, cache, remote
<1>2. /\ call = NoCall /\ reply = NoReply /\ calls' \in 0 .. MaxUpdates
      /\ opened' \subseteq Groups /\ opened \subseteq opened' /\ g \in opened'
  BY <1>1, Entered
<1>3. call' \in [group : Groups, to : Starts] /\ call'.group = g /\ call'.to = now
  BY <1>0, <1>1
<1>4. now \in Nat /\ now \in 0 .. MaxStarts
  BY <1>0, BoundsAssumption DEF Starts
<1>5. slot' \in [Groups -> 0 .. MaxStarts] /\ slot'[g] = now
      /\ \A k \in Groups : k # g => slot'[k] = slot[k]
  BY <1>0, <1>1, <1>4
<1>6. TypeOK'
  BY <1>0, <1>1, <1>2, <1>3, <1>5 DEF TypeOK
<1>7. last[g] # "ok"
  BY <1>1 DEF IInv, Kept
<1>8. MirrorsCatalog' /\ Entries' /\ Complete' /\ HandlesUsable'
  BY <1>0, <1>1, <1>2, <1>5, <1>6, <1>7, CacheKept, GrowsNot
<1>9. Running'
  BY <1>1, <1>2, <1>3, <1>5 DEF Running
<1>10. ASSUME NEW k \in Groups PROVE Kept(k)'
  <2>1. Kept(k)
    BY DEF IInv
  <2>2. CASE k = g
    BY <1>1, <1>4, <1>5, <1>7, <2>1, <2>2 DEF Kept
  <2>3. CASE k # g
    BY <1>1, <1>2, <1>5, <2>1, <2>3 DEF Kept
  <2> QED BY <2>2, <2>3
<1>11. Bounded'
  BY <1>0, <1>1 DEF Bounded
<1> QED BY <1>6, <1>8, <1>9, <1>10, <1>11 DEF IInv

LEMMA ConnectFailsStep == ASSUME IInv, NEW g \in Groups, ConnectFails(g) PROVE IInv'
<1>0. /\ TypeOK /\ Bounded /\ Running /\ last \in [Groups -> {"none", "ok", "err"}]
  BY Parts
<1>1. /\ UNCHANGED <<now, catalog, channel, slot, metadata, regions, answer, handed, call, reply>>
      /\ Enter(g) /\ last' = [last EXCEPT ![g] = "err"]
  BY DEF ConnectFails, cache, remote
<1>2. /\ call = NoCall /\ reply = NoReply /\ calls' \in 0 .. MaxUpdates
      /\ opened' \subseteq Groups /\ opened \subseteq opened'
  BY <1>1, Entered
<1>3. /\ last' \in [Groups -> {"none", "ok", "err"}]
      /\ \A k \in Groups : last'[k] = "ok" => last[k] = "ok"
  BY <1>0, <1>1
<1>4. TypeOK'
  BY <1>0, <1>1, <1>2, <1>3 DEF TypeOK
<1>5. MirrorsCatalog' /\ Entries' /\ Complete' /\ HandlesUsable'
  BY <1>0, <1>1, <1>2, <1>3, <1>4, CacheKept, GrowsNot
<1>6. Running'
  BY <1>1, <1>2 DEF Running
<1>7. ASSUME NEW k \in Groups PROVE Kept(k)'
  BY <1>1, <1>2, <1>3 DEF IInv, Kept
<1>8. Bounded'
  BY <1>0, <1>1 DEF Bounded
<1> QED BY <1>4, <1>5, <1>6, <1>7, <1>8 DEF IInv

(* The update that is running returns an error, its channel kept or not.   *)
LEMMA ErrStep ==
    ASSUME IInv, call # NoCall, Return("err"), NEW e \in {0, call.to},
           channel' = [channel EXCEPT ![call.group] = e],
           UNCHANGED <<now, catalog, opened, slot, metadata, regions, answer, handed, calls>>
    PROVE  IInv'
<1> DEFINE g == call.group
<1>0. /\ TypeOK /\ Bounded /\ Running /\ last \in [Groups -> {"none", "ok", "err"}]
      /\ channel \in [Groups -> 0 .. MaxStarts] /\ g \in Groups /\ call.to \in Starts
  BY Parts
<1>1. call' = NoCall /\ reply' = NoReply /\ last' = [last EXCEPT ![g] = "err"]
  BY DEF Return
<1>2. e \in 0 .. MaxStarts
  BY <1>0, BoundsAssumption DEF Starts
<1>3. /\ last' \in [Groups -> {"none", "ok", "err"}] /\ last'[g] = "err"
      /\ \A k \in Groups : last'[k] = "ok" => last[k] = "ok" /\ k # g
      /\ channel' \in [Groups -> 0 .. MaxStarts] /\ channel'[g] = e
      /\ \A k \in Groups : k # g => channel'[k] = channel[k]
  BY <1>0, <1>1, <1>2
<1>4. TypeOK'
  BY <1>0, <1>1, <1>3 DEF TypeOK, Replies
<1>5. MirrorsCatalog' /\ Entries' /\ Complete' /\ HandlesUsable'
  BY <1>0, <1>1, <1>3, <1>4, CacheKept, GrowsNot
<1>6. Running'
  BY <1>1 DEF Running
<1>7. ASSUME NEW k \in Groups PROVE Kept(k)'
  <2>1. Kept(k)
    BY DEF IInv
  <2>2. CASE k = g
    <3>1. call.to = slot[g] /\ g \in opened
      BY <1>0 DEF Running
    <3> QED BY <1>3, <2>1, <2>2, <3>1 DEF Kept
  <2>3. CASE k # g
    BY <1>3, <2>1, <2>3 DEF Kept
  <2> QED BY <2>2, <2>3
<1>8. Bounded'
  BY <1>0 DEF Bounded
<1> QED BY <1>4, <1>5, <1>6, <1>7, <1>8 DEF IInv

LEMMA ExchangeFailsStep == ASSUME IInv, ExchangeFails PROVE IInv'
BY ErrStep DEF ExchangeFails, cache, remote

LEMMA IngestRefusesStep == ASSUME IInv, IngestRefuses PROVE IInv'
BY ErrStep, Parts DEF IngestRefuses, cache, remote

LEMMA GetRemoteMrStep ==
    ASSUME IInv, NEW key \in Names \X Ids, NEW group \in Groups \cup {"any"},
           GetRemoteMr(key, group)
    PROVE  IInv'
<1>0. TypeOK /\ Bounded /\ Running
  BY Parts
<1>1. /\ UNCHANGED <<now, catalog, opened, channel, slot, metadata, regions, answer,
                     call, reply, calls, last>>
      /\ key \in DOMAIN regions
  BY DEF GetRemoteMr, cache, remote
<1>2. PICK n \in Hits(key, group) :
          handed' = handed \cup {[cached |-> regions[key][n],
                                  shares |-> regions[key][n].group \in opened]}
  BY DEF GetRemoteMr
<1> DEFINE c == regions[key][n]
           r == [cached |-> c, shares |-> c.group \in opened]
<1>3. regions[key] \in Seq(CachedRegions) /\ n \in 1 .. Len(regions[key])
  BY <1>0, <1>1 DEF TypeOK, Hits
<1>4. c \in CachedRegions
  BY <1>3
<1>5. Genuine(key, c, opened, catalog)
  BY <1>1, <1>3 DEF IInv, Entries
<1>6. DOMAIN catalog[c.from] = 1 .. Len(catalog[c.from])
  <2>1. c.from \in Starts
    BY <1>4 DEF CachedRegions
  <2> HIDE DEF c
  <2> QED BY <2>1, Parts
<1> HIDE DEF c
<1>7. /\ r.cached = c /\ r.shares = (c.group \in opened) /\ c.group \in opened
      /\ c.id \in DOMAIN catalog[c.from] /\ c.layout = catalog[c.from][c.id].layout
  BY <1>5, <1>6 DEF Genuine
<1>8. r \in [cached : CachedRegions, shares : BOOLEAN]
  BY <1>4, <1>7
<1>9. handed' = handed \cup {r}
  BY <1>2 DEF c
<1> HIDE DEF r
<1>10. HandlesUsable'
  <2>1. HandlesUsable
    BY DEF IInv
  <2> QED BY <1>1, <1>7, <1>9, <2>1 DEF HandlesUsable
<1>11. TypeOK'
  BY <1>0, <1>1, <1>8, <1>9 DEF TypeOK
<1>12. MirrorsCatalog' /\ Entries' /\ Complete'
  BY <1>1 DEF IInv, MirrorsCatalog, Key, Entries, Complete, Latest
<1>13. Running' /\ Bounded'
  BY <1>0, <1>1 DEF Running, Bounded
<1>14. ASSUME NEW k \in Groups PROVE Kept(k)'
  BY <1>1 DEF IInv, Kept
<1> QED BY <1>10, <1>11, <1>12, <1>13, <1>14 DEF IInv

-----------------------------------------------------------------------------
(* The exchange is received: what ingest leaves under a key.               *)

LEMMA IngestedKey ==
    ASSUME IInv, ReceiveExchange, NEW key \in LiveKeys
    PROVE  LET g == call.group
               i == key[2]
           IN  /\ i \in 1 .. Len(reply.regions) /\ i \in Ids
               /\ key = <<reply.regions[i].name, i>> /\ reply.regions[i] \in Regions
               /\ key \in DOMAIN regions' /\ regions'[key] \in Seq(CachedRegions)
               /\ \A n \in 1 .. Len(regions'[key]) :
                      \/ /\ key \in DOMAIN regions
                         /\ \E m \in 1 .. Len(regions[key]) :
                                regions'[key][n] = regions[key][m] /\ regions[key][m].group # g
                      \/ i \in reply.tuples /\ regions'[key][n] = CachedRegion(g, i)
               /\ key \in DOMAIN regions => \A m \in 1 .. Len(regions[key]) :
                      regions[key][m].group # g =>
                          \E n \in 1 .. Len(regions'[key]) : regions'[key][n] = regions[key][m]
               /\ i \in reply.tuples =>
                      \E n \in 1 .. Len(regions'[key]) : regions'[key][n] = CachedRegion(g, i)
               /\ \A a, b \in 1 .. Len(regions'[key]) :
                      regions'[key][a].group = regions'[key][b].group => a = b
<1> DEFINE g == call.group
           i == key[2]
           s == Cached(key)
           new == IF i \in reply.tuples THEN <<CachedRegion(g, i)>> ELSE <<>>
           q == Retain(g, s) \o new
<1>0. /\ TypeOK /\ Bounded /\ Running /\ reply # NoReply /\ call # NoCall
      /\ g \in Groups /\ reply \in Replies
  BY Parts DEF ReceiveExchange
<1>1. /\ reply.from \in Starts /\ reply.regions \in Seq(Regions) /\ Len(reply.regions) \in Nat
      /\ DOMAIN reply.regions = 1 .. Len(reply.regions)
  BY <1>0, ReplyTypes
<1>2. Len(reply.regions) <= MaxRegions
  <2>1. Len(reply.regions) <= Len(catalog[reply.from]) /\ Len(catalog[reply.from]) <= MaxRegions
    BY <1>0, <1>1 DEF Running, Sound, Bounded
  <2> QED BY <1>0, <1>1, <2>1, Lengths
<1>3. PICK j \in 1 .. Len(reply.regions) : key = <<reply.regions[j].name, j>>
  BY <1>1 DEF LiveKeys, Key
<1>4. i = j /\ i \in 1 .. Len(reply.regions) /\ key = <<reply.regions[i].name, i>>
  BY <1>3
<1>5. i \in Ids /\ reply.regions[i] \in Regions
  BY <1>1, <1>2, <1>4, BoundsAssumption DEF Ids
<1>6. regions' = [k \in LiveKeys |-> Retain(g, Cached(k))
          \o (IF k[2] \in reply.tuples THEN <<CachedRegion(g, k[2])>> ELSE <<>>)]
  BY DEF ReceiveExchange, Ingest
<1>7. key \in DOMAIN regions' /\ regions'[key] = q
  BY <1>6
<1>8. s \in Seq(CachedRegions)
  BY <1>0 DEF TypeOK, Cached
<1>9. CachedRegion(g, i) \in CachedRegions /\ CachedRegion(g, i).group = g
  BY <1>0, <1>1, <1>5 DEF CachedRegion, CachedRegions, Regions
<1>10. /\ new \in Seq(CachedRegions) /\ Len(new) <= 1
       /\ \A n \in 1 .. Len(new) : new[n].group = g
       /\ i \in reply.tuples <=> Len(new) = 1
       /\ i \in reply.tuples => new[1] = CachedRegion(g, i)
  <2> DEFINE c == CachedRegion(g, i)
  <2> HIDE DEF c
  <2>1. c \in CachedRegions /\ c.group = g
    BY <1>9 DEF c
  <2>2. <<c>> \in Seq(CachedRegions) /\ Len(<<c>>) = 1 /\ <<c>>[1] = c
    BY <2>1
  <2>3. <<>> \in Seq(CachedRegions) /\ Len(<<>>) = 0
    OBVIOUS
  <2>4. CASE i \in reply.tuples
    <3>1. new = <<c>>
      BY <2>4 DEF c
    <3>2. \A n \in 1 .. Len(<<c>>) : <<c>>[n] = c
      BY <2>2
    <3> QED BY <2>1, <2>2, <2>4, <3>1, <3>2 DEF c
  <2>5. CASE i \notin reply.tuples
    <3>1. new = <<>>
      BY <2>5
    <3> QED BY <2>3, <2>5, <3>1
  <2> QED BY <2>4, <2>5
<1>11. \A a, b \in 1 .. Len(s) : s[a].group = s[b].group => a = b
  <2>1. CASE key \in DOMAIN regions
    <3>1. s = regions[key] /\ DOMAIN regions[key] = 1 .. Len(regions[key])
      BY <1>8, <2>1 DEF Cached
    <3> QED BY <2>1, <3>1 DEF IInv, MirrorsCatalog
  <2>2. CASE key \notin DOMAIN regions
    <3>1. s = <<>>
      BY <2>2 DEF Cached
    <3>2. 1 .. Len(s) = {}
      BY <3>1
    <3> QED BY <3>2
  <2> QED BY <2>1, <2>2
<1>12. key \in DOMAIN regions => s = regions[key]
  BY DEF Cached
<1>13. key \notin DOMAIN regions => 1 .. Len(s) = {}
  BY DEF Cached
<1> HIDE DEF s, new, g, i
<1>14. /\ q \in Seq(CachedRegions)
       /\ \A n \in 1 .. Len(q) :
              \/ \E m \in 1 .. Len(s) : q[n] = s[m] /\ s[m].group # g
              \/ Len(new) = 1 /\ q[n] = new[1]
       /\ \A m \in 1 .. Len(s) :
              s[m].group # g => \E n \in 1 .. Len(q) : q[n] = s[m]
       /\ Len(new) = 1 => \E n \in 1 .. Len(q) : q[n] = new[1]
       /\ \A a, b \in 1 .. Len(q) : q[a].group = q[b].group => a = b
  BY <1>8, <1>10, <1>11, Merge
<1> HIDE DEF q
<1>15. ASSUME NEW n \in 1 .. Len(q)
       PROVE  \/ /\ key \in DOMAIN regions
                 /\ \E m \in 1 .. Len(regions[key]) :
                        q[n] = regions[key][m] /\ regions[key][m].group # g
              \/ i \in reply.tuples /\ q[n] = CachedRegion(g, i)
  <2>1. CASE Len(new) = 1 /\ q[n] = new[1]
    BY <1>10, <2>1
  <2>2. CASE \E m \in 1 .. Len(s) : q[n] = s[m] /\ s[m].group # g
    <3>1. PICK m \in 1 .. Len(s) : q[n] = s[m] /\ s[m].group # g
      BY <2>2
    <3>2. key \in DOMAIN regions /\ s = regions[key]
      BY <1>12, <1>13, <3>1
    <3>3. m \in 1 .. Len(regions[key]) /\ q[n] = regions[key][m] /\ regions[key][m].group # g
      BY <3>1, <3>2, Zenon
    <3> QED BY <3>2, <3>3, Zenon
  <2> QED BY <1>14, <2>1, <2>2, Zenon
<1>16. key \in DOMAIN regions => \A m \in 1 .. Len(regions[key]) :
           regions[key][m].group # g => \E n \in 1 .. Len(q) : q[n] = regions[key][m]
  BY <1>12, <1>14
<1>17. i \in reply.tuples => \E n \in 1 .. Len(q) : q[n] = CachedRegion(g, i)
  BY <1>10, <1>14
<1> QED BY <1>4, <1>5, <1>7, <1>14, <1>15, <1>16, <1>17, ZenonT(30) DEF g, i

LEMMA ReceiveStep == ASSUME IInv, ReceiveExchange PROVE IInv'
<1> DEFINE g == call.group
<1>0. /\ TypeOK /\ Bounded /\ Running /\ reply # NoReply /\ call # NoCall /\ now \in Starts
      /\ g \in Groups /\ call.to \in Starts /\ reply \in Replies
      /\ catalog \in [Starts -> Seq(Regions)] /\ answer \in [Groups -> Replies]
      /\ last \in [Groups -> {"none", "ok", "err"}] /\ channel \in [Groups -> 0 .. MaxStarts]
  BY Parts DEF ReceiveExchange
<1>1. /\ UNCHANGED <<now, catalog, opened, slot, handed, calls>>
      /\ channel' = [channel EXCEPT ![g] = call.to] /\ call' = NoCall /\ reply' = NoReply
      /\ last' = [last EXCEPT ![g] = "ok"] /\ answer' = [answer EXCEPT ![g] = reply]
      /\ metadata' = reply.regions /\ DOMAIN regions' = LiveKeys
  BY DEF ReceiveExchange, Return, Ingest, remote
<1>2. /\ reply.from \in Starts /\ reply.from \in Nat /\ reply.from = slot[g] /\ g \in opened
      /\ reply.from = call.to /\ Sound(reply, now, catalog)
      /\ \A h \in Groups : NotAfter(answer[h], reply)
  BY <1>0, ReplyTypes DEF Running
<1>3. /\ reply.regions \in Seq(Regions) /\ Len(reply.regions) \in Nat
      /\ DOMAIN reply.regions = 1 .. Len(reply.regions) /\ reply.tuples \subseteq Ids
  BY <1>0, ReplyTypes
<1>4. /\ channel' \in [Groups -> 0 .. MaxStarts] /\ channel'[g] = call.to
      /\ \A h \in Groups : h # g => channel'[h] = channel[h]
  <2>1. call.to \in 0 .. MaxStarts
    BY <1>0, BoundsAssumption DEF Starts
  <2> QED BY <1>0, <1>1, <2>1
<1>5. /\ last' \in [Groups -> {"none", "ok", "err"}] /\ answer' \in [Groups -> Replies]
      /\ answer'[g] = reply
      /\ \A h \in Groups : h # g => last'[h] = last[h] /\ answer'[h] = answer[h]
  BY <1>0, <1>1
<1>k. ASSUME NEW key \in LiveKeys
      PROVE  /\ key[2] \in 1 .. Len(reply.regions) /\ key[2] \in Ids
             /\ key = <<reply.regions[key[2]].name, key[2]>> /\ reply.regions[key[2]] \in Regions
             /\ key \in DOMAIN regions' /\ regions'[key] \in Seq(CachedRegions)
             /\ key \in DOMAIN regions => \A m \in 1 .. Len(regions[key]) :
                    regions[key][m].group # g =>
                        \E n \in 1 .. Len(regions'[key]) : regions'[key][n] = regions[key][m]
             /\ key[2] \in reply.tuples =>
                    \E n \in 1 .. Len(regions'[key]) : regions'[key][n] = CachedRegion(g, key[2])
             /\ \A a, b \in 1 .. Len(regions'[key]) :
                    regions'[key][a].group = regions'[key][b].group => a = b
  BY IngestedKey
<1>n. ASSUME NEW key \in LiveKeys, NEW n \in 1 .. Len(regions'[key])
      PROVE  \/ /\ key \in DOMAIN regions
                /\ \E m \in 1 .. Len(regions[key]) :
                       regions'[key][n] = regions[key][m] /\ regions[key][m].group # g
             \/ key[2] \in reply.tuples /\ regions'[key][n] = CachedRegion(g, key[2])
  BY IngestedKey
<1>c. ASSUME NEW i PROVE /\ CachedRegion(g, i).group = g /\ CachedRegion(g, i).id = i
                         /\ CachedRegion(g, i).from = reply.from
                         /\ CachedRegion(g, i).layout = reply.regions[i].layout
  BY DEF CachedRegion
<1> HIDE DEF g
<1>6. TypeOK'
  <2>1. DOMAIN regions' \subseteq Names \X Ids
    BY <1>1, <1>k DEF Regions
  <2>2. \A key \in DOMAIN regions' : regions'[key] \in Seq(CachedRegions)
    BY <1>1, <1>k
  <2>3. reply' \in Replies
    BY <1>1 DEF Replies
  <2> QED BY <1>0, <1>1, <1>3, <1>4, <1>5, <2>1, <2>2, <2>3 DEF TypeOK
<1>7. MirrorsCatalog'
  <2>1. DOMAIN regions' = {<<metadata'[i].name, i>> : i \in DOMAIN metadata'}
    BY <1>1 DEF LiveKeys, Key
  <2>2. ASSUME NEW key \in DOMAIN regions'
        PROVE  /\ \A m, n \in DOMAIN regions'[key] :
                      regions'[key][m].group = regions'[key][n].group => m = n
               /\ \A n \in DOMAIN regions'[key] : regions'[key][n].id = key[2]
    <3>1. key \in LiveKeys
      BY <1>1
    <3>2. regions'[key] \in Seq(CachedRegions) /\ DOMAIN regions'[key] = 1 .. Len(regions'[key])
      BY <1>k, <3>1
    <3>3. ASSUME NEW n \in 1 .. Len(regions'[key]) PROVE regions'[key][n].id = key[2]
      <4>1. CASE key[2] \in reply.tuples /\ regions'[key][n] = CachedRegion(g, key[2])
        BY <1>c, <4>1
      <4>2. ASSUME key \in DOMAIN regions, NEW m \in 1 .. Len(regions[key]),
                   regions'[key][n] = regions[key][m]
            PROVE  regions'[key][n].id = key[2]
        BY <4>2 DEF IInv, Entries, Genuine
      <4> QED BY <1>n, <3>1, <4>1, <4>2
    <3> QED BY <1>k, <3>1, <3>2, <3>3
  <2> QED BY <2>1, <2>2 DEF MirrorsCatalog, Key
<1>8. Entries'
  <2>1. ASSUME NEW key \in LiveKeys, NEW n \in 1 .. Len(regions'[key])
        PROVE  Genuine(key, regions'[key][n], opened, catalog)
    <3>1. CASE key[2] \in reply.tuples /\ regions'[key][n] = CachedRegion(g, key[2])
      <4> DEFINE i == key[2]
                 c == CachedRegion(g, i)
      <4>1. /\ i \in 1 .. Len(reply.regions) /\ key = <<reply.regions[i].name, i>>
            /\ Len(reply.regions) <= Len(catalog[reply.from])
            /\ reply.regions[i] = catalog[reply.from][i]
        BY <1>k, <1>2 DEF Sound
      <4>2. i \in 1 .. Len(catalog[reply.from])
        <5>1. Len(catalog[reply.from]) \in Nat
          BY <1>0, <1>2
        <5> QED BY <1>3, <4>1, <5>1
      <4>3. c.group = g /\ c.id = i /\ c.from = reply.from /\ c.layout = reply.regions[i].layout
        BY <1>c
      <4>4. key[1] = reply.regions[i].name
        BY <4>1
      <4> HIDE DEF c
      <4>5. Genuine(key, c, opened, catalog)
        BY <1>2, <4>1, <4>2, <4>3, <4>4 DEF Genuine
      <4> QED BY <3>1, <4>5 DEF c
    <3>2. ASSUME key \in DOMAIN regions, NEW m \in 1 .. Len(regions[key]),
                 regions'[key][n] = regions[key][m]
          PROVE  Genuine(key, regions'[key][n], opened, catalog)
      BY <3>2 DEF IInv, Entries
    <3> QED BY <1>n, <3>1, <3>2
  <2> QED BY <1>1, <2>1 DEF Entries
<1>9. Complete'
  <2>1. ASSUME NEW k \in Groups, last'[k] = "ok", NEW key \in LiveKeys,
               NEW n \in 1 .. Len(regions'[key]), regions'[key][n].group = k
        PROVE  /\ regions'[key][n].from = slot[k]
               /\ regions'[key][n].id \in answer'[k].tuples
    <3>1. CASE key[2] \in reply.tuples /\ regions'[key][n] = CachedRegion(g, key[2])
      <4>1. /\ regions'[key][n].group = g /\ regions'[key][n].id = key[2]
            /\ regions'[key][n].from = reply.from
        BY <1>c, <3>1
      <4>2. k = g
        BY <2>1, <4>1
      <4> QED BY <1>2, <1>5, <3>1, <4>1, <4>2
    <3>2. ASSUME key \in DOMAIN regions, NEW m \in 1 .. Len(regions[key]),
                 regions'[key][n] = regions[key][m], regions[key][m].group # g
          PROVE  /\ regions'[key][n].from = slot[k]
                 /\ regions'[key][n].id \in answer'[k].tuples
      <4>1. k # g /\ last[k] = "ok" /\ answer'[k] = answer[k]
        BY <1>5, <2>1, <3>2
      <4> QED BY <2>1, <3>2, <4>1 DEF IInv, Complete
    <3> QED BY <1>n, <3>1, <3>2
  <2>2. ASSUME NEW k \in Groups, Latest(k)', NEW i \in answer'[k].tuples
        PROVE  \E key \in LiveKeys : \E n \in 1 .. Len(regions'[key]) :
                   regions'[key][n].group = k /\ regions'[key][n].id = i
    <3>1. CASE k = g
      <4>1. i \in reply.tuples /\ i \in 1 .. Len(reply.regions)
        BY <1>2, <1>5, <2>2, <3>1 DEF Sound
      <4> DEFINE key == <<reply.regions[i].name, i>>
      <4>2. key \in LiveKeys /\ key[2] = i
        BY <1>3, <4>1 DEF LiveKeys, Key
      <4> HIDE DEF key
      <4>3. PICK n \in 1 .. Len(regions'[key]) : regions'[key][n] = CachedRegion(g, i)
        BY <1>k, <4>1, <4>2
      <4> QED BY <1>c, <3>1, <4>2, <4>3
    <3>2. CASE k # g
      <4>1. last[k] = "ok" /\ answer'[k] = answer[k]
        BY <1>5, <2>2, <3>2 DEF Latest
      <4>2. reply.from <= answer[k].from
        BY <1>0, <1>5, <2>2, <4>1 DEF Latest
      <4>3. answer[k].from \in Nat /\ answer[g].from \in Nat /\ Len(answer[k].regions) \in Nat
        BY <1>0, ReplyTypes
      <4>4. answer[k].from = reply.from /\ Len(answer[k].regions) <= Len(reply.regions)
        BY <1>2, <4>2, <4>3 DEF NotAfter
      <4>5. Latest(k)
        <5>1. ASSUME NEW h \in Groups PROVE answer[h].from <= answer[k].from
          <6>1. CASE h = g
            BY <1>2, <4>4, <6>1 DEF NotAfter
          <6>2. CASE h # g
            BY <1>5, <2>2, <4>1, <6>2 DEF Latest
          <6> QED BY <6>1, <6>2
        <5> QED BY <4>1, <5>1 DEF Latest
      <4>k. PICK key \in DOMAIN regions : \E m \in 1 .. Len(regions[key]) :
                regions[key][m].group = k /\ regions[key][m].id = i
        BY <2>2, <4>1, <4>5 DEF IInv, Complete
      <4>6. PICK m \in 1 .. Len(regions[key]) :
                regions[key][m].group = k /\ regions[key][m].id = i
        BY <4>k
      <4>7. regions[key][m].from = slot[k] /\ answer[k].from = slot[k]
        BY <4>1, <4>6 DEF IInv, Complete, Kept
      <4>8. /\ key[2] = i /\ key[1] = catalog[reply.from][i].name
        BY <4>4, <4>6, <4>7 DEF IInv, Entries, Genuine
      <4>9. i \in 1 .. Len(reply.regions)
        <5>1. answer[k] # NoReply
          BY <1>2, <4>4, BoundsAssumption DEF NoReply, Starts
        <5>2. i \in 1 .. Len(answer[k].regions)
          BY <2>2, <4>1, <5>1 DEF IInv, Kept, Sound
        <5> QED BY <1>3, <4>3, <4>4, <5>2
      <4>10. reply.regions[i] = catalog[reply.from][i]
        BY <1>2, <4>9 DEF Sound
      <4>11. key = <<key[1], key[2]>>
        <5>1. key \in Names \X Ids
          BY <1>0 DEF TypeOK
        <5> QED BY <5>1
      <4>12. key \in LiveKeys
        BY <1>3, <4>8, <4>9, <4>10, <4>11 DEF LiveKeys, Key
      <4>13. PICK n \in 1 .. Len(regions'[key]) : regions'[key][n] = regions[key][m]
        BY <1>k, <3>2, <4>6, <4>12
      <4> QED BY <4>6, <4>12, <4>13
    <3> QED BY <3>1, <3>2
  <2> QED BY <1>1, <2>1, <2>2 DEF Complete
<1>10. HandlesUsable' /\ Bounded'
  BY <1>1 DEF IInv, HandlesUsable, Bounded
<1>11. Running'
  BY <1>1 DEF Running
<1>12. ASSUME NEW k \in Groups PROVE Kept(k)'
  <2>1. Kept(k)
    BY DEF IInv
  <2>2. CASE k = g
    <3>1. call.to # 0
      BY <1>0, BoundsAssumption DEF Starts
    <3> QED BY <1>1, <1>2, <1>4, <1>5, <2>1, <2>2, <3>1 DEF Kept
  <2>3. CASE k # g
    BY <1>1, <1>4, <1>5, <2>1, <2>3 DEF Kept
  <2> QED BY <2>2, <2>3
<1> QED BY <1>6, <1>7, <1>8, <1>9, <1>10, <1>11, <1>12 DEF IInv

-----------------------------------------------------------------------------
LEMMA InitInv == ASSUME Init PROVE IInv
<1>0. MaxStarts \in Nat /\ 1 <= MaxStarts /\ MaxRegions \in Nat /\ MaxUpdates \in Nat
  BY BoundsAssumption
<1>1. DOMAIN regions = {} /\ DOMAIN metadata = {} /\ handed = {}
  BY DEF Init
<1>2. TypeOK
  BY <1>0, <1>1 DEF Init, TypeOK, Starts, Replies
<1>3. Bounded
  <2>1. ASSUME NEW e \in Starts PROVE catalog[e] = <<>>
    BY DEF Init
  <2>2. Len(<<>>) = 0
    OBVIOUS
  <2> QED BY <1>0, <2>1, <2>2 DEF Bounded
<1>4. Running
  BY DEF Init, Running
<1>5. MirrorsCatalog /\ Entries /\ HandlesUsable
  BY <1>1 DEF MirrorsCatalog, Entries, HandlesUsable
<1>6. Complete
  BY DEF Init, Complete, Latest
<1>7. ASSUME NEW g \in Groups PROVE Kept(g)
  BY <1>0 DEF Init, Kept
<1> QED BY <1>2, <1>3, <1>4, <1>5, <1>6, <1>7 DEF IInv

LEMMA NextInv == ASSUME IInv, [Next]_vars PROVE IInv'
<1>1. CASE \E region \in Regions : Register(region)
  BY <1>1, RegisterStep
<1>2. CASE Restart
  BY <1>2, RestartStep
<1>3. CASE Serve
  BY <1>3, ServeStep
<1>4. CASE \E g \in Groups : Refresh(g) \/ Connect(g) \/ ConnectFails(g)
  BY <1>4, RefreshStep, ConnectStep, ConnectFailsStep
<1>5. CASE ExchangeFails
  BY <1>5, ExchangeFailsStep
<1>6. CASE IngestRefuses
  BY <1>6, IngestRefusesStep
<1>7. CASE ReceiveExchange
  BY <1>7, ReceiveStep
<1>8. CASE \E key \in Names \X Ids, group \in Groups \cup {"any"} : GetRemoteMr(key, group)
  BY <1>8, GetRemoteMrStep
<1>9. CASE UNCHANGED vars
  <2>1. UNCHANGED <<now, catalog, opened, channel, slot, metadata, regions, answer,
                    handed, call, reply, calls, last>>
    BY <1>9 DEF vars, remote, cache
  <2>2. TypeOK' /\ Bounded' /\ Running' /\ MirrorsCatalog' /\ Entries' /\ HandlesUsable'
    BY <2>1 DEF IInv, TypeOK, Bounded, Running, MirrorsCatalog, Key, Entries, HandlesUsable
  <2>3. Complete' /\ \A g \in Groups : Kept(g)'
    BY <2>1 DEF IInv, Complete, Latest, Kept
  <2> QED BY <2>2, <2>3 DEF IInv
<1> QED BY <1>1, <1>2, <1>3, <1>4, <1>5, <1>6, <1>7, <1>8, <1>9 DEF Next

THEOREM Invariance == Spec => []IInv
<1>1. Init => IInv
  BY InitInv
<1>2. IInv /\ [Next]_vars => IInv'
  BY NextInv
<1> QED BY <1>1, <1>2, PTL DEF Spec

-----------------------------------------------------------------------------
(* The properties.                                                         *)

(* What get_remote_mr can find of a group, by key and place.               *)
LEMMA TuplesFound ==
    ASSUME TypeOK, NEW g
    PROVE  /\ \A p \in TuplesOf(g) :
                  \E key \in DOMAIN regions : \E n \in 1 .. Len(regions[key]) :
                      p[2] = regions[key][n] /\ regions[key][n].group = g
           /\ \A key \in DOMAIN regions : \A n \in 1 .. Len(regions[key]) :
                  regions[key][n].group = g => <<key, regions[key][n]>> \in TuplesOf(g)
<1>0. \A key \in DOMAIN regions : DOMAIN regions[key] = 1 .. Len(regions[key])
  BY DEF TypeOK
<1>1. ASSUME NEW p \in TuplesOf(g)
      PROVE  \E key \in DOMAIN regions : \E n \in 1 .. Len(regions[key]) :
                 p[2] = regions[key][n] /\ regions[key][n].group = g
  <2>1. PICK key \in DOMAIN regions : p \in {<<key, regions[key][n]>> : n \in DOMAIN regions[key]}
    BY DEF TuplesOf
  <2>2. PICK n \in DOMAIN regions[key] : p = <<key, regions[key][n]>>
    BY <2>1
  <2>3. p[2] = regions[key][n] /\ p[2].group = g
    BY <2>2 DEF TuplesOf
  <2> QED BY <1>0, <2>2, <2>3
<1>2. ASSUME NEW key \in DOMAIN regions, NEW n \in 1 .. Len(regions[key]),
             regions[key][n].group = g
      PROVE  <<key, regions[key][n]>> \in TuplesOf(g)
  <2>1. <<key, regions[key][n]>> \in {<<key, regions[key][m]>> : m \in DOMAIN regions[key]}
    BY <1>0
  <2> QED BY <1>2, <2>1 DEF TuplesOf
<1> QED BY <1>1, <1>2

LEMMA SlotMatches == ASSUME IInv PROVE SlotMatchesTuples
<1>1. ASSUME NEW g \in Groups, last[g] = "ok", NEW p \in TuplesOf(g) PROVE p[2].from = slot[g]
  <2>k. PICK key \in DOMAIN regions : \E n \in 1 .. Len(regions[key]) :
            p[2] = regions[key][n] /\ regions[key][n].group = g
    BY TuplesFound DEF IInv
  <2>1. PICK n \in 1 .. Len(regions[key]) : p[2] = regions[key][n] /\ regions[key][n].group = g
    BY <2>k
  <2> QED BY <1>1, <2>1 DEF IInv, Complete
<1> QED BY <1>1 DEF SlotMatchesTuples

LEMMA Lookups == ASSUME IInv PROVE NothingLost
<1>1. ASSUME NEW g \in Groups, last[g] = "ok",
             \A h \in Groups : answer[h].from \in {0, slot[g]}
      PROVE  {p[2].id : p \in TuplesOf(g)} = answer[g].tuples
  <2>0. TypeOK /\ answer[g].from = slot[g] /\ slot[g] \in Nat
    BY <1>1, Lengths DEF IInv, Kept
  <2>1. Latest(g)
    BY <1>1, <2>0 DEF Latest
  <2>2. ASSUME NEW p \in TuplesOf(g) PROVE p[2].id \in answer[g].tuples
    <3>k. PICK key \in DOMAIN regions : \E n \in 1 .. Len(regions[key]) :
              p[2] = regions[key][n] /\ regions[key][n].group = g
      BY <2>0, TuplesFound
    <3>1. PICK n \in 1 .. Len(regions[key]) : p[2] = regions[key][n] /\ regions[key][n].group = g
      BY <3>k
    <3> QED BY <1>1, <3>1 DEF IInv, Complete
  <2>3. ASSUME NEW i \in answer[g].tuples PROVE \E p \in TuplesOf(g) : p[2].id = i
    <3>k. PICK key \in DOMAIN regions : \E n \in 1 .. Len(regions[key]) :
              regions[key][n].group = g /\ regions[key][n].id = i
      BY <2>1 DEF IInv, Complete
    <3>1. PICK n \in 1 .. Len(regions[key]) : regions[key][n].group = g /\ regions[key][n].id = i
      BY <3>k
    <3>2. <<key, regions[key][n]>> \in TuplesOf(g)
      BY <2>0, <3>1, TuplesFound
    <3>3. <<key, regions[key][n]>>[2].id = i
      BY <3>1
    <3> QED BY <3>2, <3>3
  <2> QED BY <2>2, <2>3
<1> QED BY <1>1 DEF NothingLost

(* The catalog, the cache, the sessions and the running update keep their  *)
(* types.                                                                  *)
THEOREM TypesCorrect == Spec => []TypeOK
<1>1. IInv => TypeOK
  BY DEF IInv
<1> QED BY <1>1, Invariance, PTL

(* After any ingest the cache lists exactly the catalog's regions, each    *)
(* with at most one tuple per group, under its own id.                     *)
THEOREM CacheMirrorsCatalog == Spec => []MirrorsCatalog
<1>1. IInv => MirrorsCatalog
  BY DEF IInv
<1> QED BY <1>1, Invariance, PTL

(* After an update that returned Ok, get_remote_mr finds for the group     *)
(* only tuples of the provider its slot is connected to.                   *)
THEOREM TuplesOfConnection == Spec => []SlotMatchesTuples
<1>1. IInv => SlotMatchesTuples
  BY SlotMatches
<1> QED BY <1>1, Invariance, PTL

(* Other groups' updates of the same provider lose none of the tuples a    *)
(* group's last update brought.                                            *)
THEOREM UpdatesKeepOthers == Spec => []NothingLost
<1>1. IInv => NothingLost
  BY Lookups
<1> QED BY <1>1, Invariance, PTL

(* A region that get_remote_mr handed out is checked against the layout of *)
(* the region its tuple reaches, and shares its group's slot.              *)
THEOREM HandedOutUsable == Spec => []HandlesUsable
<1>1. IInv => HandlesUsable
  BY DEF IInv
<1> QED BY <1>1, Invariance, PTL
=============================================================================
