--------------------------- MODULE EpisodesProofs ---------------------------
(***************************************************************************)
(* Episodes for any rows, batches and processes.  The inductive invariant  *)
(* says what a dispatch may rely on between its three steps: that what it  *)
(* matched still covers the rows that no later batch has written, and that *)
(* the episodes it locked are the open ones, as it read them.              *)
(***************************************************************************)
EXTENDS Episodes, FiniteSetTheorems, SequenceTheorems, WellFoundedInduction, TLAPS

Last(k) == episodes[k][Len(episodes[k])]

(* The keys whose episodes expire. *)
Expiring(k) == \E id \in Ids : Key[id] = k /\ SourceOf[id] = "aemet"

(* A warning has an end. *)
WarningsEnd == \A id \in DOMAIN rows : SourceOf[id] = "aemet" => rows[id].ends_at # NULL

(***************************************************************************)
(* An episode: its severity is the highest it notified, it expires if its  *)
(* key does, and it is closed only once some batch came after its grace.   *)
(***************************************************************************)
Sound(k, ep) ==
    /\ ep.notified_severity \in ep.delivered
    /\ \A s \in ep.delivered : s <= ep.notified_severity
    /\ ep.expires_at # NULL <=> Expiring(k)
    /\ ep.closed => /\ ep.expires_at # NULL
                    /\ \E e \in announced : ep.expires_at + Grace <= e.batch_at

EpisodesSound == \A k \in Keys : \A i \in 1 .. Len(episodes[k]) : Sound(k, episodes[k][i])

OnlyLastOpen ==
    \A k \in Keys : \A i \in 1 .. Len(episodes[k]) : i < Len(episodes[k]) => episodes[k][i].closed

(* What a process matched covers every row its batch was the last to write. *)
Covers(p, id) ==
    /\ Key[id] \in DOMAIN groups[p]
    /\ groups[p][Key[id]].severity >= rows[id].severity
    /\ SourceOf[id] = "aemet" => groups[p][Key[id]].expires_at >= rows[id].ends_at

DispatchKnown ==
    \A p \in Processes :
        /\ pc[p] = "idle" => DOMAIN groups[p] = {}
        /\ pc[p] # "locked" => DOMAIN open[p] = {}
        /\ pc[p] # "idle" => event[p] \in announced
        /\ \A k \in DOMAIN groups[p] : groups[p][k].expires_at # NULL <=> Expiring(k)
        /\ pc[p] # "idle" =>
            \A id \in DOMAIN rows :
                WrittenBy(id, event[p]) /\ Notifiable(id, event[p].batch_at) => Covers(p, id)

(* FOR UPDATE: an episode in hands is the open one, as read, in one process at most. *)
LockedIsLast ==
    /\ \A p \in Processes : \A k \in DOMAIN open[p] :
        episodes[k] # <<>> /\ ~ Last(k).closed /\ open[p][k] = Last(k)
    /\ \A p, q \in Processes : p # q => DOMAIN open[p] \cap DOMAIN open[q] = {}

IInv ==
    /\ TypeOK
    /\ DOMAIN groups = Processes /\ DOMAIN open = Processes
    /\ WarningsEnd
    /\ EpisodesSound
    /\ OnlyLastOpen
    /\ DispatchKnown
    /\ LockedIsLast
    /\ WhatMattersIsNotified

(***************************************************************************)
(* The constants: numbers, and keys that are of one source.                *)
(***************************************************************************)
LEMMA ConstantFacts ==
    /\ MaxTime \in Nat /\ Grace \in Nat /\ QuakeMaxAge \in Nat
    /\ NULL \notin Int /\ CLOSED \notin Int /\ NULL # CLOSED
    /\ \A s \in Severities : s \in Nat
    /\ \A id \in Ids : Key[id] \in Keys /\ SourceOf[id] \in Sources
    /\ \A id \in Ids : Expiring(Key[id]) <=> SourceOf[id] = "aemet"
<1>1. \A id \in Ids : Key[id] \in Keys /\ SourceOf[id] \in Sources
  BY EpisodesAssumption DEF Keys
<1>2. \A id \in Ids : Expiring(Key[id]) <=> SourceOf[id] = "aemet"
  BY EpisodesAssumption DEF Expiring
<1>3. \A s \in Severities : s \in Nat
  BY EpisodesAssumption
<1> QED
  BY <1>1, <1>2, <1>3, EpisodesAssumption

(***************************************************************************)
(* A function into the naturals has a greatest value over a finite set:    *)
(* else take a set without one that has no such subset, and leave out an   *)
(* element.                                                                *)
(***************************************************************************)
LEMMA FiniteHasGreatest ==
    ASSUME NEW G, IsFiniteSet(G), G # {}, NEW f \in [G -> Nat]
    PROVE  \E x \in G : \A y \in G : f[y] <= f[x]
<1> DEFINE Tops(U) == \E x \in U : \A y \in U : f[y] <= f[x]
           Without == {U \in SUBSET G : U # {} /\ ~ Tops(U)}
<1>1. SUFFICES ASSUME Without # {} PROVE FALSE
  OBVIOUS
<1>2. IsWellFoundedOn(StrictSubsetOrdering(G), FiniteSubsetsOf(G))
  BY FS_StrictSubsetOrderingWellFounded
<1>3. Without \subseteq FiniteSubsetsOf(G)
  BY FS_Subset DEF FiniteSubsetsOf
<1>4. PICK U \in Without : \A V \in Without : ~ (<<V, U>> \in StrictSubsetOrdering(G))
  <2> HIDE DEF Without
  <2> QED
    BY <1>1, <1>2, <1>3, WFMin
<1>5. PICK x \in U : TRUE
  OBVIOUS
<1>6. U \ {x} \notin Without
  BY <1>4, <1>5 DEF StrictSubsetOrdering
<1>7. CASE U = {x}
  BY <1>7
<1>8. CASE U # {x}
  <2>1. PICK z \in U \ {x} : \A y \in U \ {x} : f[y] <= f[z]
    BY <1>5, <1>6, <1>8
  <2>2. \A y \in U : f[y] \in Nat
    OBVIOUS
  <2>3. CASE f[x] <= f[z]
    BY <2>1, <2>2, <2>3
  <2>4. CASE ~ (f[x] <= f[z])
    <3>1. \A y \in U : f[y] <= f[x]
      BY <1>5, <2>1, <2>2, <2>4
    <3> QED
      BY <1>5, <3>1
  <2> QED
    BY <2>3, <2>4
<1> QED
  BY <1>7, <1>8

LEMMA GreatestIs ==
    ASSUME NEW S \in SUBSET Nat, NEW x \in S, \A y \in S : y <= x
    PROVE  Greatest(S) \in S /\ \A y \in S : y <= Greatest(S)
  BY DEF Greatest

LEMMA GreatestOfTwo ==
    ASSUME NEW x \in Nat, NEW y \in Nat
    PROVE  /\ Greatest({x, y}) \in {x, y}
           /\ Greatest({x, y}) >= x /\ Greatest({x, y}) >= y
<1>1. {x, y} \in SUBSET Nat
  OBVIOUS
<1>2. PICK z \in {x, y} : \A u \in {x, y} : u <= z
  <2>1. CASE x >= y
    BY <2>1
  <2>2. CASE ~ (x >= y)
    BY <2>2
  <2> QED
    BY <2>1, <2>2
<1> QED
  BY <1>1, <1>2, GreatestIs

(* The greatest of a column of rows. *)
LEMMA GreatestOver ==
    ASSUME NEW G, IsFiniteSet(G), G # {}, NEW f \in [G -> Nat]
    PROVE  LET S == {f[id] : id \in G}
           IN  /\ Greatest(S) \in S /\ Greatest(S) \in Nat
               /\ \A id \in G : f[id] <= Greatest(S)
<1> DEFINE S == {f[id] : id \in G}
<1>1. PICK x \in G : \A y \in G : f[y] <= f[x]
  BY FiniteHasGreatest
<1>2. S \in SUBSET Nat /\ f[x] \in S /\ \A y \in S : y <= f[x]
  BY <1>1
<1>3. Greatest(S) \in S /\ \A y \in S : y <= Greatest(S)
  <2> HIDE DEF S
  <2> QED
    BY <1>2, GreatestIs
<1> QED
  BY <1>2, <1>3

(***************************************************************************)
(* Grouped: what the groups of a batch say of its rows.                    *)
(***************************************************************************)
LEMMA MatchesAre ==
    ASSUME IInv, NEW e \in announced
    PROVE  /\ Matches(e) \subseteq DOMAIN rows
           /\ Matches(e) \subseteq Ids /\ IsFiniteSet(Matches(e))
           /\ \A id \in Matches(e) : /\ rows[id].severity \in Severities
                                     /\ rows[id].severity \in Nat
                                     /\ SourceOf[id] = "aemet" => rows[id].ends_at \in Nat
<1>1. Matches(e) \subseteq DOMAIN rows
  BY DEF Matches
<1>2. DOMAIN rows \subseteq Ids /\ \A id \in DOMAIN rows : rows[id] \in Row
  BY DEF IInv, TypeOK, IsMap
<1>3. IsFiniteSet(Matches(e))
  BY <1>1, <1>2, EpisodesAssumption, FS_Subset
<1>4. \A id \in DOMAIN rows : /\ rows[id].severity \in Severities
                              /\ rows[id].ends_at \in Nat \cup {NULL}
  BY <1>2 DEF Row
<1> QED
  BY <1>1, <1>2, <1>3, <1>4, ConstantFacts DEF IInv, WarningsEnd

LEMMA GroupFacts ==
    ASSUME IInv, NEW e \in announced
    PROVE  LET g == Grouped(Matches(e))
           IN  /\ IsMap(g, Keys, Group)
               /\ \A k \in DOMAIN g : g[k].expires_at # NULL <=> Expiring(k)
               /\ \A id \in Matches(e) :
                      /\ Key[id] \in DOMAIN g
                      /\ g[Key[id]].severity >= rows[id].severity
                      /\ SourceOf[id] = "aemet" => g[Key[id]].expires_at >= rows[id].ends_at
<1> DEFINE M == Matches(e)
           g == Grouped(M)
<1>1. /\ M \subseteq DOMAIN rows /\ M \subseteq Ids /\ IsFiniteSet(M)
      /\ \A id \in M : /\ rows[id].severity \in Severities /\ rows[id].severity \in Nat
                       /\ SourceOf[id] = "aemet" => rows[id].ends_at \in Nat
  BY MatchesAre
<1>2. g = [k \in DOMAIN g |-> g[k]] /\ DOMAIN g = {Key[id] : id \in M}
  BY DEF Grouped
<1> HIDE DEF M
<1>3. ASSUME NEW k \in DOMAIN g
      PROVE  /\ g[k] \in Group
             /\ g[k].expires_at # NULL <=> Expiring(k)
             /\ \A id \in M : Key[id] = k =>
                    /\ g[k].severity >= rows[id].severity
                    /\ SourceOf[id] = "aemet" => g[k].expires_at >= rows[id].ends_at
  <2> DEFINE G == {id \in M : Key[id] = k}
             sev == [id \in G |-> rows[id].severity]
             end == [id \in G |-> rows[id].ends_at]
  <2>1. G # {} /\ IsFiniteSet(G) /\ G \subseteq Ids
    BY <1>1, <1>2, FS_Subset
  <2>2. g[k] = [severity |-> Greatest({rows[id].severity : id \in G}),
                expires_at |-> IF \A id \in G : SourceOf[id] = "aemet"
                               THEN Greatest({rows[id].ends_at : id \in G}) ELSE NULL]
    BY <1>2 DEF Grouped
  <2>3. (\A id \in G : SourceOf[id] = "aemet") <=> Expiring(k)
    BY <2>1, ConstantFacts
  <2>4. /\ Greatest({rows[id].severity : id \in G}) \in Severities
        /\ \A m \in G : rows[m].severity <= Greatest({rows[id].severity : id \in G})
        /\ Greatest({rows[id].severity : id \in G}) \in Nat
    <3>1. sev \in [G -> Nat] /\ {sev[id] : id \in G} = {rows[id].severity : id \in G}
      BY <1>1
    <3>2. /\ Greatest({sev[id] : id \in G}) \in {sev[id] : id \in G}
          /\ Greatest({sev[id] : id \in G}) \in Nat
          /\ \A m \in G : sev[m] <= Greatest({sev[id] : id \in G})
      <4> HIDE DEF sev, G
      <4> QED
        BY <2>1, <3>1, GreatestOver
    <3>3. {rows[id].severity : id \in G} \subseteq Severities
      BY <1>1
    <3> QED
      BY <3>1, <3>2, <3>3
  <2>5. ASSUME Expiring(k)
        PROVE  /\ Greatest({rows[id].ends_at : id \in G}) \in Nat
               /\ \A m \in G : rows[m].ends_at <= Greatest({rows[id].ends_at : id \in G})
    <3>1. end \in [G -> Nat] /\ {end[id] : id \in G} = {rows[id].ends_at : id \in G}
      BY <1>1, <2>3, <2>5
    <3>2. /\ Greatest({end[id] : id \in G}) \in Nat
          /\ \A m \in G : end[m] <= Greatest({end[id] : id \in G})
      <4> HIDE DEF end, G
      <4> QED
        BY <2>1, <3>1, GreatestOver
    <3> QED
      BY <3>1, <3>2
  <2> DEFINE ms == Greatest({rows[id].severity : id \in G})
             me == Greatest({rows[id].ends_at : id \in G})
  <2>6. /\ g[k].severity = ms
        /\ g[k].expires_at = IF Expiring(k) THEN me ELSE NULL
        /\ g[k] = [severity |-> g[k].severity, expires_at |-> g[k].expires_at]
    BY <2>2, <2>3
  <2>7. /\ ms \in Severities /\ ms \in Nat /\ \A id \in G : rows[id].severity <= ms
        /\ Expiring(k) => me \in Nat /\ \A id \in G : rows[id].ends_at <= me
    BY <2>4, <2>5
  <2> HIDE DEF ms, me, g
  <2>8. g[k] \in Group
    BY <2>6, <2>7 DEF Group
  <2>9. g[k].expires_at # NULL <=> Expiring(k)
    BY <2>6, <2>7, ConstantFacts
  <2>10. ASSUME NEW id \in M, Key[id] = k
         PROVE  /\ g[k].severity >= rows[id].severity
                /\ SourceOf[id] = "aemet" => g[k].expires_at >= rows[id].ends_at
    <3>1. id \in G /\ (SourceOf[id] = "aemet" <=> Expiring(k))
      BY <1>1, <2>10, ConstantFacts
    <3> QED
      BY <1>1, <2>6, <2>7, <3>1
  <2> QED
    BY <2>8, <2>9, <2>10
<1>4. DOMAIN g \subseteq Keys
  BY <1>1, <1>2, ConstantFacts
<1>5. \A id \in M : Key[id] \in DOMAIN g
  BY <1>2
<1> HIDE DEF g
<1>6. IsMap(g, Keys, Group)
  BY <1>2, <1>3, <1>4 DEF IsMap
<1> QED
  BY <1>3, <1>5, <1>6 DEF g, M

(***************************************************************************)
(* refresh: severity and expiry of an episode only grow.                   *)
(***************************************************************************)
LEMMA RefreshedFacts ==
    ASSUME NEW ep \in Episode, NEW severity \in Severities, NEW expires_at \in Nat \cup {NULL},
           ep.expires_at # NULL <=> expires_at # NULL
    PROVE  LET r == Refreshed(ep, severity, expires_at)
           IN  /\ r \in Episode
               /\ r.delivered = ep.delivered /\ r.closed = ep.closed
               /\ r.notified_severity \in {ep.notified_severity, severity}
               /\ r.notified_severity >= ep.notified_severity /\ r.notified_severity >= severity
               /\ r.expires_at # NULL <=> ep.expires_at # NULL
               /\ ep.expires_at # NULL =>
                      r.expires_at >= ep.expires_at /\ r.expires_at >= expires_at
<1> DEFINE r == Refreshed(ep, severity, expires_at)
           top == Greatest({ep.notified_severity, severity})
           end == Later(ep.expires_at, expires_at)
<1>1. /\ ep.notified_severity \in Severities /\ ep.notified_severity \in Nat
      /\ severity \in Nat /\ ep.expires_at \in Nat \cup {NULL} /\ NULL \notin Int
  BY ConstantFacts DEF Episode
<1>2. top \in {ep.notified_severity, severity}
      /\ top >= ep.notified_severity /\ top >= severity
  BY <1>1, GreatestOfTwo
<1>3. /\ end \in Nat \cup {NULL}
      /\ end # NULL <=> ep.expires_at # NULL
      /\ ep.expires_at # NULL => end >= ep.expires_at /\ end >= expires_at
  BY <1>1 DEF Later
<1>4. r = [ep EXCEPT !.notified_severity = top, !.expires_at = end]
  BY DEF Refreshed
<1> HIDE DEF top, end
<1>5. /\ r \in Episode /\ r.notified_severity = top /\ r.expires_at = end
      /\ r.delivered = ep.delivered /\ r.closed = ep.closed
  BY <1>1, <1>2, <1>3, <1>4 DEF Episode
<1> QED
  BY <1>2, <1>3, <1>5 DEF r

(***************************************************************************)
(* What a dispatch makes of the episodes of a key it has matched: those    *)
(* before the last are as they were; the last is refreshed, or closed and  *)
(* followed by a new one; and the last of all covers the group.            *)
(***************************************************************************)
KeptBy(eps, k) ==
    /\ Len(eps) >= Len(episodes[k])
    /\ \A i \in 1 .. Len(episodes[k]) :
          /\ episodes[k][i].delivered \subseteq eps[i].delivered
          /\ \A s \in eps[i].delivered \ episodes[k][i].delivered :
                 \A t \in episodes[k][i].delivered : s > t
          /\ Expiring(k) => eps[i].expires_at >= episodes[k][i].expires_at

OpensAfter(eps, k) ==
    Len(eps) > Len(episodes[k]) /\ episodes[k] # <<>> =>
        /\ Last(k).expires_at # NULL
        /\ \E e \in announced : Last(k).expires_at + Grace <= e.batch_at

CoveredBy(eps, g) ==
    \E i \in 1 .. Len(eps) :
        /\ \E s \in eps[i].delivered : s >= g.severity
        /\ g.expires_at # NULL => eps[i].expires_at >= g.expires_at

LEMMA LastIs ==
    ASSUME IInv, NEW k \in Keys, episodes[k] # <<>>
    PROVE  /\ Len(episodes[k]) \in 1 .. Len(episodes[k])
           /\ Last(k) \in Episode /\ Sound(k, Last(k))
<1>1. episodes[k] \in Seq(Episode)
  BY DEF IInv, TypeOK
<1>2. Len(episodes[k]) \in Nat /\ Len(episodes[k]) # 0
  BY <1>1
<1>3. Len(episodes[k]) \in 1 .. Len(episodes[k])
  BY <1>2
<1> QED
  BY <1>1, <1>3, ElementOfSeq DEF IInv, EpisodesSound, Last

(* What a process that has locked relies on, for each of its keys. *)
LEMMA LockedFacts ==
    ASSUME IInv, NEW p \in Processes, pc[p] = "locked", NEW k \in DOMAIN groups[p]
    PROVE  /\ k \in Keys /\ event[p] \in announced /\ event[p].batch_at \in Nat
           /\ groups[p][k] \in Group
           /\ groups[p][k].expires_at # NULL <=> Expiring(k)
           /\ k \in DOMAIN open[p] =>
                  episodes[k] # <<>> /\ open[p][k] = Last(k) /\ ~ Last(k).closed
           /\ ~ OpenedConcurrently(p) /\ k \notin DOMAIN open[p] /\ episodes[k] # <<>> =>
                  Last(k).closed
<1>1. /\ k \in Keys /\ groups[p][k] \in Group
      /\ event[p] \in announced /\ event[p].batch_at \in Nat
      /\ groups[p][k].expires_at # NULL <=> Expiring(k)
  BY DEF IInv, TypeOK, IsMap, DispatchKnown, Event, Instants
<1>2. k \in DOMAIN open[p] =>
          episodes[k] # <<>> /\ open[p][k] = Last(k) /\ ~ Last(k).closed
  BY DEF IInv, LockedIsLast
<1>3. ASSUME ~ OpenedConcurrently(p), k \notin DOMAIN open[p], episodes[k] # <<>>
      PROVE  Last(k).closed
  <2>1. k \notin DOMAIN OpenEpisodes(DOMAIN groups[p])
    BY <1>3 DEF OpenedConcurrently
  <2> QED
    BY <1>3, <2>1 DEF OpenEpisodes, Last
<1> QED
  BY <1>1, <1>2, <1>3

LEMMA UpdatedFacts ==
    ASSUME IInv, NEW k \in Keys, episodes[k] # <<>>, NEW ep \in Episode, Sound(k, ep),
           Last(k).delivered \subseteq ep.delivered,
           \A s \in ep.delivered \ Last(k).delivered : \A t \in Last(k).delivered : s > t,
           Expiring(k) => ep.expires_at >= Last(k).expires_at,
           NEW eps, eps = [episodes[k] EXCEPT ![Len(episodes[k])] = ep]
    PROVE  /\ eps \in Seq(Episode) /\ Len(eps) = Len(episodes[k])
           /\ eps[Len(eps)] = ep
           /\ \A i \in 1 .. Len(eps) : /\ Sound(k, eps[i])
                                       /\ i < Len(eps) => eps[i].closed
           /\ KeptBy(eps, k)
<1>1. episodes[k] \in Seq(Episode) /\ Len(episodes[k]) \in 1 .. Len(episodes[k])
  BY LastIs DEF IInv, TypeOK
<1>2. /\ eps \in Seq(Episode) /\ Len(eps) = Len(episodes[k])
      /\ \A i \in 1 .. Len(eps) : eps[i] = IF i = Len(episodes[k]) THEN ep ELSE episodes[k][i]
  BY <1>1
<1>3. \A i \in 1 .. Len(eps) : Sound(k, eps[i]) /\ (i < Len(eps) => eps[i].closed)
  BY <1>1, <1>2 DEF IInv, EpisodesSound, OnlyLastOpen
<1>4. \A i \in 1 .. Len(eps) : Expiring(k) => episodes[k][i].expires_at \in Nat
  <2>1. TAKE i \in 1 .. Len(eps)
  <2>2. episodes[k][i] \in Episode /\ Sound(k, episodes[k][i])
    BY <1>1, <1>2, ElementOfSeq DEF IInv, EpisodesSound
  <2> QED
    BY <2>2 DEF Sound, Episode
<1>5. KeptBy(eps, k)
  <2>1. Len(eps) >= Len(episodes[k])
    BY <1>1, <1>2
  <2>2. ASSUME NEW i \in 1 .. Len(episodes[k])
        PROVE  /\ episodes[k][i].delivered \subseteq eps[i].delivered
               /\ \A s \in eps[i].delivered \ episodes[k][i].delivered :
                      \A t \in episodes[k][i].delivered : s > t
               /\ Expiring(k) => eps[i].expires_at >= episodes[k][i].expires_at
    <3>1. CASE i = Len(episodes[k])
      BY <1>2, <3>1 DEF Last
    <3>2. CASE i # Len(episodes[k])
      BY <1>2, <1>4, <3>2
    <3> QED
      BY <3>1, <3>2
  <2> QED
    BY <2>1, <2>2 DEF KeptBy
<1> QED
  BY <1>1, <1>2, <1>3, <1>5

LEMMA OpenedFacts ==
    ASSUME NEW k \in Keys, NEW g \in Group, g.expires_at # NULL <=> Expiring(k)
    PROVE  /\ Opened(g) \in Episode /\ Sound(k, Opened(g))
           /\ Opened(g).delivered = {g.severity} /\ Opened(g).expires_at = g.expires_at
           /\ ~ Opened(g).closed
<1>1. g.severity \in Severities /\ g.severity \in Nat /\ g.expires_at \in Nat \cup {NULL}
  BY ConstantFacts DEF Group
<1>2. Opened(g) \in Episode
  BY <1>1 DEF Opened, Episode
<1> QED
  BY <1>1, <1>2 DEF Opened, Sound

LEMMA AppendedFacts ==
    ASSUME IInv, NEW k \in Keys, NEW g \in Group, g.expires_at # NULL <=> Expiring(k),
           NEW old \in Seq(Episode), KeptBy(old, k),
           \A i \in 1 .. Len(old) : Sound(k, old[i]) /\ old[i].closed,
           NEW eps, eps = Append(old, Opened(g))
    PROVE  /\ eps \in Seq(Episode) /\ Len(eps) = Len(old) + 1
           /\ eps[Len(eps)] = Opened(g)
           /\ \A i \in 1 .. Len(eps) : /\ Sound(k, eps[i])
                                       /\ i < Len(eps) => eps[i].closed
           /\ KeptBy(eps, k) /\ CoveredBy(eps, g)
<1> DEFINE new == Opened(g)
<1>1. /\ new \in Episode /\ Sound(k, new) /\ new.delivered = {g.severity}
      /\ new.expires_at = g.expires_at
      /\ g.severity \in Nat /\ g.expires_at \in Nat \cup {NULL}
  BY OpenedFacts, ConstantFacts DEF Group
<1> HIDE DEF new
<1>2. /\ eps \in Seq(Episode) /\ Len(eps) = Len(old) + 1 /\ Len(old) \in Nat
      /\ eps[Len(eps)] = new
      /\ \A i \in 1 .. Len(old) : eps[i] = old[i]
  BY <1>1 DEF new
<1>3. \A i \in 1 .. Len(eps) : Sound(k, eps[i]) /\ (i < Len(eps) => eps[i].closed)
  <2>1. TAKE i \in 1 .. Len(eps)
  <2>2. i \in 1 .. Len(old) \/ i = Len(eps)
    BY <1>2
  <2> QED
    BY <1>1, <1>2, <2>2
<1>4. KeptBy(eps, k)
  <2>1. Len(episodes[k]) \in Nat /\ Len(old) >= Len(episodes[k])
    BY DEF KeptBy, IInv, TypeOK
  <2>2. \A i \in 1 .. Len(episodes[k]) : eps[i] = old[i]
    BY <1>2, <2>1
  <2> QED
    BY <1>2, <2>1, <2>2 DEF KeptBy
<1>5. CoveredBy(eps, g)
  <2>1. Len(eps) \in 1 .. Len(eps) /\ \E s \in new.delivered : s >= g.severity
    BY <1>1, <1>2
  <2>2. g.expires_at # NULL => new.expires_at >= g.expires_at
    BY <1>1
  <2> QED
    BY <1>2, <2>1, <2>2 DEF CoveredBy
<1> QED
  BY <1>2, <1>3, <1>4, <1>5 DEF new

LEMMA SameIsKept ==
    ASSUME IInv, NEW k \in Keys
    PROVE  KeptBy(episodes[k], k)
<1>1. episodes[k] \in Seq(Episode) /\ Len(episodes[k]) \in Nat
  BY DEF IInv, TypeOK
<1>2. \A i \in 1 .. Len(episodes[k]) : Expiring(k) => episodes[k][i].expires_at \in Nat
  <2>1. TAKE i \in 1 .. Len(episodes[k])
  <2>2. episodes[k][i] \in Episode /\ Sound(k, episodes[k][i])
    BY <1>1, ElementOfSeq DEF IInv, EpisodesSound
  <2> QED
    BY <2>2 DEF Sound, Episode
<1> QED
  BY <1>1, <1>2 DEF KeptBy

LEMMA AfterFacts ==
    ASSUME IInv, NEW p \in Processes, pc[p] = "locked", ~ OpenedConcurrently(p),
           NEW k \in DOMAIN groups[p]
    PROVE  /\ After(p, k) \in Seq(Episode)
           /\ \A i \in 1 .. Len(After(p, k)) :
                  /\ Sound(k, After(p, k)[i])
                  /\ i < Len(After(p, k)) => After(p, k)[i].closed
           /\ KeptBy(After(p, k), k) /\ CoveredBy(After(p, k), groups[p][k])
           /\ OpensAfter(After(p, k), k)
<1> DEFINE g == groups[p][k]
           eps == After(p, k)
<1>1. /\ k \in Keys /\ event[p] \in announced /\ event[p].batch_at \in Nat
      /\ g \in Group /\ g.severity \in Severities /\ g.severity \in Nat
      /\ g.expires_at \in Nat \cup {NULL}
      /\ g.expires_at # NULL <=> Expiring(k)
      /\ k \in DOMAIN open[p] => episodes[k] # <<>> /\ open[p][k] = Last(k) /\ ~ Last(k).closed
      /\ k \notin DOMAIN open[p] /\ episodes[k] # <<>> => Last(k).closed
      /\ episodes[k] \in Seq(Episode) /\ Len(episodes[k]) \in Nat
      /\ NULL \notin Int /\ Grace \in Nat
  <2>1. /\ k \in Keys /\ event[p] \in announced /\ event[p].batch_at \in Nat
        /\ g \in Group
        /\ g.expires_at # NULL <=> Expiring(k)
        /\ k \in DOMAIN open[p] => episodes[k] # <<>> /\ open[p][k] = Last(k) /\ ~ Last(k).closed
        /\ k \notin DOMAIN open[p] /\ episodes[k] # <<>> => Last(k).closed
    BY LockedFacts
  <2> HIDE DEF g
  <2>2. g.severity \in Severities /\ g.expires_at \in Nat \cup {NULL}
    BY <2>1 DEF Group
  <2>3. episodes[k] \in Seq(Episode) /\ Len(episodes[k]) \in Nat
    BY <2>1 DEF IInv, TypeOK
  <2> QED
    BY <2>1, <2>2, <2>3, ConstantFacts
<1> HIDE DEF g
<1>2. CASE Current(p, k)
  <2>1. /\ episodes[k] # <<>> /\ Last(k) \in Episode /\ Sound(k, Last(k)) /\ ~ Last(k).closed
        /\ open[p][k] = Last(k) /\ Len(episodes[k]) \in 1 .. Len(episodes[k])
        /\ Last(k).notified_severity \in Severities /\ Last(k).notified_severity \in Nat
        /\ Last(k).delivered \subseteq Severities
        /\ Last(k).expires_at \in Nat \cup {NULL}
        /\ Last(k).expires_at # NULL <=> Expiring(k)
    BY <1>1, <1>2, LastIs, ConstantFacts DEF Current, Episode, Sound
  <2> DEFINE ep == IF Escalates(p, k) THEN Escalated(p, k) ELSE Touched(p, k)
  <2>2. /\ ep \in Episode /\ Sound(k, ep)
        /\ Last(k).delivered \subseteq ep.delivered
        /\ \A s \in ep.delivered \ Last(k).delivered : \A t \in Last(k).delivered : s > t
        /\ Expiring(k) => /\ ep.expires_at >= Last(k).expires_at
                          /\ ep.expires_at >= g.expires_at
        /\ \E s \in ep.delivered : s >= g.severity
    <3>1. CASE Escalates(p, k)
      <4> DEFINE r == Refreshed(Last(k), g.severity, g.expires_at)
      <4>1. /\ r \in Episode /\ r.delivered = Last(k).delivered /\ r.closed = Last(k).closed
            /\ r.notified_severity \in {Last(k).notified_severity, g.severity}
            /\ r.notified_severity >= g.severity
            /\ r.expires_at # NULL <=> Expiring(k)
            /\ Expiring(k) => r.expires_at >= Last(k).expires_at /\ r.expires_at >= g.expires_at
        BY <1>1, <2>1, RefreshedFacts
      <4>2. ep = [r EXCEPT !.delivered = @ \cup {g.severity}]
        BY <3>1 DEF Escalated, Last, g
      <4> HIDE DEF r, ep
      <4>3. g.severity > Last(k).notified_severity
        BY <2>1, <3>1 DEF Escalates, g
      <4>4. r.notified_severity = g.severity
        BY <1>1, <2>1, <4>1, <4>3
      <4>5. \A t \in Last(k).delivered : t \in Nat /\ g.severity > t /\ t <= g.severity
        BY <1>1, <2>1, <4>3, ConstantFacts DEF Sound
      <4>6. /\ ep \in Episode /\ ep.delivered = Last(k).delivered \cup {g.severity}
            /\ ep.notified_severity = g.severity /\ ep.closed = FALSE
            /\ ep.expires_at = r.expires_at
        BY <1>1, <2>1, <4>1, <4>2, <4>4 DEF Episode
      <4>7. Sound(k, ep)
        <5>1. /\ ep.notified_severity \in ep.delivered
              /\ \A s \in ep.delivered : s <= ep.notified_severity
          BY <1>1, <4>5, <4>6
        <5> QED
          BY <4>1, <4>6, <5>1 DEF Sound
      <4>8. \E s \in ep.delivered : s >= g.severity
        <5>1. g.severity \in ep.delivered /\ g.severity >= g.severity
          BY <1>1, <4>6
        <5> QED
          BY <5>1
      <4> QED
        BY <4>1, <4>5, <4>6, <4>7, <4>8
    <3>2. CASE ~ Escalates(p, k)
      <4> DEFINE r == Refreshed(Last(k), Last(k).notified_severity, g.expires_at)
      <4>1. /\ r \in Episode /\ r.delivered = Last(k).delivered /\ r.closed = Last(k).closed
            /\ r.notified_severity = Last(k).notified_severity
            /\ r.expires_at # NULL <=> Expiring(k)
            /\ Expiring(k) => r.expires_at >= Last(k).expires_at /\ r.expires_at >= g.expires_at
        BY <1>1, <2>1, RefreshedFacts
      <4>2. ep = r
        BY <2>1, <3>2 DEF Touched, Last, g
      <4> HIDE DEF r, ep
      <4>3. Last(k).notified_severity >= g.severity
        BY <1>1, <2>1, <3>2 DEF Escalates, g
      <4>4. Sound(k, ep)
        BY <2>1, <4>1, <4>2 DEF Sound
      <4> QED
        BY <2>1, <4>1, <4>2, <4>3, <4>4 DEF Sound
    <3> QED
      BY <3>1, <3>2
  <2>3. eps = [episodes[k] EXCEPT ![Len(episodes[k])] = ep]
    BY <1>2 DEF After
  <2> HIDE DEF ep, eps
  <2>4. /\ eps \in Seq(Episode) /\ Len(eps) = Len(episodes[k]) /\ eps[Len(eps)] = ep
        /\ \A i \in 1 .. Len(eps) : Sound(k, eps[i]) /\ (i < Len(eps) => eps[i].closed)
        /\ KeptBy(eps, k)
    BY <1>1, <2>1, <2>2, <2>3, UpdatedFacts
  <2>5. CoveredBy(eps, g)
    BY <1>1, <2>1, <2>2, <2>4 DEF CoveredBy
  <2>6. OpensAfter(eps, k)
    BY <1>1, <2>4 DEF OpensAfter
  <2> QED
    BY <2>4, <2>5, <2>6 DEF eps, g
<1>3. CASE ~ Current(p, k)
  <2> DEFINE old == IF k \in DOMAIN open[p] THEN Closed(episodes[k]) ELSE episodes[k]
  <2>1. eps = Append(old, Opened(g))
    BY <1>3 DEF After, g
  <2>2. ASSUME k \in DOMAIN open[p]
        PROVE  /\ Last(k) \in Episode /\ Sound(k, Last(k))
               /\ Len(episodes[k]) \in 1 .. Len(episodes[k])
               /\ Last(k).expires_at \in Nat
               /\ Last(k).expires_at + Grace <= event[p].batch_at
    <3>1. /\ Last(k) \in Episode /\ Sound(k, Last(k))
          /\ Len(episodes[k]) \in 1 .. Len(episodes[k])
          /\ Last(k).expires_at \in Nat \cup {NULL}
      BY <1>1, <2>2, LastIs DEF Episode
    <3>2. Last(k).expires_at # NULL /\ ~ (Last(k).expires_at + Grace > event[p].batch_at)
      BY <1>1, <1>3, <2>2 DEF Current, IsCurrent
    <3> QED
      BY <1>1, <3>1, <3>2
  <2>3. /\ old \in Seq(Episode) /\ Len(old) = Len(episodes[k]) /\ KeptBy(old, k)
        /\ \A i \in 1 .. Len(old) : Sound(k, old[i]) /\ old[i].closed
    <3>1. CASE k \in DOMAIN open[p]
      <4> DEFINE ep == [Last(k) EXCEPT !.closed = TRUE]
      <4>1. /\ ep \in Episode /\ ep.closed /\ ep.delivered = Last(k).delivered
            /\ ep.expires_at = Last(k).expires_at
            /\ ep.notified_severity = Last(k).notified_severity
        BY <2>2, <3>1 DEF Episode
      <4>2. old = [episodes[k] EXCEPT ![Len(episodes[k])] = ep]
        BY <3>1 DEF Closed, Last
      <4> HIDE DEF ep, old
      <4>3. Sound(k, ep)
        BY <1>1, <2>2, <3>1, <4>1 DEF Sound
      <4>4. /\ old \in Seq(Episode) /\ Len(old) = Len(episodes[k]) /\ old[Len(old)] = ep
            /\ \A i \in 1 .. Len(old) : Sound(k, old[i]) /\ (i < Len(old) => old[i].closed)
            /\ KeptBy(old, k)
        BY <1>1, <2>2, <3>1, <4>1, <4>2, <4>3, UpdatedFacts
      <4> QED
        BY <1>1, <4>1, <4>4
    <3>2. CASE k \notin DOMAIN open[p]
      <4>1. old = episodes[k] /\ KeptBy(old, k)
        BY <1>1, <3>2, SameIsKept
      <4>2. \A i \in 1 .. Len(old) : Sound(k, old[i]) /\ (i < Len(old) => old[i].closed)
        BY <1>1, <4>1 DEF IInv, EpisodesSound, OnlyLastOpen
      <4>3. old # <<>> => old[Len(old)].closed
        BY <1>1, <3>2, <4>1 DEF Last
      <4> QED
        BY <1>1, <4>1, <4>2, <4>3
    <3> QED
      BY <3>1, <3>2
  <2> HIDE DEF old, eps
  <2>4. /\ eps \in Seq(Episode) /\ Len(eps) = Len(old) + 1
        /\ \A i \in 1 .. Len(eps) : Sound(k, eps[i]) /\ (i < Len(eps) => eps[i].closed)
        /\ KeptBy(eps, k) /\ CoveredBy(eps, g)
    <3>1. k \in Keys /\ g \in Group /\ (g.expires_at # NULL <=> Expiring(k))
      BY <1>1
    <3>2. /\ old \in Seq(Episode) /\ KeptBy(old, k)
          /\ \A i \in 1 .. Len(old) : Sound(k, old[i]) /\ old[i].closed
      BY <2>3
    <3> QED
      BY <2>1, <3>1, <3>2, AppendedFacts, Zenon
  <2>5. OpensAfter(eps, k)
    <3>1. CASE k \in DOMAIN open[p]
      BY <1>1, <2>2, <3>1 DEF OpensAfter
    <3>2. CASE k \notin DOMAIN open[p]
      <4>1. episodes[k] # <<>> => Last(k).closed /\ Sound(k, Last(k))
        BY <1>1, <3>2, LastIs
      <4> QED
        BY <4>1 DEF OpensAfter, Sound
    <3> QED
      BY <3>1, <3>2
  <2> QED
    BY <2>4, <2>5 DEF eps, g
<1> QED
  BY <1>2, <1>3

(***************************************************************************)
(* The steps.                                                              *)
(***************************************************************************)
LEMMA Initially == ASSUME Init PROVE IInv
<1>1. Nothing = [k \in {} |-> NULL] /\ DOMAIN Nothing = {}
  BY DEF Nothing
<1>2. \A S, T : IsMap(Nothing, S, T)
  BY <1>1 DEF IsMap
<1>3. 0 \in Instants
  BY ConstantFacts DEF Instants
<1>4. \A k \in Keys : episodes[k] = <<>> /\ Len(episodes[k]) = 0
  BY DEF Init
<1>5. episodes \in [Keys -> Seq(Episode)]
  BY DEF Init
<1>6. TypeOK
  BY <1>1, <1>2, <1>3, <1>4, <1>5, ConstantFacts DEF Init, TypeOK
<1>7. WarningsEnd /\ WhatMattersIsNotified
  BY <1>1 DEF Init, WarningsEnd, WhatMattersIsNotified
<1>8. EpisodesSound /\ OnlyLastOpen
  BY <1>4 DEF EpisodesSound, OnlyLastOpen
<1>9. DispatchKnown /\ LockedIsLast
  BY <1>1 DEF Init, DispatchKnown, LockedIsLast
<1> QED
  BY <1>6, <1>7, <1>8, <1>9 DEF IInv, Init

(* A batch leaves the rows another batch was the last to write. *)
LEMMA OldRows ==
    ASSUME IInv, NEW b \in Batches, Ingest(b), NEW e \in announced,
           NEW id \in DOMAIN rows', WrittenBy(id, e)'
    PROVE  id \in DOMAIN rows /\ rows'[id] = rows[id]
<1>1. /\ DOMAIN rows' = DOMAIN rows \cup DOMAIN b
      /\ rows'[id] = IF id \in DOMAIN b THEN Written(b, id) ELSE rows[id]
  BY DEF Ingest
<1>2. now \in Nat /\ now # NULL /\ e.batch_at # now
  BY ConstantFacts DEF IInv, TypeOK, Instants, Ingest
<1>3. CASE id \in DOMAIN b /\ id \in DOMAIN rows
  <2>1. rows'[id].updated_at = now
    BY <1>1, <1>3 DEF Written
  <2> QED
    BY <1>2, <2>1 DEF WrittenBy
<1>4. CASE id \in DOMAIN b /\ id \notin DOMAIN rows
  <2>1. rows'[id].updated_at = NULL /\ rows'[id].created_at = now
    BY <1>1, <1>4 DEF Written
  <2> QED
    BY <1>2, <2>1 DEF WrittenBy
<1> QED
  BY <1>1, <1>3, <1>4

LEMMA IngestKeeps == ASSUME IInv, NEW b \in Batches, Ingest(b) PROVE IInv'
<1>1. /\ rows' = [id \in DOMAIN rows \cup DOMAIN b |->
                      IF id \in DOMAIN b THEN Written(b, id) ELSE rows[id]]
      /\ announced' = announced \cup {[source |-> SourceOf[id], batch_at |-> now] : id \in DOMAIN b}
      /\ UNCHANGED <<now, processed, episodes, pc, event, groups, read_at, open>>
  BY DEF Ingest, dispatchVars
<1>2. /\ now \in Nat /\ now \in Instants
      /\ DOMAIN rows \subseteq Ids
      /\ \A id \in DOMAIN rows : rows[id] \in Row
      /\ announced \subseteq Event /\ processed \subseteq announced
  BY DEF IInv, TypeOK, IsMap, Instants
<1>3. /\ DOMAIN b \subseteq Ids
      /\ \A id \in DOMAIN b : /\ b[id].severity \in Severities
                              /\ b[id].ends_at \in Nat \cup {NULL, CLOSED}
                              /\ SourceOf[id] = "aemet" => b[id].ends_at # NULL
  BY EpisodesAssumption
<1>4. ASSUME NEW id \in DOMAIN rows'
      PROVE  /\ rows'[id] \in Row
             /\ SourceOf[id] = "aemet" => rows'[id].ends_at # NULL
  <2>1. CASE id \in DOMAIN b
    <3>1. rows'[id] = Written(b, id)
      BY <1>1, <2>1
    <3>2. /\ id \in DOMAIN rows => /\ rows[id].starts_at \in Instants
                                   /\ rows[id].created_at \in Instants
          /\ (IF b[id].ends_at = CLOSED THEN now ELSE b[id].ends_at) \in Nat \cup {NULL}
          /\ SourceOf[id] = "aemet" =>
                 (IF b[id].ends_at = CLOSED THEN now ELSE b[id].ends_at) # NULL
      BY <1>2, <1>3, <2>1, ConstantFacts DEF Row
    <3> QED
      BY <1>2, <1>3, <2>1, <3>1, <3>2 DEF Written, Row
  <2>2. CASE id \notin DOMAIN b
    BY <1>1, <1>2, <2>2 DEF IInv, WarningsEnd
  <2> QED
    BY <2>1, <2>2
<1>5. IsMap(rows', Ids, Row)
  BY <1>1, <1>2, <1>3, <1>4 DEF IsMap
<1>6. announced' \subseteq Event /\ announced \subseteq announced'
  BY <1>1, <1>2, <1>3, ConstantFacts DEF Event
<1>7. TypeOK' /\ DOMAIN groups' = Processes /\ DOMAIN open' = Processes
  BY <1>1, <1>5, <1>6 DEF IInv, TypeOK
<1>8. WarningsEnd'
  BY <1>4 DEF WarningsEnd
<1>9. EpisodesSound'
  <2> SUFFICES ASSUME NEW k \in Keys, NEW i \in 1 .. Len(episodes[k])
               PROVE  Sound(k, episodes[k][i])'
    BY <1>1 DEF EpisodesSound
  <2>1. Sound(k, episodes[k][i])
    BY DEF IInv, EpisodesSound
  <2> QED
    BY <1>1, <1>6, <2>1 DEF Sound, Expiring
<1>10. OnlyLastOpen'
  BY <1>1 DEF IInv, OnlyLastOpen
<1>11. DispatchKnown'
  <2> SUFFICES ASSUME NEW p \in Processes, pc[p] # "idle",
                      NEW id \in DOMAIN rows', WrittenBy(id, event[p])',
                      Notifiable(id, event[p].batch_at)'
               PROVE  Covers(p, id)'
    BY <1>1, <1>6 DEF IInv, DispatchKnown, Expiring
  <2>1. event[p] \in announced /\ event'[p] = event[p]
    BY <1>1 DEF IInv, DispatchKnown
  <2>2. id \in DOMAIN rows /\ rows'[id] = rows[id]
    BY <2>1, OldRows DEF WrittenBy
  <2>3. WrittenBy(id, event[p]) /\ Notifiable(id, event[p].batch_at)
    BY <2>1, <2>2 DEF WrittenBy, Notifiable
  <2>4. Covers(p, id)
    BY <2>2, <2>3 DEF IInv, DispatchKnown
  <2> QED
    BY <1>1, <2>2, <2>4 DEF Covers
<1>12. LockedIsLast'
  BY <1>1 DEF IInv, LockedIsLast, Last
<1>13. WhatMattersIsNotified'
  <2> SUFFICES ASSUME NEW e \in processed, NEW id \in DOMAIN rows', WrittenBy(id, e)',
                      Notifiable(id, e.batch_at)'
               PROVE  \E i \in DOMAIN episodes[Key[id]] :
                          LET ep == episodes[Key[id]][i]
                          IN  /\ \E s \in ep.delivered : s >= rows'[id].severity
                              /\ SourceOf[id] = "aemet" => ep.expires_at >= rows'[id].ends_at
    BY <1>1 DEF WhatMattersIsNotified
  <2>1. id \in DOMAIN rows /\ rows'[id] = rows[id]
    BY <1>2, OldRows
  <2>2. WrittenBy(id, e) /\ Notifiable(id, e.batch_at)
    BY <2>1 DEF WrittenBy, Notifiable
  <2> QED
    BY <2>1, <2>2 DEF IInv, WhatMattersIsNotified
<1> QED
  BY <1>7, <1>8, <1>9, <1>10, <1>11, <1>12, <1>13 DEF IInv

(* A step of a dispatch that writes nothing. *)
LEMMA SameTables ==
    ASSUME IInv, UNCHANGED <<rows, announced, processed, episodes>>
    PROVE  WarningsEnd' /\ EpisodesSound' /\ OnlyLastOpen' /\ WhatMattersIsNotified'
<1>1. WarningsEnd'
  BY DEF IInv, WarningsEnd
<1>2. EpisodesSound'
  BY DEF IInv, EpisodesSound, Sound, Expiring
<1>3. OnlyLastOpen'
  BY DEF IInv, OnlyLastOpen
<1>4. WhatMattersIsNotified'
  BY DEF IInv, WhatMattersIsNotified, WrittenBy, Notifiable
<1> QED
  BY <1>1, <1>2, <1>3, <1>4

LEMMA MatchKeeps ==
    ASSUME IInv, NEW p \in Processes, NEW e \in announced, Match(p, e) PROVE IInv'
<1> DEFINE g == Grouped(Matches(e))
<1>1. /\ pc[p] = "idle"
      /\ pc' = [pc EXCEPT ![p] = "matched"] /\ event' = [event EXCEPT ![p] = e]
      /\ groups' = [groups EXCEPT ![p] = g] /\ read_at' = [read_at EXCEPT ![p] = now]
      /\ UNCHANGED <<now, rows, announced, processed, episodes, open>>
  BY DEF Match
<1>2. /\ IsMap(g, Keys, Group)
      /\ \A k \in DOMAIN g : g[k].expires_at # NULL <=> Expiring(k)
      /\ \A id \in Matches(e) : /\ Key[id] \in DOMAIN g
                                /\ g[Key[id]].severity >= rows[id].severity
                                /\ SourceOf[id] = "aemet" => g[Key[id]].expires_at >= rows[id].ends_at
  BY GroupFacts
<1> HIDE DEF g
<1>3. /\ \A q \in Processes : groups'[q] = IF q = p THEN g ELSE groups[q]
      /\ \A q \in Processes : pc'[q] = IF q = p THEN "matched" ELSE pc[q]
      /\ \A q \in Processes : event'[q] = IF q = p THEN e ELSE event[q]
      /\ DOMAIN groups' = Processes /\ DOMAIN open = Processes
  BY <1>1 DEF IInv, TypeOK
<1>4. DOMAIN open[p] = {}
  BY <1>1 DEF IInv, DispatchKnown
<1>5. TypeOK'
  <2>1. \A q \in Processes : IsMap(groups'[q], Keys, Group)
    BY <1>2, <1>3 DEF IInv, TypeOK
  <2>2. \A q \in Processes : IsMap(open[q], DOMAIN groups'[q], Episode)
    BY <1>3, <1>4 DEF IInv, TypeOK, IsMap
  <2>3. /\ pc' \in [Processes -> {"idle", "matched", "locked"}]
        /\ event' \in [Processes -> Event \cup {NULL}]
        /\ read_at' \in [Processes -> Instants]
    BY <1>1 DEF IInv, TypeOK
  <2> QED
    BY <1>1, <2>1, <2>2, <2>3 DEF IInv, TypeOK
<1>6. /\ WarningsEnd' /\ EpisodesSound' /\ OnlyLastOpen' /\ WhatMattersIsNotified'
      /\ LockedIsLast'
  <2>1. WarningsEnd' /\ EpisodesSound' /\ OnlyLastOpen' /\ WhatMattersIsNotified'
    BY <1>1, SameTables
  <2>2. LockedIsLast'
    BY <1>1 DEF IInv, LockedIsLast, Last
  <2> QED
    BY <2>1, <2>2
<1>7. ASSUME NEW id \in DOMAIN rows, WrittenBy(id, e), Notifiable(id, e.batch_at)
      PROVE  id \in Matches(e)
  BY <1>7 DEF WrittenBy, Matches, OfBatch
<1>8. DispatchKnown'
  <2> SUFFICES ASSUME NEW q \in Processes
               PROVE  /\ pc'[q] = "idle" => DOMAIN groups'[q] = {}
                      /\ pc'[q] # "locked" => DOMAIN open[q] = {}
                      /\ pc'[q] # "idle" => event'[q] \in announced
                      /\ \A k \in DOMAIN groups'[q] :
                             groups'[q][k].expires_at # NULL <=> Expiring(k)
                      /\ pc'[q] # "idle" =>
                             \A id \in DOMAIN rows :
                                 WrittenBy(id, event'[q]) /\ Notifiable(id, event'[q].batch_at)
                                     => Covers(q, id)'
    BY <1>1 DEF DispatchKnown, Expiring, WrittenBy, Notifiable
  <2>1. CASE q = p
    <3>1. groups'[q] = g /\ event'[q] = e /\ pc'[q] = "matched"
      BY <1>3, <2>1
    <3>2. \A id \in DOMAIN rows :
              WrittenBy(id, e) /\ Notifiable(id, e.batch_at) => Covers(q, id)'
      BY <1>1, <1>2, <1>7, <3>1 DEF Covers
    <3> QED
      BY <1>2, <1>4, <2>1, <3>1, <3>2
  <2>2. CASE q # p
    BY <1>1, <1>3, <2>2 DEF IInv, DispatchKnown, Covers
  <2> QED
    BY <2>1, <2>2
<1> QED
  BY <1>1, <1>3, <1>5, <1>6, <1>8 DEF IInv

LEMMA LockKeeps == ASSUME IInv, NEW p \in Processes, Lock(p) PROVE IInv'
<1> DEFINE o == OpenEpisodes(DOMAIN groups[p])
<1>1. /\ pc[p] = "matched" /\ Free(p)
      /\ open' = [open EXCEPT ![p] = o] /\ pc' = [pc EXCEPT ![p] = "locked"]
      /\ UNCHANGED <<now, rows, announced, processed, episodes, event, groups, read_at>>
  BY DEF Lock
<1>2. /\ o = [k \in DOMAIN o |-> o[k]] /\ DOMAIN o \subseteq DOMAIN groups[p]
      /\ \A k \in DOMAIN o : episodes[k] # <<>> /\ ~ Last(k).closed /\ o[k] = Last(k)
  BY DEF OpenEpisodes, Last
<1> HIDE DEF o
<1>3. /\ \A q \in Processes : open'[q] = IF q = p THEN o ELSE open[q]
      /\ \A q \in Processes : pc'[q] = IF q = p THEN "locked" ELSE pc[q]
      /\ DOMAIN open' = Processes /\ DOMAIN groups = Processes
  BY <1>1 DEF IInv, TypeOK
<1>4. DOMAIN groups[p] \subseteq Keys
  BY DEF IInv, TypeOK, IsMap
<1>5. TypeOK'
  <2>1. IsMap(o, DOMAIN groups[p], Episode)
    BY <1>2, <1>4, LastIs DEF IsMap
  <2>2. \A q \in Processes : IsMap(open'[q], DOMAIN groups[q], Episode)
    BY <1>3, <2>1 DEF IInv, TypeOK
  <2>3. pc' \in [Processes -> {"idle", "matched", "locked"}]
    BY <1>1 DEF IInv, TypeOK
  <2> QED
    BY <1>1, <2>2, <2>3 DEF IInv, TypeOK
<1>6. WarningsEnd' /\ EpisodesSound' /\ OnlyLastOpen' /\ WhatMattersIsNotified'
  BY <1>1, SameTables
<1>7. DispatchKnown'
  <2> SUFFICES ASSUME NEW q \in Processes
               PROVE  /\ pc'[q] = "idle" => DOMAIN groups[q] = {}
                      /\ pc'[q] # "locked" => DOMAIN open'[q] = {}
                      /\ pc'[q] # "idle" => event[q] \in announced
                      /\ \A k \in DOMAIN groups[q] :
                             groups[q][k].expires_at # NULL <=> Expiring(k)
                      /\ pc'[q] # "idle" =>
                             \A id \in DOMAIN rows :
                                 WrittenBy(id, event[q]) /\ Notifiable(id, event[q].batch_at)
                                     => Covers(q, id)
    BY <1>1 DEF DispatchKnown, Expiring, WrittenBy, Notifiable, Covers
  <2>1. pc[q] # "idle" <=> pc'[q] # "idle"
    BY <1>1, <1>3
  <2>2. pc'[q] # "locked" => q # p /\ pc[q] # "locked" /\ open'[q] = open[q]
    BY <1>3
  <2> QED
    BY <2>1, <2>2 DEF IInv, DispatchKnown
<1>8. LockedIsLast'
  <2>1. ASSUME NEW q \in Processes, NEW k \in DOMAIN open'[q]
        PROVE  episodes[k] # <<>> /\ ~ Last(k).closed /\ open'[q][k] = Last(k)
    BY <1>2, <1>3, <2>1 DEF IInv, LockedIsLast
  <2>2. ASSUME NEW q \in Processes, NEW r \in Processes, q # r
        PROVE  DOMAIN open'[q] \cap DOMAIN open'[r] = {}
    <3>1. \A s \in Processes \ {p} : DOMAIN open[s] \cap DOMAIN o = {}
      BY <1>1, <1>2 DEF Free
    <3> QED
      BY <1>3, <2>2, <3>1 DEF IInv, LockedIsLast
  <2> QED
    BY <1>1, <2>1, <2>2 DEF LockedIsLast, Last
<1> QED
  BY <1>1, <1>3, <1>5, <1>6, <1>7, <1>8 DEF IInv

(***************************************************************************)
(* A process that leaves lets its keys go.                                 *)
(***************************************************************************)
LEMMA LeaveFacts ==
    ASSUME IInv, NEW p \in Processes, Leave(p)
    PROVE  /\ pc' \in [Processes -> {"idle", "matched", "locked"}]
           /\ event' \in [Processes -> Event \cup {NULL}]
           /\ read_at' \in [Processes -> Instants]
           /\ DOMAIN groups' = Processes /\ DOMAIN open' = Processes
           /\ pc'[p] = "idle" /\ DOMAIN groups'[p] = {} /\ DOMAIN open'[p] = {}
           /\ \A q \in Processes : q # p =>
                  /\ pc'[q] = pc[q] /\ event'[q] = event[q]
                  /\ groups'[q] = groups[q] /\ open'[q] = open[q]
           /\ \A q \in Processes : IsMap(groups'[q], Keys, Group)
           /\ \A q \in Processes : IsMap(open'[q], DOMAIN groups'[q], Episode)
<1>1. DOMAIN Nothing = {} /\ \A S, T : IsMap(Nothing, S, T)
  BY DEF Nothing, IsMap
<1>2. 0 \in Instants
  BY ConstantFacts DEF Instants
<1>3. /\ pc' \in [Processes -> {"idle", "matched", "locked"}] /\ pc'[p] = "idle"
      /\ event' \in [Processes -> Event \cup {NULL}]
      /\ read_at' \in [Processes -> Instants]
      /\ DOMAIN groups' = Processes /\ DOMAIN open' = Processes
      /\ groups'[p] = Nothing /\ open'[p] = Nothing
      /\ \A q \in Processes : q # p =>
             /\ pc'[q] = pc[q] /\ event'[q] = event[q]
             /\ groups'[q] = groups[q] /\ open'[q] = open[q]
  BY <1>2 DEF Leave, IInv, TypeOK
<1>4. \A q \in Processes : /\ IsMap(groups'[q], Keys, Group)
                           /\ IsMap(open'[q], DOMAIN groups'[q], Episode)
  <2>1. TAKE q \in Processes
  <2>2. CASE q = p
    BY <1>1, <1>3, <2>2
  <2>3. CASE q # p
    BY <1>3, <2>3 DEF IInv, TypeOK
  <2> QED
    BY <2>2, <2>3
<1> QED
  BY <1>1, <1>3, <1>4

LEMMA LeaveKeepsDispatches ==
    ASSUME IInv, NEW p \in Processes, Leave(p), UNCHANGED <<rows, announced>>
    PROVE  DispatchKnown'
<1> SUFFICES ASSUME NEW q \in Processes
             PROVE  /\ pc'[q] = "idle" => DOMAIN groups'[q] = {}
                    /\ pc'[q] # "locked" => DOMAIN open'[q] = {}
                    /\ pc'[q] # "idle" => event'[q] \in announced
                    /\ \A k \in DOMAIN groups'[q] :
                           groups'[q][k].expires_at # NULL <=> Expiring(k)
                    /\ pc'[q] # "idle" =>
                           \A id \in DOMAIN rows :
                               WrittenBy(id, event'[q]) /\ Notifiable(id, event'[q].batch_at)
                                   => Covers(q, id)'
  BY DEF DispatchKnown, Expiring, WrittenBy, Notifiable
<1>1. CASE q = p
  BY <1>1, LeaveFacts
<1>2. CASE q # p
  <2>1. /\ pc'[q] = pc[q] /\ event'[q] = event[q]
        /\ groups'[q] = groups[q] /\ open'[q] = open[q]
    BY <1>2, LeaveFacts
  <2> QED
    BY <2>1 DEF IInv, DispatchKnown, Covers
<1> QED
  BY <1>1, <1>2

LEMMA RollBackKeeps == ASSUME IInv, NEW p \in Processes, RollBack(p) PROVE IInv'
<1>1. Leave(p) /\ UNCHANGED <<now, rows, announced, processed, episodes>>
  BY DEF RollBack
<1>2. TypeOK' /\ DOMAIN groups' = Processes /\ DOMAIN open' = Processes
  BY <1>1, LeaveFacts DEF IInv, TypeOK
<1>3. WarningsEnd' /\ EpisodesSound' /\ OnlyLastOpen' /\ WhatMattersIsNotified'
  BY <1>1, SameTables
<1>4. DispatchKnown'
  BY <1>1, LeaveKeepsDispatches
<1>5. LockedIsLast'
  <2>1. \A q \in Processes : DOMAIN open'[q] = {} \/ (q # p /\ open'[q] = open[q])
    BY <1>1, LeaveFacts
  <2> QED
    BY <1>1, <2>1 DEF IInv, LockedIsLast, Last
<1> QED
  BY <1>2, <1>3, <1>4, <1>5 DEF IInv

LEMMA TickKeeps == ASSUME IInv, Tick PROVE IInv'
<1>1. /\ now < MaxTime /\ now' = now + 1
      /\ UNCHANGED <<rows, announced, processed, episodes, pc, event, groups, read_at, open>>
  BY DEF Tick, dispatchVars
<1>2. now' \in Instants
  BY <1>1, ConstantFacts DEF IInv, TypeOK, Instants
<1>3. TypeOK'
  BY <1>1, <1>2 DEF IInv, TypeOK
<1>4. WarningsEnd' /\ EpisodesSound' /\ OnlyLastOpen' /\ WhatMattersIsNotified'
  BY <1>1, SameTables
<1>5. DispatchKnown'
  BY <1>1 DEF IInv, DispatchKnown, Expiring, WrittenBy, Notifiable, Covers
<1>6. LockedIsLast'
  BY <1>1 DEF IInv, LockedIsLast, Last
<1> QED
  BY <1>1, <1>3, <1>4, <1>5, <1>6 DEF IInv

(***************************************************************************)
(* The commit of a dispatch: its keys have the episodes After says, which  *)
(* cover what it matched; no other process holds one of those keys.        *)
(***************************************************************************)
LEMMA CommitFacts ==
    ASSUME IInv, NEW p \in Processes, Commit(p)
    PROVE  /\ pc[p] = "locked" /\ event[p] \in announced /\ Leave(p)
           /\ processed' = processed \cup {event[p]}
           /\ UNCHANGED <<now, rows, announced>>
           /\ episodes' = [k \in Keys |-> episodes'[k]]
           /\ DOMAIN groups[p] \subseteq Keys
           /\ \A k \in Keys : k \notin DOMAIN groups[p] => episodes'[k] = episodes[k]
           /\ \A k \in DOMAIN groups[p] : CoveredBy(episodes'[k], groups[p][k])
           /\ \A k \in Keys :
                  /\ episodes'[k] \in Seq(Episode)
                  /\ \A i \in 1 .. Len(episodes'[k]) :
                         /\ Sound(k, episodes'[k][i])
                         /\ i < Len(episodes'[k]) => episodes'[k][i].closed
                  /\ KeptBy(episodes'[k], k) /\ OpensAfter(episodes'[k], k)
<1>1. /\ pc[p] = "locked" /\ ~ OpenedConcurrently(p) /\ Leave(p)
      /\ episodes' = [k \in Keys |-> IF k \in DOMAIN groups[p] THEN After(p, k) ELSE episodes[k]]
      /\ processed' = processed \cup {event[p]}
      /\ UNCHANGED <<now, rows, announced>>
  BY DEF Commit
<1>2. DOMAIN groups[p] \subseteq Keys /\ event[p] \in announced
  BY <1>1 DEF IInv, TypeOK, IsMap, DispatchKnown
<1>3. ASSUME NEW k \in DOMAIN groups[p]
      PROVE  /\ episodes'[k] \in Seq(Episode)
             /\ \A i \in 1 .. Len(episodes'[k]) :
                    /\ Sound(k, episodes'[k][i])
                    /\ i < Len(episodes'[k]) => episodes'[k][i].closed
             /\ KeptBy(episodes'[k], k) /\ OpensAfter(episodes'[k], k)
             /\ CoveredBy(episodes'[k], groups[p][k])
  <2>1. episodes'[k] = After(p, k)
    BY <1>1, <1>2
  <2> QED
    BY <1>1, <2>1, AfterFacts
<1>4. ASSUME NEW k \in Keys, k \notin DOMAIN groups[p]
      PROVE  /\ episodes'[k] = episodes[k] /\ episodes'[k] \in Seq(Episode)
             /\ \A i \in 1 .. Len(episodes'[k]) :
                    /\ Sound(k, episodes'[k][i])
                    /\ i < Len(episodes'[k]) => episodes'[k][i].closed
             /\ KeptBy(episodes'[k], k) /\ OpensAfter(episodes'[k], k)
  <2>1. episodes'[k] = episodes[k] /\ episodes[k] \in Seq(Episode) /\ Len(episodes[k]) \in Nat
    BY <1>1, <1>4 DEF IInv, TypeOK
  <2>2. \A i \in 1 .. Len(episodes[k]) :
            Sound(k, episodes[k][i]) /\ (i < Len(episodes[k]) => episodes[k][i].closed)
    BY DEF IInv, EpisodesSound, OnlyLastOpen
  <2>3. KeptBy(episodes[k], k)
    BY SameIsKept
  <2>4. OpensAfter(episodes[k], k)
    BY <2>1 DEF OpensAfter
  <2> QED
    BY <2>1, <2>2, <2>3, <2>4
<1>5. episodes' = [k \in Keys |-> episodes'[k]]
  BY <1>1
<1>6. \A k \in Keys :
          /\ episodes'[k] \in Seq(Episode)
          /\ \A i \in 1 .. Len(episodes'[k]) :
                 /\ Sound(k, episodes'[k][i])
                 /\ i < Len(episodes'[k]) => episodes'[k][i].closed
          /\ KeptBy(episodes'[k], k) /\ OpensAfter(episodes'[k], k)
  <2>1. TAKE k \in Keys
  <2>2. CASE k \in DOMAIN groups[p]
    BY <1>3, <2>2
  <2>3. CASE k \notin DOMAIN groups[p]
    BY <1>4, <2>3
  <2> QED
    BY <2>2, <2>3
<1> QED
  BY <1>1, <1>2, <1>3, <1>4, <1>5, <1>6

LEMMA CommitNotifies ==
    ASSUME IInv, NEW p \in Processes, Commit(p), NEW e \in processed', NEW id \in DOMAIN rows,
           WrittenBy(id, e), Notifiable(id, e.batch_at)
    PROVE  \E i \in DOMAIN episodes'[Key[id]] :
               LET ep == episodes'[Key[id]][i]
               IN  /\ \E s \in ep.delivered : s >= rows[id].severity
                   /\ SourceOf[id] = "aemet" => ep.expires_at >= rows[id].ends_at
<1> DEFINE k == Key[id]
<1>1. /\ id \in Ids /\ k \in Keys /\ (Expiring(k) <=> SourceOf[id] = "aemet")
      /\ rows[id].severity \in Nat /\ NULL \notin Int
      /\ SourceOf[id] = "aemet" => rows[id].ends_at \in Nat
  <2>1. id \in Ids /\ rows[id] \in Row
    BY DEF IInv, TypeOK, IsMap
  <2>2. SourceOf[id] = "aemet" => rows[id].ends_at # NULL
    BY DEF IInv, WarningsEnd
  <2> QED
    BY <2>1, <2>2, ConstantFacts DEF Row
<1> HIDE DEF k
<1>2. /\ episodes[k] \in Seq(Episode) /\ episodes'[k] \in Seq(Episode)
      /\ Len(episodes[k]) \in Nat /\ Len(episodes'[k]) \in Nat
      /\ DOMAIN episodes[k] = 1 .. Len(episodes[k])
      /\ DOMAIN episodes'[k] = 1 .. Len(episodes'[k])
      /\ \A i \in 1 .. Len(episodes'[k]) : /\ episodes'[k][i] \in Episode
                                           /\ Sound(k, episodes'[k][i])
      /\ KeptBy(episodes'[k], k)
  <2>1. episodes[k] \in Seq(Episode) /\ episodes'[k] \in Seq(Episode)
    BY <1>1, CommitFacts DEF IInv, TypeOK
  <2>2. /\ \A i \in 1 .. Len(episodes'[k]) : Sound(k, episodes'[k][i])
        /\ KeptBy(episodes'[k], k)
    BY <1>1, CommitFacts
  <2> QED
    BY <2>1, <2>2, ElementOfSeq
<1>3. \A i \in 1 .. Len(episodes'[k]) :
          /\ episodes'[k][i].delivered \subseteq Nat
          /\ Expiring(k) => episodes'[k][i].expires_at \in Nat
  <2>1. \A ep \in Episode : ep.delivered \subseteq Nat /\ ep.expires_at \in Nat \cup {NULL}
    BY ConstantFacts DEF Episode
  <2> QED
    BY <1>2, <2>1 DEF Sound
<1>4. CASE e \in processed
  <2>1. PICK i \in DOMAIN episodes[k] :
            /\ \E s \in episodes[k][i].delivered : s >= rows[id].severity
            /\ SourceOf[id] = "aemet" => episodes[k][i].expires_at >= rows[id].ends_at
    BY <1>4 DEF IInv, WhatMattersIsNotified, k
  <2>2. /\ i \in 1 .. Len(episodes'[k])
        /\ episodes[k][i].delivered \subseteq episodes'[k][i].delivered
        /\ Expiring(k) => episodes'[k][i].expires_at >= episodes[k][i].expires_at
    BY <1>2, <2>1 DEF KeptBy
  <2>3. Expiring(k) => episodes[k][i].expires_at \in Nat
    <3>1. episodes[k][i] \in Episode /\ Sound(k, episodes[k][i])
      BY <1>1, <1>2, <2>1, ElementOfSeq DEF IInv, EpisodesSound
    <3> QED
      BY <3>1 DEF Sound, Episode
  <2>4. SourceOf[id] = "aemet" => episodes'[k][i].expires_at >= rows[id].ends_at
    BY <1>1, <1>3, <2>1, <2>2, <2>3
  <2>5. \E s \in episodes'[k][i].delivered : s >= rows[id].severity
    BY <2>1, <2>2
  <2> QED
    BY <1>2, <2>2, <2>4, <2>5 DEF k
<1>5. CASE e = event[p]
  <2> DEFINE g == groups[p][k]
  <2>1. pc[p] = "locked"
    BY CommitFacts
  <2>2. /\ k \in DOMAIN groups[p] /\ g.severity >= rows[id].severity
        /\ SourceOf[id] = "aemet" => g.expires_at >= rows[id].ends_at
    BY <1>5, <2>1 DEF IInv, DispatchKnown, Covers, k
  <2>3. g \in Group /\ (g.expires_at # NULL <=> Expiring(k))
    BY <2>1, <2>2, LockedFacts
  <2>4. PICK i \in 1 .. Len(episodes'[k]) :
            /\ \E s \in episodes'[k][i].delivered : s >= g.severity
            /\ g.expires_at # NULL => episodes'[k][i].expires_at >= g.expires_at
    BY <2>2, CommitFacts DEF CoveredBy
  <2> HIDE DEF g
  <2>5. g.severity \in Nat /\ (Expiring(k) => g.expires_at \in Nat)
    BY <2>3, ConstantFacts DEF Group
  <2>6. \E s \in episodes'[k][i].delivered : s >= rows[id].severity
    BY <1>1, <1>3, <2>2, <2>4, <2>5
  <2>7. SourceOf[id] = "aemet" => episodes'[k][i].expires_at >= rows[id].ends_at
    BY <1>1, <1>3, <2>2, <2>3, <2>4, <2>5
  <2> QED
    BY <1>2, <2>6, <2>7 DEF k
<1> QED
  BY <1>4, <1>5, CommitFacts

LEMMA CommitKeeps == ASSUME IInv, NEW p \in Processes, Commit(p) PROVE IInv'
<1>1. /\ pc[p] = "locked" /\ event[p] \in announced /\ Leave(p)
      /\ processed' = processed \cup {event[p]}
      /\ UNCHANGED <<now, rows, announced>>
      /\ episodes' = [k \in Keys |-> episodes'[k]]
      /\ \A k \in Keys : k \notin DOMAIN groups[p] => episodes'[k] = episodes[k]
      /\ \A k \in Keys :
             /\ episodes'[k] \in Seq(Episode)
             /\ \A i \in 1 .. Len(episodes'[k]) :
                    /\ Sound(k, episodes'[k][i])
                    /\ i < Len(episodes'[k]) => episodes'[k][i].closed
  BY CommitFacts
<1>2. OnlyLastOpen'
  BY <1>1 DEF OnlyLastOpen
<1>3. EpisodesSound'
  <2> SUFFICES ASSUME NEW k \in Keys, NEW i \in 1 .. Len(episodes'[k])
               PROVE  Sound(k, episodes[k][i])'
    BY DEF EpisodesSound
  <2>1. Sound(k, episodes'[k][i])
    BY <1>1
  <2> QED
    BY <1>1, <2>1 DEF Sound, Expiring
<1>4. WarningsEnd'
  BY <1>1 DEF IInv, WarningsEnd
<1>5. DispatchKnown'
  BY <1>1, LeaveKeepsDispatches
<1>6. TypeOK' /\ DOMAIN groups' = Processes /\ DOMAIN open' = Processes
  <2>1. /\ pc' \in [Processes -> {"idle", "matched", "locked"}]
        /\ event' \in [Processes -> Event \cup {NULL}]
        /\ read_at' \in [Processes -> Instants]
        /\ DOMAIN groups' = Processes /\ DOMAIN open' = Processes
        /\ \A q \in Processes : IsMap(groups'[q], Keys, Group)
        /\ \A q \in Processes : IsMap(open'[q], DOMAIN groups'[q], Episode)
    BY <1>1, LeaveFacts
  <2>2. episodes' \in [Keys -> Seq(Episode)]
    BY <1>1
  <2>3. ASSUME NEW k \in Keys, NEW i \in 1 .. 2 * MaxTime, i < Len(episodes'[k])
        PROVE  episodes'[k][i].closed
    <3>1. Len(episodes'[k]) \in Nat
      BY <1>1
    <3>2. i \in 1 .. Len(episodes'[k])
      BY <2>3, <3>1, ConstantFacts
    <3> QED
      BY <1>1, <2>3, <3>2
  <2>4. processed' \subseteq announced'
    BY <1>1 DEF IInv, TypeOK
  <2> QED
    BY <1>1, <2>1, <2>2, <2>3, <2>4 DEF IInv, TypeOK
<1>7. LockedIsLast'
  <2>1. ASSUME NEW q \in Processes, NEW k \in DOMAIN open'[q]
        PROVE  episodes'[k] # <<>> /\ ~ Last(k)'.closed /\ open'[q][k] = Last(k)'
    <3>1. q # p /\ open'[q] = open[q] /\ k \in DOMAIN open[q]
      BY <1>1, <2>1, LeaveFacts
    <3>2. /\ episodes[k] # <<>> /\ ~ Last(k).closed /\ open[q][k] = Last(k)
          /\ k \notin DOMAIN open[p]
      BY <3>1 DEF IInv, LockedIsLast
    <3>3. k \notin DOMAIN groups[p]
      BY <1>1, <3>2, LockedFacts DEF Commit
    <3>4. k \in Keys
      BY <3>1 DEF IInv, TypeOK, IsMap
    <3> QED
      BY <1>1, <3>1, <3>2, <3>3, <3>4 DEF Last
  <2>2. \A q \in Processes : DOMAIN open'[q] = {} \/ (q # p /\ open'[q] = open[q])
    BY <1>1, LeaveFacts
  <2>3. \A q, r \in Processes : q # r => DOMAIN open'[q] \cap DOMAIN open'[r] = {}
    BY <2>2 DEF IInv, LockedIsLast
  <2> QED
    BY <2>1, <2>3 DEF LockedIsLast
<1>8. WhatMattersIsNotified'
  <2> SUFFICES ASSUME NEW e \in processed', NEW id \in DOMAIN rows', WrittenBy(id, e)',
                      Notifiable(id, e.batch_at)'
               PROVE  \E i \in DOMAIN episodes'[Key[id]] :
                          LET ep == episodes'[Key[id]][i]
                          IN  /\ \E s \in ep.delivered : s >= rows'[id].severity
                              /\ SourceOf[id] = "aemet" => ep.expires_at >= rows'[id].ends_at
    BY DEF WhatMattersIsNotified
  <2>1. rows' = rows
    BY <1>1
  <2>2. WrittenBy(id, e) /\ Notifiable(id, e.batch_at)
    BY <2>1 DEF WrittenBy, Notifiable
  <2> QED
    BY <2>1, <2>2, CommitNotifies
<1> QED
  BY <1>2, <1>3, <1>4, <1>5, <1>6, <1>7, <1>8 DEF IInv

LEMMA Inductive == IInv /\ [Next]_vars => IInv'
<1> SUFFICES ASSUME IInv, [Next]_vars PROVE IInv'
  OBVIOUS
<1>1. CASE UNCHANGED vars
  <2>1. /\ UNCHANGED <<rows, announced, processed, episodes>>
        /\ UNCHANGED <<now, pc, event, groups, read_at, open>>
    BY <1>1 DEF vars, dispatchVars
  <2>2. TypeOK' /\ DOMAIN groups' = Processes /\ DOMAIN open' = Processes
    BY <2>1 DEF IInv, TypeOK
  <2>3. DispatchKnown'
    BY <2>1 DEF IInv, DispatchKnown, Expiring, WrittenBy, Notifiable, Covers
  <2>4. LockedIsLast'
    BY <2>1 DEF IInv, LockedIsLast, Last
  <2> QED
    BY <2>1, <2>2, <2>3, <2>4, SameTables DEF IInv
<1>2. CASE \E b \in Batches : Ingest(b)
  BY <1>2, IngestKeeps
<1>3. ASSUME NEW p \in Processes, NEW e \in announced, Match(p, e) PROVE IInv'
  BY <1>3, MatchKeeps
<1>4. ASSUME NEW p \in Processes, Lock(p) PROVE IInv'
  BY <1>4, LockKeeps
<1>5. ASSUME NEW p \in Processes, Commit(p) PROVE IInv'
  BY <1>5, CommitKeeps
<1>6. ASSUME NEW p \in Processes, RollBack(p) PROVE IInv'
  BY <1>6, RollBackKeeps
<1>7. CASE Tick
  BY <1>7, TickKeeps
<1> QED
  BY <1>1, <1>2, <1>3, <1>4, <1>5, <1>6, <1>7 DEF Next

LEMMA Invariance == Spec => []IInv
<1>1. Init => IInv
  BY Initially
<1> QED
  BY <1>1, Inductive, PTL DEF Spec

(***************************************************************************)
(* The types of the tables and of the dispatches: that what IsMap and the  *)
(* records say holds after any number of batches, retries and rollbacks,   *)
(* and that of the episodes of a key only the last is open (the unique     *)
(* index of episode.py 20-44).                                             *)
(***************************************************************************)
THEOREM TypeCorrect == Spec => []TypeOK
<1>1. IInv => TypeOK
  BY DEF IInv
<1> QED
  BY <1>1, Invariance, PTL

(***************************************************************************)
(* Nothing is missed: for any order, repetition and overlap of the         *)
(* dispatches, a row whose last batch was processed and that may notify    *)
(* has an episode that notified its severity and lasts as long             *)
(* (match_batch.py 49-109).                                                *)
(***************************************************************************)
THEOREM NothingIsMissed == Spec => []WhatMattersIsNotified
<1>1. IInv => WhatMattersIsNotified
  BY DEF IInv
<1> QED
  BY <1>1, Invariance, PTL

(* Only a commit writes episodes. *)
LEMMA OnlyCommitWrites ==
    ASSUME [Next]_vars, episodes' # episodes
    PROVE  \E p \in Processes : Commit(p)
  BY DEF Next, vars, Ingest, Match, Lock, RollBack, Tick

(***************************************************************************)
(* No spam: inside an episode every notice is of a higher severity than    *)
(* all before it, whatever two processes matched (episodes.py 45-52).      *)
(***************************************************************************)
THEOREM NoticesOnlyRise == Spec => NoticesRise
<1>1. ASSUME IInv, [Next]_vars
      PROVE  \A k \in Keys : \A i \in DOMAIN episodes[k] :
                 \A s \in episodes'[k][i].delivered \ episodes[k][i].delivered :
                     \A t \in episodes[k][i].delivered : s > t
  <2>1. CASE episodes' = episodes
    BY <2>1
  <2>2. CASE episodes' # episodes
    <3>1. PICK p \in Processes : Commit(p)
      BY <1>1, <2>2, OnlyCommitWrites
    <3>2. TAKE k \in Keys
    <3>3. DOMAIN episodes[k] = 1 .. Len(episodes[k])
      BY <1>1 DEF IInv, TypeOK
    <3>4. KeptBy(episodes'[k], k)
      BY <1>1, <3>1, CommitFacts
    <3> QED
      BY <3>3, <3>4 DEF KeptBy
  <2> QED
    BY <2>1, <2>2
<1> QED
  BY <1>1, Invariance, PTL DEF Spec, NoticesRise

(***************************************************************************)
(* A phenomenon has one episode at a time: a new one opens only after the  *)
(* expiry of the one before, grace included, at the mark of some batch     *)
(* (episodes.py 45-52, match_batch.py 78-96).                              *)
(***************************************************************************)
THEOREM EpisodesFollow == Spec => EpisodesFollowExpiry
<1>1. ASSUME IInv, [Next]_vars
      PROVE  \A k \in Keys :
                 (Len(episodes'[k]) > Len(episodes[k]) /\ episodes[k] # <<>>) =>
                     \E e \in announced :
                         LET last == episodes[k][Len(episodes[k])]
                         IN  last.expires_at # NULL /\ last.expires_at + Grace <= e.batch_at
  <2>1. CASE episodes' = episodes
    <3>1. \A k \in Keys : Len(episodes[k]) \in Nat
      BY <1>1 DEF IInv, TypeOK
    <3> QED
      BY <2>1, <3>1
  <2>2. CASE episodes' # episodes
    <3>1. PICK p \in Processes : Commit(p)
      BY <1>1, <2>2, OnlyCommitWrites
    <3>2. \A k \in Keys : OpensAfter(episodes'[k], k)
      BY <1>1, <3>1, CommitFacts
    <3> QED
      BY <3>2 DEF OpensAfter, Last
  <2> QED
    BY <2>1, <2>2
<1> QED
  BY <1>1, Invariance, PTL DEF Spec, EpisodesFollowExpiry
=============================================================================
