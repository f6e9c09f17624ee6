------------------------- MODULE PlayCountCacheProofs -------------------------
(***************************************************************************)
(* The mirror of the play counts, for any number of songs, readers, plays,  *)
(* namespaces and restarts.  Types hold however many play transactions are  *)
(* open.  That no play is missed needs them to be one at a time, so that    *)
(* plays end in the order of their ids: the code reads the largest id and   *)
(* takes it for all the plays before it (song_play_metrics.py:84).          *)
(*                                                                         *)
(* The operators below take the rows, the mirror and a reader as arguments: *)
(* they are used of the state before a step and of the one after it.        *)
(***************************************************************************)
EXTENDS PlayCountCache, FiniteSetTheorems, TLAPS

Closing == {"committed", "gone"}

\* The committed plays of s up to id n, of the rows pl.
Below(pl, s, n) == {p \in Ids : pl[p].life = "committed" /\ pl[p].song = s /\ p <= n}
Among(pl, set, s) == {p \in Ids : pl[p].life = "committed" /\ pl[p].song = s /\ p \in set}

\* No play up to id n will commit later.
Closed(pl, n) == \A p \in Ids : p <= n => pl[p].life \in Closing

\* The rows only go the way of a transaction: what ended stays ended.
Advance(pl, pm) == \A p \in Ids : pl[p].life \in Closing =>
    /\ pm[p].life \in Closing /\ pm[p].song = pl[p].song
    /\ pm[p].life = "committed" => pl[p].life = "committed"

Rows == [Ids -> [life : {"unborn", "open", "committed", "gone"}, song : Songs]]
Loose == [ns : Nat, last : 0..MaxPlay, count : [Namespaces -> [Songs -> Counts]]]

LEMMA BelowFinite ==
    ASSUME NEW pl, NEW s, NEW n
    PROVE  /\ IsFiniteSet(Below(pl, s, n)) /\ Cardinality(Below(pl, s, n)) \in Nat
           /\ IsFiniteSet(Among(pl, n, s)) /\ Cardinality(Among(pl, n, s)) \in Nat
  <1>1. MaxPlay \in Nat
    BY BoundAssumption
  <1>2. IsFiniteSet(Ids)
    BY <1>1, FS_Interval DEF Ids
  <1>3. Below(pl, s, n) \subseteq Ids /\ Among(pl, n, s) \subseteq Ids
    BY DEF Below, Among
  <1> QED BY <1>2, <1>3, FS_Subset, FS_CardinalityType

LEMMA SmallerCount ==
    ASSUME NEW a, NEW b, a \subseteq b, IsFiniteSet(b)
    PROVE  Cardinality(a) <= Cardinality(b)
  BY FS_Subset

LEMMA RowsWane ==
    ASSUME NEW pl, NEW pm, Advance(pl, pm), NEW n, Closed(pl, n)
    PROVE  /\ Closed(pm, n)
           /\ \A s : Below(pm, s, n) \subseteq Below(pl, s, n)
           /\ \A s, set : (\A p \in set : p <= n) => Among(pm, set, s) \subseteq Among(pl, set, s)
  BY DEF Advance, Closed, Below, Among

-----------------------------------------------------------------------------
(* The mirror.                                                             *)

\* A count of the current namespace leaves out no play up to the last id known.
Covers(pl, r) == \A s \in Songs : r.ns \in Namespaces /\ r.count[r.ns][s] # NoCount =>
    r.count[r.ns][s] >= Cardinality(Below(pl, s, r.last))

\* Namespaces that are still to come have no key.
Beyond(r) == \A n \in Namespaces : n > r.ns => r.count[n] = Unknown

Good(pl, r) == Closed(pl, r.last) /\ Covers(pl, r) /\ Beyond(r)

LEMMA LooseFields ==
    ASSUME NEW r \in Loose
    PROVE  /\ r.ns \in Nat /\ r.last \in 0..MaxPlay /\ r.count \in [Namespaces -> [Songs -> Counts]]
           /\ \A n \in Namespaces, s \in Songs : r.count[n][s] \in Counts
  BY DEF Loose

LEMMA MirrorLoose ==
    /\ \A r \in Mirror : r \in Loose
    /\ \A r \in Loose : InBound(r) => r \in Mirror
  <1>1. MaxNamespace \in Nat
    BY BoundAssumption
  <1>2. ASSUME NEW r \in Mirror PROVE r \in Loose
    BY <1>1 DEF Mirror, Loose
  <1>3. ASSUME NEW r \in Loose, InBound(r) PROVE r \in Mirror
    BY <1>1, <1>3 DEF Mirror, Loose, InBound
  <1> QED BY <1>2, <1>3

LEMMA NamedFacts ==
    ASSUME NEW r \in Loose
    PROVE  /\ Named(r) \in Loose /\ Named(r).last = r.last /\ Named(r).count = r.count
           /\ Named(r).ns = IF r.ns = 0 THEN 1 ELSE r.ns
  BY DEF Named, Loose

LEMMA UnknownType == Unknown \in [Songs -> Counts] /\ \A s \in Songs : Unknown[s] = NoCount
  BY DEF Unknown, Counts

Held == {reader[q].ns : q \in {x \in Readers : reader[x].pc = "mget"}}

LEMMA MovedFacts ==
    ASSUME NEW r \in Loose
    PROVE  /\ Moved(r) \in Loose /\ Moved(r).last = r.last /\ Moved(r).ns = r.ns + 1
           /\ \A n \in Namespaces : Moved(r).count[n] = IF n \in Held THEN r.count[n] ELSE Unknown
  <1>1. PICK h : h = Held  OBVIOUS
  <1>2. PICK c : c = [n \in Namespaces |-> IF n \in h THEN r.count[n] ELSE Unknown]  OBVIOUS
  <1>3. c \in [Namespaces -> [Songs -> Counts]]
    BY <1>2, UnknownType DEF Loose
  <1>4. Moved(r) = [ns |-> r.ns + 1, last |-> r.last, count |-> c]
    BY <1>1, <1>2 DEF Moved, Held
  <1>5. r.ns + 1 \in Nat /\ r.last \in 0..MaxPlay
    BY DEF Loose
  <1> QED BY <1>1, <1>2, <1>3, <1>4, <1>5 DEF Loose

LEMMA LastFacts ==
    ASSUME NEW r \in Loose, NEW n \in 0..MaxPlay
    PROVE  /\ [r EXCEPT !.last = n] \in Loose /\ [r EXCEPT !.last = n].last = n
           /\ [r EXCEPT !.last = n].ns = r.ns /\ [r EXCEPT !.last = n].count = r.count
  BY DEF Loose

LEMMA CountedFacts ==
    ASSUME NEW r \in Loose, r.ns \in Namespaces, NEW s \in Songs
    PROVE  /\ Counted(r, s) \in Loose /\ Counted(r, s).ns = r.ns /\ Counted(r, s).last = r.last
           /\ \A n \in Namespaces : n # r.ns => Counted(r, s).count[n] = r.count[n]
           /\ \A t \in Songs : Counted(r, s).count[r.ns][t] =
                IF t = s /\ r.count[r.ns][s] # NoCount THEN r.count[r.ns][s] + 1 ELSE r.count[r.ns][t]
  <1>1. PICK a : a = IF r.count[r.ns][s] = NoCount THEN NoCount ELSE r.count[r.ns][s] + 1  OBVIOUS
  <1>2. a \in Counts
    BY <1>1, LooseFields DEF Counts
  <1>3. PICK row : row = [r.count[r.ns] EXCEPT ![s] = a]  OBVIOUS
  <1>4. row \in [Songs -> Counts] /\ \A t \in Songs : row[t] = IF t = s THEN a ELSE r.count[r.ns][t]
    BY <1>2, <1>3 DEF Loose
  <1>5. PICK c : c = [r.count EXCEPT ![r.ns] = row]  OBVIOUS
  <1>6. c \in [Namespaces -> [Songs -> Counts]] /\ c[r.ns] = row
        /\ \A n \in Namespaces : n # r.ns => c[n] = r.count[n]
    BY <1>4, <1>5 DEF Loose
  <1>7. Counted(r, s) = [r EXCEPT !.count = c]
    BY <1>1, <1>3, <1>5 DEF Counted, Loose
  <1>8. Counted(r, s) \in Loose /\ Counted(r, s).ns = r.ns /\ Counted(r, s).last = r.last /\ Counted(r, s).count = c
    BY <1>6, <1>7 DEF Loose
  <1> QED BY <1>1, <1>4, <1>6, <1>8

LEMMA OneMore ==
    ASSUME NEW a, IsFiniteSet(a), NEW p
    PROVE  /\ IsFiniteSet(a \cup {p}) /\ Cardinality(a \cup {p}) \in Nat
           /\ Cardinality(a \cup {p}) <= Cardinality(a) + 1
  <1>1. Cardinality(a) \in Nat
    BY FS_CardinalityType
  <1>2. CASE p \in a
    <2>1. a \cup {p} = a
      BY <1>2
    <2> QED BY <1>1, <2>1
  <1>3. CASE p \notin a
    BY <1>1, <1>3, FS_AddElement
  <1> QED BY <1>2, <1>3

LEMMA CountedNamespace ==
    ASSUME NEW r \in Loose, NEW s
    PROVE  Counted(r, s).ns = r.ns /\ [Counted(r, s) EXCEPT !.last = 0].ns = r.ns
  <1>1. PICK c : c = [r.count EXCEPT ![r.ns][s] = IF @ = NoCount THEN NoCount ELSE @ + 1]  OBVIOUS
  <1>2. Counted(r, s) = [r EXCEPT !.count = c]
    BY <1>1 DEF Counted
  <1> QED BY <1>2 DEF Loose

LEMMA GoodNamed ==
    ASSUME NEW pl, NEW r \in Loose, Good(pl, r)
    PROVE  Good(pl, Named(r))
  <1>1. CASE r.ns # 0
    BY <1>1, NamedFacts DEF Good, Covers, Beyond
  <1>2. CASE r.ns = 0
    <2>1. \A n \in Namespaces : r.count[n] = Unknown
      BY <1>2, BoundAssumption DEF Good, Beyond, Namespaces
    <2>2. Beyond(Named(r))
      BY <2>1, NamedFacts DEF Beyond
    <2>3. Named(r).ns = 1 /\ Named(r).last = r.last /\ Named(r).count = r.count
      BY <1>2, NamedFacts
    <2>4. Covers(pl, Named(r))
      BY <2>1, <2>3, UnknownType DEF Covers
    <2> QED BY <2>2, <2>3, <2>4 DEF Good
  <1> QED BY <1>1, <1>2

\* A namespace that is new holds nothing, whatever the last id is set to.

LEMMA GoodMoved ==
    ASSUME NEW pl, NEW r \in Loose, Good(pl, r), NEW n \in 0..MaxPlay, Closed(pl, n)
    PROVE  Good(pl, [Moved(r) EXCEPT !.last = n])
  <1>1. PICK m : m = Moved(r)  OBVIOUS
  <1>2. m \in Loose /\ m.ns = r.ns + 1 /\ \A k \in Namespaces : m.count[k] \in {r.count[k], Unknown}
    BY <1>1, MovedFacts
  <1>3. PICK x : x = [m EXCEPT !.last = n]  OBVIOUS
  <1>4. x.ns = r.ns + 1 /\ x.last = n /\ x.count = m.count
    BY <1>2, <1>3, LastFacts
  <1>5. \A k \in Namespaces : k > r.ns => x.count[k] = Unknown
    BY <1>2, <1>4 DEF Good, Beyond
  <1>6. r.ns \in Nat /\ r.ns + 1 > r.ns
    BY LooseFields
  <1>7. Covers(pl, x)
    BY <1>4, <1>5, <1>6, UnknownType DEF Covers
  <1>8. Beyond(x)
    BY <1>4, <1>5, <1>6, BoundAssumption DEF Beyond, Namespaces
  <1> QED BY <1>1, <1>3, <1>4, <1>7, <1>8 DEF Good

\* A count that is raised with the next id stays complete.

LEMMA GoodCounted ==
    ASSUME NEW pl, NEW r \in Loose, r.ns \in Namespaces, Good(pl, r), NEW p \in Ids, NEW s \in Songs,
           pl[p].song = s, p <= r.last + 1, Closed(pl, p), NEW n \in 0..MaxPlay,
           n = IF p > r.last THEN p ELSE r.last
    PROVE  Good(pl, [Counted(r, s) EXCEPT !.last = n])
  <1>1. PICK c : c = Counted(r, s)  OBVIOUS
  <1>2. c \in Loose /\ c.ns = r.ns
    BY <1>1, CountedFacts
  <1>3. PICK x : x = [c EXCEPT !.last = n]  OBVIOUS
  <1>4. x.ns = r.ns /\ x.last = n /\ x.count = c.count
    BY <1>2, <1>3, LastFacts
  <1>5. r.last \in Nat /\ p \in Nat
    BY LooseFields, BoundAssumption DEF Ids
  <1>6. Closed(pl, n)
    BY <1>5 DEF Good, Closed
  <1>7. Beyond(x)
    <2>1. \A k \in Namespaces : k > r.ns => c.count[k] = r.count[k]
      BY <1>1, CountedFacts, LooseFields DEF Namespaces
    <2> QED BY <1>4, <2>1 DEF Good, Beyond
  <1>8. ASSUME NEW t \in Songs, x.count[x.ns][t] # NoCount
        PROVE  x.count[x.ns][t] >= Cardinality(Below(pl, t, x.last))
    <2>1. x.count[x.ns][t] = IF t = s /\ r.count[r.ns][s] # NoCount THEN r.count[r.ns][s] + 1 ELSE r.count[r.ns][t]
      BY <1>1, <1>4, CountedFacts
    <2>2. r.count[r.ns][t] # NoCount /\ r.count[r.ns][t] \in Nat
      BY <1>8, <2>1, LooseFields DEF Counts
    <2>3. r.count[r.ns][t] >= Cardinality(Below(pl, t, r.last))
      BY <2>2 DEF Good, Covers
    <2>4. CASE t = s
      <3>1. Below(pl, s, n) \subseteq Below(pl, s, r.last) \cup {p}
        BY <1>5 DEF Below, Ids
      <3>2. Cardinality(Below(pl, s, r.last) \cup {p}) <= Cardinality(Below(pl, s, r.last)) + 1
            /\ IsFiniteSet(Below(pl, s, r.last) \cup {p})
            /\ Cardinality(Below(pl, s, r.last) \cup {p}) \in Nat
        BY BelowFinite, OneMore
      <3>3. Cardinality(Below(pl, s, n)) <= Cardinality(Below(pl, s, r.last) \cup {p})
        BY <3>1, <3>2, SmallerCount
      <3>4. Cardinality(Below(pl, s, n)) \in Nat /\ Cardinality(Below(pl, s, r.last)) \in Nat
        BY BelowFinite
      <3>5. x.count[x.ns][t] = r.count[r.ns][t] + 1
        BY <2>1, <2>2, <2>4
      <3> QED BY <1>4, <2>2, <2>3, <2>4, <3>2, <3>3, <3>4, <3>5
    <2>5. CASE t # s
      <3>1. Below(pl, t, n) \subseteq Below(pl, t, r.last)
        BY <1>5, <2>5 DEF Below, Ids
      <3>2. Cardinality(Below(pl, t, n)) <= Cardinality(Below(pl, t, r.last))
        BY <3>1, BelowFinite, SmallerCount
      <3>3. Cardinality(Below(pl, t, n)) \in Nat /\ Cardinality(Below(pl, t, r.last)) \in Nat
        BY BelowFinite
      <3>4. x.count[x.ns][t] = r.count[r.ns][t]
        BY <2>1, <2>5
      <3> QED BY <1>4, <2>2, <2>3, <3>2, <3>3, <3>4
    <2> QED BY <2>4, <2>5
  <1> QED BY <1>1, <1>3, <1>4, <1>6, <1>7, <1>8 DEF Good, Covers

-----------------------------------------------------------------------------
(* The readers.                                                            *)

\* What a reader will write into the mirror is complete up to its own last id.
Sound(pl, r) ==
    /\ Closed(pl, r.last)
    /\ \A p \in r.settled : p <= r.last
    /\ r.pc \in {"mget", "warm"} => r.ns \in Namespaces
    /\ r.pc = "warm" => \A s \in r.missing :
         r.counts[s] \in Nat /\ r.counts[s] >= Cardinality(Below(pl, s, r.last))

Answered(pl, r, s) == r.counts[s] \in Nat /\ r.counts[s] >= Cardinality(Among(pl, r.settled, s))

\* What a reader has, or will find in the mirror m, has its settled plays.
Answers(pl, m, r) ==
    /\ r.pc = "mget" =>
         /\ m.ns >= r.ns
         /\ m.ns = r.ns => m.last >= r.last
         /\ \A s \in Songs : m.count[r.ns][s] # NoCount =>
              m.count[r.ns][s] >= Cardinality(Among(pl, r.settled, s))
    /\ r.pc = "count" => \A s \in r.ids \ r.missing : Answered(pl, r, s)
    /\ r.pc \in {"warm", "reply"} => \A s \in r.ids : Answered(pl, r, s)

\* A step of the mirror, but for a restart: the namespace goes up, or the last id
\* does; a key that is read may go, grow, or be written completely.
Onward(pl, m, k) ==
    /\ k.ns >= m.ns
    /\ k.ns = m.ns => k.last >= m.last
    /\ \A n \in Namespaces, s \in Songs : n \in Held /\ k.count[n][s] # NoCount =>
         \/ m.count[n][s] # NoCount /\ k.count[n][s] >= m.count[n][s]
         \/ n = m.ns /\ k.count[n][s] >= Cardinality(Below(pl, s, m.last))

LEMMA ReaderFields ==
    ASSUME NEW r \in Reader
    PROVE  /\ r.pc \in {"idle", "ensure", "mget", "count", "warm", "reply"} /\ r.ids \subseteq Songs
           /\ r.ns \in 0..MaxNamespace /\ r.last \in 0..MaxPlay /\ r.counts \in [Songs -> Counts]
           /\ r.missing \subseteq Songs /\ r.settled \subseteq Ids
           /\ \A s \in Songs : r.counts[s] \in Counts
  BY DEF Reader

LEMMA GoodAdvance ==
    ASSUME NEW pl, NEW pm, Advance(pl, pm), NEW r \in Loose, Good(pl, r)
    PROVE  Good(pm, r)
  <1>1. Closed(pm, r.last)
    BY RowsWane DEF Good
  <1>2. ASSUME NEW s \in Songs, r.ns \in Namespaces, r.count[r.ns][s] # NoCount
        PROVE  r.count[r.ns][s] >= Cardinality(Below(pm, s, r.last))
    <2>1. r.count[r.ns][s] >= Cardinality(Below(pl, s, r.last))
      BY <1>2 DEF Good, Covers
    <2>2. Below(pm, s, r.last) \subseteq Below(pl, s, r.last)
      BY RowsWane DEF Good
    <2>3. Cardinality(Below(pm, s, r.last)) <= Cardinality(Below(pl, s, r.last))
      BY <2>2, BelowFinite, SmallerCount
    <2>4. r.count[r.ns][s] \in Nat
      BY <1>2, LooseFields DEF Counts
    <2> QED BY <2>1, <2>3, <2>4, BelowFinite
  <1> QED BY <1>1, <1>2 DEF Good, Covers

LEMMA SoundAdvance ==
    ASSUME NEW pl, NEW pm, Advance(pl, pm), NEW r \in Reader, Sound(pl, r)
    PROVE  Sound(pm, r)
  <1>1. Closed(pm, r.last)
    BY RowsWane DEF Sound
  <1>2. ASSUME NEW s \in r.missing, r.pc = "warm"
        PROVE  r.counts[s] \in Nat /\ r.counts[s] >= Cardinality(Below(pm, s, r.last))
    <2>1. r.counts[s] \in Nat /\ r.counts[s] >= Cardinality(Below(pl, s, r.last))
      BY <1>2 DEF Sound
    <2>2. Below(pm, s, r.last) \subseteq Below(pl, s, r.last)
      BY RowsWane DEF Sound
    <2>3. Cardinality(Below(pm, s, r.last)) <= Cardinality(Below(pl, s, r.last))
      BY <2>2, BelowFinite, SmallerCount
    <2> QED BY <2>1, <2>3, BelowFinite
  <1> QED BY <1>1, <1>2 DEF Sound

LEMMA AnswersAdvance ==
    ASSUME NEW pl, NEW pm, Advance(pl, pm), NEW r \in Reader, Sound(pl, r),
           NEW m \in Loose, Answers(pl, m, r)
    PROVE  Answers(pm, m, r)
  <1>1. ASSUME NEW s
        PROVE  /\ Cardinality(Among(pm, r.settled, s)) <= Cardinality(Among(pl, r.settled, s))
               /\ Cardinality(Among(pm, r.settled, s)) \in Nat /\ Cardinality(Among(pl, r.settled, s)) \in Nat
    <2>1. Among(pm, r.settled, s) \subseteq Among(pl, r.settled, s)
      BY RowsWane DEF Sound
    <2> QED BY <2>1, BelowFinite, SmallerCount
  <1>2. ASSUME NEW s, Answered(pl, r, s)
        PROVE  Answered(pm, r, s)
    BY <1>1, <1>2 DEF Answered
  <1>3. ASSUME NEW s \in Songs, r.pc = "mget", m.count[r.ns][s] # NoCount
        PROVE  m.count[r.ns][s] >= Cardinality(Among(pm, r.settled, s))
    <2>1. m.count[r.ns][s] \in Nat
      BY <1>3, LooseFields DEF Counts, Sound
    <2>2. m.count[r.ns][s] >= Cardinality(Among(pl, r.settled, s))
      BY <1>3 DEF Answers
    <2> QED BY <1>1, <2>1, <2>2
  <1> QED BY <1>2, <1>3 DEF Answers

LEMMA AnswersOnward ==
    ASSUME NEW pl, NEW r \in Reader, Sound(pl, r), r.pc = "mget" => r.ns \in Held,
           NEW m \in Loose, NEW k \in Loose, Answers(pl, m, r), Onward(pl, m, k)
    PROVE  Answers(pl, k, r)
  <1>1. CASE r.pc # "mget"
    BY <1>1 DEF Answers, Answered
  <1>2. CASE r.pc = "mget"
    <2>1. r.ns \in Namespaces /\ r.ns \in Held /\ r.ns \in Nat
      BY <1>2, BoundAssumption DEF Sound, Namespaces
    <2>2. k.ns \in Nat /\ m.ns \in Nat /\ k.last \in Nat /\ m.last \in Nat /\ r.last \in Nat
      BY LooseFields, ReaderFields, BoundAssumption
    <2>3. m.ns >= r.ns /\ (m.ns = r.ns => m.last >= r.last)
      BY <1>2 DEF Answers
    <2>4. k.ns >= r.ns /\ (k.ns = r.ns => k.last >= r.last)
      BY <2>1, <2>2, <2>3 DEF Onward
    <2>5. ASSUME NEW s \in Songs, k.count[r.ns][s] # NoCount
          PROVE  k.count[r.ns][s] >= Cardinality(Among(pl, r.settled, s))
      <3>1. k.count[r.ns][s] \in Nat /\ m.count[r.ns][s] \in Counts
        BY <2>1, <2>5, LooseFields DEF Counts
      <3>2. Cardinality(Among(pl, r.settled, s)) \in Nat /\ Cardinality(Below(pl, s, m.last)) \in Nat
        BY BelowFinite
      <3>3. CASE m.count[r.ns][s] # NoCount /\ k.count[r.ns][s] >= m.count[r.ns][s]
        BY <1>2, <3>1, <3>2, <3>3 DEF Answers, Counts
      <3>4. CASE r.ns = m.ns /\ k.count[r.ns][s] >= Cardinality(Below(pl, s, m.last))
        <4>1. Among(pl, r.settled, s) \subseteq Below(pl, s, m.last)
          <5>1. \A p \in r.settled : p <= r.last /\ p \in Nat
            BY ReaderFields, BoundAssumption DEF Sound, Ids
          <5>2. m.last >= r.last
            BY <2>3, <3>4
          <5> QED BY <2>2, <5>1, <5>2 DEF Among, Below
        <4>2. Cardinality(Among(pl, r.settled, s)) <= Cardinality(Below(pl, s, m.last))
          BY <4>1, BelowFinite, SmallerCount
        <4> QED BY <3>1, <3>2, <3>4, <4>2
      <3> QED BY <2>1, <2>5, <3>3, <3>4 DEF Onward
    <2> QED BY <1>2, <2>4, <2>5 DEF Answers
  <1> QED BY <1>1, <1>2

-----------------------------------------------------------------------------
(* What the scripts do to the mirror.                                      *)

\* As Onward, where no key is written that was not there.
Mild(m, k) ==
    /\ k.ns >= m.ns
    /\ k.ns = m.ns => k.last >= m.last
    /\ \A n \in Namespaces, s \in Songs : n \in Held /\ k.count[n][s] # NoCount =>
         m.count[n][s] # NoCount /\ k.count[n][s] >= m.count[n][s]

LEMMA MildOnward == \A pl, m, k : Mild(m, k) => Onward(pl, m, k)
  BY DEF Mild, Onward

LEMMA MildSame == \A m \in Loose : Mild(m, m)
  <1> SUFFICES ASSUME NEW m \in Loose PROVE Mild(m, m)
    OBVIOUS
  <1>1. m.ns \in Nat /\ m.last \in Nat
    BY LooseFields, BoundAssumption
  <1>2. ASSUME NEW n \in Namespaces, NEW s \in Songs, m.count[n][s] # NoCount
        PROVE  m.count[n][s] >= m.count[n][s]
    <2>1. m.count[n][s] \in Nat
      BY <1>2, LooseFields DEF Counts
    <2> QED BY <2>1
  <1> QED BY <1>1, <1>2 DEF Mild

LEMMA MildTwice ==
    ASSUME NEW a \in Loose, NEW b \in Loose, NEW c \in Loose, Mild(a, b), Mild(b, c)
    PROVE  Mild(a, c)
  <1>1. /\ a.ns \in Nat /\ b.ns \in Nat /\ c.ns \in Nat
        /\ a.last \in Nat /\ b.last \in Nat /\ c.last \in Nat
    BY LooseFields, BoundAssumption
  <1>2. c.ns >= a.ns /\ (c.ns = a.ns => c.last >= a.last)
    BY <1>1 DEF Mild
  <1>3. ASSUME NEW n \in Namespaces, NEW s \in Songs, n \in Held, c.count[n][s] # NoCount
        PROVE  a.count[n][s] # NoCount /\ c.count[n][s] >= a.count[n][s]
    <2>1. b.count[n][s] # NoCount /\ c.count[n][s] >= b.count[n][s]
      BY <1>3 DEF Mild
    <2>2. a.count[n][s] # NoCount /\ b.count[n][s] >= a.count[n][s]
      BY <1>3, <2>1 DEF Mild
    <2>3. a.count[n][s] \in Nat /\ b.count[n][s] \in Nat /\ c.count[n][s] \in Nat
      BY <1>3, <2>1, <2>2, LooseFields DEF Counts
    <2> QED BY <2>1, <2>2, <2>3
  <1> QED BY <1>2, <1>3 DEF Mild

LEMMA MildNamed ==
    ASSUME NEW r \in Loose
    PROVE  Mild(r, Named(r))
  <1>1. Mild(r, r) /\ r.ns \in Nat
    BY MildSame, LooseFields
  <1> QED BY <1>1, NamedFacts DEF Mild

LEMMA MildMoved ==
    ASSUME NEW r \in Loose, NEW n \in 0..MaxPlay
    PROVE  Mild(r, [Moved(r) EXCEPT !.last = n])
  <1>1. PICK m : m = Moved(r)  OBVIOUS
  <1>2. PICK x : x = [m EXCEPT !.last = n]  OBVIOUS
  <1>3. m \in Loose /\ m.ns = r.ns + 1 /\ \A k \in Namespaces : k \in Held => m.count[k] = r.count[k]
    BY <1>1, MovedFacts
  <1>4. x.ns = r.ns + 1 /\ x.count = m.count
    BY <1>2, <1>3, LastFacts
  <1>5. Mild(r, r) /\ r.ns \in Nat
    BY MildSame, LooseFields
  <1>6. Mild(r, x)
    BY <1>3, <1>4, <1>5 DEF Mild
  <1> QED BY <1>1, <1>2, <1>6

LEMMA MildCounted ==
    ASSUME NEW r \in Loose, r.ns \in Namespaces, NEW s \in Songs, NEW n \in 0..MaxPlay, n >= r.last
    PROVE  Mild(r, [Counted(r, s) EXCEPT !.last = n])
  <1>1. PICK c : c = Counted(r, s)  OBVIOUS
  <1>2. PICK x : x = [c EXCEPT !.last = n]  OBVIOUS
  <1>3. c \in Loose /\ c.ns = r.ns
    BY <1>1, CountedFacts
  <1>4. x.ns = r.ns /\ x.last = n /\ x.count = c.count
    BY <1>2, <1>3, LastFacts
  <1>5. Mild(r, r) /\ r.ns \in Nat
    BY MildSame, LooseFields
  <1>6. ASSUME NEW k \in Namespaces, NEW t \in Songs, k \in Held, c.count[k][t] # NoCount
        PROVE  r.count[k][t] # NoCount /\ c.count[k][t] >= r.count[k][t]
    <2>1. CASE k # r.ns
      BY <1>1, <1>5, <1>6, <2>1, CountedFacts DEF Mild
    <2>2. CASE k = r.ns
      <3>1. c.count[k][t] = IF t = s /\ r.count[k][s] # NoCount THEN r.count[k][s] + 1 ELSE r.count[k][t]
        BY <1>1, <2>2, CountedFacts
      <3>2. r.count[k][t] # NoCount
        BY <1>6, <3>1
      <3>3. r.count[k][t] \in Nat
        BY <3>2, LooseFields DEF Counts
      <3> QED BY <3>1, <3>2, <3>3
    <2> QED BY <2>1, <2>2
  <1>7. Mild(r, x)
    BY <1>4, <1>5, <1>6 DEF Mild
  <1> QED BY <1>1, <1>2, <1>7

LEMMA EnsureFacts ==
    ASSUME NEW pl, NEW r \in Loose, Good(pl, r), NEW n \in 0..MaxPlay, Closed(pl, n)
    PROVE  /\ Ensure(r, n) \in Loose /\ Good(pl, Ensure(r, n)) /\ Mild(r, Ensure(r, n))
           /\ Ensure(r, n).ns # 0 /\ Ensure(r, n).last >= n
  <1>1. PICK m : m = Named(r)  OBVIOUS
  <1>2. m \in Loose /\ m.last = r.last /\ m.ns # 0 /\ Good(pl, m) /\ Mild(r, m) /\ m.ns \in Nat
    BY <1>1, NamedFacts, GoodNamed, MildNamed, LooseFields
  <1>3. r.last \in Nat /\ n \in Nat
    BY LooseFields, BoundAssumption
  <1>4. CASE n > r.last
    <2>1. PICK x : x = [Moved(m) EXCEPT !.last = n]  OBVIOUS
    <2>2. x \in Loose /\ x.ns = m.ns + 1 /\ x.last = n
      BY <1>2, <2>1, MovedFacts, LastFacts
    <2>3. Good(pl, x) /\ Mild(m, x)
      BY <1>2, <2>1, GoodMoved, MildMoved
    <2>4. Mild(r, x)
      BY <1>2, <2>2, <2>3, MildTwice
    <2>5. Ensure(r, n) = x
      BY <1>1, <1>4, <2>1 DEF Ensure
    <2> QED BY <1>2, <1>3, <2>2, <2>3, <2>4, <2>5
  <1>5. CASE ~(n > r.last)
    <2>1. Ensure(r, n) = m
      BY <1>1, <1>5 DEF Ensure
    <2> QED BY <1>2, <1>3, <1>5, <2>1
  <1> QED BY <1>4, <1>5

LEMMA RotateFacts ==
    ASSUME NEW pl, NEW r \in Loose, Good(pl, r), NEW n \in 0..MaxPlay, Closed(pl, n)
    PROVE  /\ Rotate(r, n) \in Loose /\ Good(pl, Rotate(r, n)) /\ Mild(r, Rotate(r, n)) /\ Rotate(r, n).ns # 0
  <1>1. PICK x : x = [Moved(r) EXCEPT !.last = n]  OBVIOUS
  <1>2. x \in Loose /\ x.ns = r.ns + 1
    BY <1>1, MovedFacts, LastFacts
  <1>3. Good(pl, x) /\ Mild(r, x) /\ r.ns \in Nat
    BY <1>1, GoodMoved, MildMoved, LooseFields
  <1> QED BY <1>1, <1>2, <1>3 DEF Rotate

LEMMA RecordFacts ==
    ASSUME NEW pl, NEW r \in Loose, Good(pl, r), NEW p \in Ids, NEW s \in Songs, pl[p].song = s,
           Closed(pl, p), InBound(Record(r, p, s))
    PROVE  /\ Record(r, p, s) \in Loose /\ Good(pl, Record(r, p, s)) /\ Mild(r, Record(r, p, s))
           /\ Record(r, p, s).ns # 0
  <1>1. PICK m : m = Named(r)  OBVIOUS
  <1>2. m \in Loose /\ m.last = r.last /\ m.ns # 0 /\ m.ns \in Nat /\ Good(pl, m) /\ Mild(r, m)
    BY <1>1, NamedFacts, GoodNamed, MildNamed, LooseFields
  <1>3. r.last \in 0..MaxPlay /\ p \in 0..MaxPlay /\ r.last \in Nat /\ p \in Nat
    BY LooseFields, BoundAssumption DEF Ids
  <1>4. PICK g : g = IF p > r.last + 1 THEN Moved(m) ELSE m  OBVIOUS
  <1>5. g \in Loose /\ g.last = r.last /\ g.ns # 0 /\ g.ns \in Nat
    BY <1>2, <1>4, MovedFacts
  <1>6. PICK n : n = IF p > r.last THEN p ELSE r.last  OBVIOUS
  <1>7. n \in 0..MaxPlay /\ n >= r.last
    BY <1>3, <1>6
  <1>8. PICK c : c = Counted(g, s)  OBVIOUS
  <1>9. PICK x : x = [c EXCEPT !.last = n]  OBVIOUS
  <1>10. c.ns = g.ns /\ c.last = g.last
    <2>1. PICK k : k = [g.count EXCEPT ![g.ns][s] = IF @ = NoCount THEN NoCount ELSE @ + 1]  OBVIOUS
    <2>2. c = [g EXCEPT !.count = k]
      BY <1>8, <2>1 DEF Counted
    <2> QED BY <1>5, <2>2 DEF Loose
  <1>11. Record(r, p, s) = x
    BY <1>1, <1>4, <1>5, <1>6, <1>8, <1>9, <1>10 DEF Record
  <1>12. x.ns = g.ns
    <2>1. PICK k : k = [g.count EXCEPT ![g.ns][s] = IF @ = NoCount THEN NoCount ELSE @ + 1]  OBVIOUS
    <2>2. x = [g EXCEPT !.count = k, !.last = n]
      BY <1>8, <1>9, <2>1 DEF Counted
    <2> QED BY <1>5, <2>2 DEF Loose
  <1>13. g.ns \in Namespaces
    BY <1>5, <1>11, <1>12, BoundAssumption DEF InBound, Namespaces
  <1>14. c \in Loose /\ x \in Loose
    BY <1>5, <1>7, <1>8, <1>9, <1>13, CountedFacts, LastFacts
  <1>15. Mild(g, x)
    BY <1>5, <1>7, <1>8, <1>9, <1>13, MildCounted
  <1>16. CASE p > r.last + 1
    \* The namespace is new: it has no key to be wrong.
    <2>1. PICK b : b = Moved(m)  OBVIOUS
    <2>2. PICK a : a = [b EXCEPT !.last = r.last]  OBVIOUS
    <2>3. g = b /\ b = a
      <3>1. b \in Loose /\ b.last = r.last
        BY <1>2, <2>1, MovedFacts
      <3> QED BY <1>4, <1>16, <2>1, <2>2, <3>1 DEF Loose
    <2>4. Good(pl, g) /\ Mild(m, g)
      <3>1. Closed(pl, r.last)
        BY DEF Good
      <3> QED BY <1>2, <1>3, <2>1, <2>2, <2>3, <3>1, GoodMoved, MildMoved
    <2>5. Mild(r, x)
      BY <1>2, <1>5, <1>14, <1>15, <2>4, MildTwice
    <2>6. Good(pl, x)
      <3>1. Closed(pl, n)
        BY <1>6, <1>3, <1>16
      <3>2. g.count[g.ns] = Unknown
        BY <1>2, <1>4, <1>13, <1>16, MovedFacts DEF Good, Beyond
      <3>3. \A t \in Songs : x.count[g.ns][t] = NoCount
        BY <1>5, <1>8, <1>9, <1>13, <1>14, <3>2, CountedFacts, LastFacts, UnknownType
      <3>4. \A k \in Namespaces : k # g.ns => x.count[k] = g.count[k]
        BY <1>5, <1>8, <1>9, <1>13, <1>14, CountedFacts, LastFacts
      <3>5. x.last = n
        BY <1>7, <1>9, <1>14, LastFacts
      <3>6. Beyond(x)
        BY <1>12, <2>4, <3>4, BoundAssumption DEF Good, Beyond, Namespaces
      <3> QED BY <1>12, <3>1, <3>3, <3>5, <3>6 DEF Good, Covers
    <2> QED BY <1>5, <1>11, <1>12, <1>14, <2>5, <2>6
  <1>17. CASE ~(p > r.last + 1)
    <2>1. g = m /\ p <= g.last + 1
      BY <1>3, <1>4, <1>5, <1>17
    <2>2. Good(pl, x)
      BY <1>2, <1>5, <1>6, <1>7, <1>8, <1>9, <1>13, <2>1, GoodCounted
    <2>3. Mild(r, x)
      BY <1>2, <1>14, <1>15, <2>1, MildTwice
    <2> QED BY <1>5, <1>11, <1>12, <1>14, <2>2, <2>3
  <1> QED BY <1>16, <1>17

LEMMA WarmedFacts ==
    ASSUME NEW pl, NEW r \in Loose, Good(pl, r), r.ns # 0, NEW d \in Reader, Sound(pl, d), d.pc = "warm"
    PROVE  /\ Warmed(r, d) \in Loose /\ Good(pl, Warmed(r, d)) /\ Onward(pl, r, Warmed(r, d))
           /\ Warmed(r, d).ns = r.ns
  <1>1. CASE ~Coherent(r, d.ns, d.last)
    <2>1. Warmed(r, d) = r
      BY <1>1 DEF Warmed
    <2> QED BY <2>1, MildSame, MildOnward
  <1>2. CASE Coherent(r, d.ns, d.last)
    <2>1. d.ns = r.ns /\ d.last = r.last /\ d.ns \in Namespaces
      BY <1>2, NamedFacts DEF Coherent, Sound
    <2>2. PICK row : row = [s \in Songs |-> IF s \in d.missing THEN d.counts[s] ELSE r.count[d.ns][s]]  OBVIOUS
    <2>3. row \in [Songs -> Counts]
          /\ \A s \in Songs : row[s] = IF s \in d.missing THEN d.counts[s] ELSE r.count[d.ns][s]
      BY <2>1, <2>2, LooseFields, ReaderFields
    <2>4. PICK c : c = [r.count EXCEPT ![d.ns] = row]  OBVIOUS
    <2>5. c \in [Namespaces -> [Songs -> Counts]] /\ c[d.ns] = row
          /\ \A n \in Namespaces : n # d.ns => c[n] = r.count[n]
      BY <2>1, <2>3, <2>4, LooseFields
    <2>6. PICK x : x = [r EXCEPT !.count = c]  OBVIOUS
    <2>7. x \in Loose /\ x.ns = r.ns /\ x.last = r.last /\ x.count = c
      BY <2>5, <2>6 DEF Loose
    <2>8. Warmed(r, d) = x
      BY <1>2, <2>2, <2>4, <2>6 DEF Warmed
    <2>9. ASSUME NEW s \in d.missing
          PROVE  d.counts[s] \in Nat /\ d.counts[s] >= Cardinality(Below(pl, s, r.last))
      BY <2>1 DEF Sound
    <2>10. Covers(pl, x)
      BY <2>1, <2>3, <2>5, <2>7, <2>9 DEF Good, Covers
    <2>11. Beyond(x)
      BY <2>1, <2>5, <2>7, LooseFields, BoundAssumption DEF Good, Beyond, Namespaces
    <2>12. ASSUME NEW n \in Namespaces, NEW s \in Songs, n \in Held, x.count[n][s] # NoCount
           PROVE  \/ r.count[n][s] # NoCount /\ x.count[n][s] >= r.count[n][s]
                  \/ n = r.ns /\ x.count[n][s] >= Cardinality(Below(pl, s, r.last))
      <3>1. CASE n = r.ns /\ s \in d.missing
        BY <2>1, <2>3, <2>5, <2>7, <2>9, <3>1
      <3>2. CASE ~(n = r.ns /\ s \in d.missing)
        <4>1. x.count[n][s] = r.count[n][s]
          BY <2>1, <2>3, <2>5, <2>7, <3>2
        <4>2. r.count[n][s] \in Nat
          BY <2>12, <4>1, LooseFields DEF Counts
        <4> QED BY <2>12, <4>1, <4>2
      <3> QED BY <3>1, <3>2
    <2>13. x.ns >= r.ns /\ x.last >= r.last
      BY <2>7, LooseFields, BoundAssumption
    <2> QED BY <2>7, <2>8, <2>10, <2>11, <2>12, <2>13 DEF Good, Onward
  <1> QED BY <1>1, <1>2

LEMMA ExpiredFacts ==
    ASSUME NEW pl, NEW r \in Loose, Good(pl, r), NEW n \in Namespaces, NEW s \in Songs,
           r.count[n][s] # NoCount
    PROVE  LET x == [r EXCEPT !.count[n][s] = NoCount] IN
             x \in Loose /\ Good(pl, x) /\ Onward(pl, r, x) /\ x.ns = r.ns
  <1>1. PICK row : row = [r.count[n] EXCEPT ![s] = NoCount]  OBVIOUS
  <1>2. row \in [Songs -> Counts] /\ \A t \in Songs : row[t] = IF t = s THEN NoCount ELSE r.count[n][t]
    BY <1>1, LooseFields DEF Counts
  <1>3. PICK c : c = [r.count EXCEPT ![n] = row]  OBVIOUS
  <1>4. c \in [Namespaces -> [Songs -> Counts]] /\ c[n] = row
        /\ \A k \in Namespaces : k # n => c[k] = r.count[k]
    BY <1>2, <1>3, LooseFields
  <1>5. PICK x : x = [r EXCEPT !.count = c]  OBVIOUS
  <1>6. x \in Loose /\ x.ns = r.ns /\ x.last = r.last /\ x.count = c
    BY <1>4, <1>5 DEF Loose
  <1>7. [r EXCEPT !.count[n][s] = NoCount] = x
    BY <1>1, <1>3, <1>5 DEF Loose
  <1>8. \A k \in Namespaces, t \in Songs : x.count[k][t] # NoCount => x.count[k][t] = r.count[k][t]
    BY <1>2, <1>4, <1>6
  <1>9. Covers(pl, x)
    BY <1>6, <1>8 DEF Good, Covers
  <1>10. Beyond(x)
    \* A key that is there is in no namespace to come.
    <2>1. ~(n > r.ns)
      BY UnknownType DEF Good, Beyond
    <2> QED BY <1>4, <1>6, <2>1 DEF Good, Beyond
  <1>11. Mild(r, r)
    BY MildSame
  <1>12. Onward(pl, r, x)
    BY <1>6, <1>8, <1>11 DEF Mild, Onward
  <1> QED BY <1>6, <1>7, <1>9, <1>10, <1>12 DEF Good

-----------------------------------------------------------------------------
(* The inductive invariant.                                                *)

\* Where one play is open at a time, ids end in their order.
Serial(pl) == \A p, q \in Ids : p < q /\ pl[q].life # "unborn" => pl[p].life \in Closing

ReaderInv(pl, m, r) == Sound(pl, r) /\ (r.ns # 0 => m.ns # 0) /\ (crashes = 0 => Answers(pl, m, r))

IInv ==
    /\ Serial(play)
    /\ \A p \in owed : play[p].life \in Closing
    /\ Good(play, redis) /\ Good(play, disk) /\ Closed(play, invalidation.last)
    /\ \A q \in Readers : ReaderInv(play, redis, reader[q])

LEMMA HeldByReader == \A q \in Readers : reader[q].pc = "mget" => reader[q].ns \in Held
  BY DEF Held

LEMMA TypeFields ==
    ASSUME TypeOK
    PROVE  /\ play \in Rows /\ owed \subseteq Ids /\ resent \subseteq owed
           /\ invalidation.pc \in {"idle", "latest", "rotate"} /\ invalidation.last \in 0..MaxPlay
           /\ redis \in Mirror /\ disk \in Mirror /\ redis \in Loose /\ disk \in Loose
           /\ reader \in [Readers -> Reader] /\ crashes \in 0..MaxCrashes
  BY MirrorLoose DEF TypeOK, Rows

LEMMA IdClosed ==
    ASSUME TypeOK, Serial(play), NEW p \in Ids, play[p].life \in Closing
    PROVE  Closed(play, p)
  <1>1. ASSUME NEW o \in Ids, o <= p
        PROVE  play[o].life \in Closing
    <2>1. o \in Nat /\ p \in Nat
      BY BoundAssumption DEF Ids
    <2>2. play[p].life # "unborn"
      BY DEF Closing
    <2>3. o = p \/ o < p
      BY <1>1, <2>1
    <2> QED BY <2>2, <2>3 DEF Serial
  <1> QED BY <1>1 DEF Closed

LEMMA LatestClosed ==
    ASSUME TypeOK, Serial(play), NEW n \in 0..MaxPlay, IsLatest(n)
    PROVE  Closed(play, n)
  <1>1. CASE n \in Committed
    <2>1. n \in Ids /\ play[n].life \in Closing
      BY <1>1 DEF Committed, Closing
    <2> QED BY <2>1, IdClosed
  <1>2. CASE n = 0
    BY <1>2, BoundAssumption DEF Closed, Ids
  <1> QED BY <1>1, <1>2 DEF IsLatest

\* The rows move; the mirror, the file and the readers do not.

LEMMA RowsMove ==
    ASSUME TypeOK, IInv, play' \in Rows, Advance(play, play'), Serial(play'),
           \A p \in owed' : play'[p].life \in Closing, Closed(play', invalidation'.last),
           UNCHANGED <<redis, disk, reader, crashes>>
    PROVE  IInv'
  <1>1. redis \in Loose /\ disk \in Loose /\ \A q \in Readers : reader[q] \in Reader
    BY TypeFields
  <1>2. Good(play', redis) /\ Good(play', disk)
    BY <1>1, GoodAdvance DEF IInv
  <1>3. ASSUME NEW q \in Readers
        PROVE  /\ Sound(play', reader[q]) /\ (reader[q].ns # 0 => redis.ns # 0)
               /\ crashes = 0 => Answers(play', redis, reader[q])
    BY <1>1, SoundAdvance, AnswersAdvance DEF IInv, ReaderInv
  <1> QED BY <1>2, <1>3 DEF IInv, ReaderInv

\* The mirror goes on, and perhaps one reader; the rows do not.

LEMMA MirrorMoves ==
    ASSUME TypeOK, IInv, redis' \in Loose, Good(play, redis'), Onward(play, redis, redis'),
           redis.ns # 0 => redis'.ns # 0,
           UNCHANGED <<play, disk, crashes>>, owed' \subseteq owed, Closed(play, invalidation'.last),
           \A q \in Readers : \/ reader'[q] = reader[q]
                              \/ /\ Sound(play, reader'[q]) /\ (reader'[q].ns # 0 => redis'.ns # 0)
                                 /\ crashes = 0 => Answers(play, redis', reader'[q])
    PROVE  IInv'
  <1>1. redis \in Loose /\ \A q \in Readers : reader[q] \in Reader
    BY TypeFields
  <1>2. ASSUME NEW q \in Readers
        PROVE  /\ Sound(play, reader'[q]) /\ (reader'[q].ns # 0 => redis'.ns # 0)
               /\ crashes = 0 => Answers(play, redis', reader'[q])
    <2>1. CASE reader'[q] = reader[q]
      BY <1>1, <2>1, HeldByReader, AnswersOnward DEF IInv, ReaderInv
    <2> QED BY <2>1
  <1> QED BY <1>2 DEF IInv, ReaderInv

-----------------------------------------------------------------------------
(* Types.                                                                  *)

LEMMA EnsureType ==
    ASSUME NEW r \in Loose, NEW n \in 0..MaxPlay
    PROVE  Ensure(r, n) \in Loose /\ Ensure(r, n).ns # 0
  <1>1. PICK m : m = Named(r)  OBVIOUS
  <1>2. m \in Loose /\ m.ns # 0 /\ m.ns \in Nat
    BY <1>1, NamedFacts, LooseFields
  <1>3. PICK x : x = [Moved(m) EXCEPT !.last = n]  OBVIOUS
  <1>4. x \in Loose /\ x.ns = m.ns + 1
    BY <1>2, <1>3, MovedFacts, LastFacts
  <1>5. Ensure(r, n) = m \/ Ensure(r, n) = x
    BY <1>1, <1>3 DEF Ensure
  <1> QED BY <1>2, <1>4, <1>5

LEMMA RotateType ==
    ASSUME NEW r \in Loose, NEW n \in 0..MaxPlay
    PROVE  Rotate(r, n) \in Loose
  BY MovedFacts, LastFacts DEF Rotate

LEMMA RecordType ==
    ASSUME NEW r \in Loose, NEW p \in Ids, NEW s \in Songs, InBound(Record(r, p, s))
    PROVE  Record(r, p, s) \in Loose
  <1>1. PICK m : m = Named(r)  OBVIOUS
  <1>2. m \in Loose /\ m.last = r.last /\ m.ns # 0 /\ m.ns \in Nat
    BY <1>1, NamedFacts, LooseFields
  <1>3. r.last \in 0..MaxPlay /\ p \in 0..MaxPlay
    BY LooseFields, BoundAssumption DEF Ids
  <1>4. PICK g : g = IF p > r.last + 1 THEN Moved(m) ELSE m  OBVIOUS
  <1>5. g \in Loose /\ g.last = r.last /\ g.ns # 0 /\ g.ns \in Nat
    BY <1>2, <1>4, MovedFacts
  <1>6. PICK n : n = IF p > r.last THEN p ELSE r.last  OBVIOUS
  <1>7. n \in 0..MaxPlay
    BY <1>3, <1>6
  <1>8. PICK k : k = [g.count EXCEPT ![g.ns][s] = IF @ = NoCount THEN NoCount ELSE @ + 1]  OBVIOUS
  <1>9. PICK c : c = Counted(g, s)  OBVIOUS
  <1>10. c = [g EXCEPT !.count = k]
    BY <1>8, <1>9 DEF Counted
  <1>11. c.last = r.last
    BY <1>5, <1>10 DEF Loose
  <1>12. PICK x : x = [c EXCEPT !.last = n]  OBVIOUS
  <1>13. Record(r, p, s) = x
    BY <1>1, <1>4, <1>6, <1>9, <1>11, <1>12 DEF Record
  <1>14. x.ns = g.ns
    BY <1>5, <1>10, <1>12 DEF Loose
  <1>15. g.ns \in Namespaces
    BY <1>5, <1>13, <1>14, BoundAssumption DEF InBound, Namespaces
  <1> QED BY <1>5, <1>7, <1>9, <1>12, <1>13, <1>15, CountedFacts, LastFacts

LEMMA WarmedType ==
    ASSUME NEW r \in Loose, NEW d \in Reader, d.ns \in Namespaces
    PROVE  Warmed(r, d) \in Loose /\ Warmed(r, d).ns = r.ns
  <1>1. PICK row : row = [s \in Songs |-> IF s \in d.missing THEN d.counts[s] ELSE r.count[d.ns][s]]  OBVIOUS
  <1>2. row \in [Songs -> Counts]
    BY <1>1, LooseFields, ReaderFields
  <1>3. PICK c : c = [r.count EXCEPT ![d.ns] = row]  OBVIOUS
  <1>4. c \in [Namespaces -> [Songs -> Counts]]
    BY <1>2, <1>3, LooseFields
  <1>5. PICK x : x = [r EXCEPT !.count = c]  OBVIOUS
  <1>6. x \in Loose /\ x.ns = r.ns
    BY <1>4, <1>5 DEF Loose
  <1>7. Warmed(r, d) = r \/ Warmed(r, d) = x
    BY <1>1, <1>3, <1>5 DEF Warmed
  <1> QED BY <1>6, <1>7

\* A reader that is at the mirror has a namespace.
Placed == \A q \in Readers : reader[q].pc \in {"mget", "warm"} => reader[q].ns \in Namespaces

Typed == TypeOK /\ Placed

IdleReader == Idle \in Reader /\ Idle.pc = "idle" /\ Idle.ns = 0 /\ Idle.last = 0 /\ Idle.settled = {} /\ Idle.ids = {}

LEMMA IdleFacts == IdleReader
  <1>1. {} \in SUBSET Songs /\ {} \in SUBSET Ids /\ 0 \in 0..MaxNamespace /\ 0 \in 0..MaxPlay
    BY BoundAssumption
  <1> QED BY <1>1, UnknownType DEF IdleReader, Idle, Reader

LEMMA ReaderTyped ==
    ASSUME Typed, NEW q \in Readers, NEW r \in Reader, Step(q, r),
           r.pc \in {"mget", "warm"} => r.ns \in Namespaces,
           UNCHANGED <<play, owed, resent, invalidation, disk, crashes>>, redis' \in Mirror
    PROVE  Typed'
  <1>1. reader' \in [Readers -> Reader] /\ reader'[q] = r /\ \A x \in Readers \ {q} : reader'[x] = reader[x]
    BY DEF Step, Typed, TypeOK
  <1>2. Placed'
    BY <1>1 DEF Typed, Placed
  <1> QED BY <1>1, <1>2 DEF Typed, TypeOK

LEMMA CountType == \A s : DbCount(s) \in Nat
  <1>1. ASSUME NEW s PROVE PlaysOf(s) \subseteq Ids
    BY DEF PlaysOf, Committed
  <1>2. IsFiniteSet(Ids)
    BY BoundAssumption, FS_Interval DEF Ids
  <1> QED BY <1>1, <1>2, FS_Subset, FS_CardinalityType DEF DbCount

LEMMA QueryType == \A ids \in Queries : ids \subseteq Songs
  BY QueryAssumption

\* What each step of a reader makes of its record.

LEMMA ReadLatestFacts ==
    ASSUME Typed, NEW q \in Readers, ReadLatest(q)
    PROVE  \E ids \in Queries, n \in 0..MaxPlay, r \in Reader :
             /\ IsLatest(n) /\ Step(q, r) /\ r.pc = "ensure" /\ r.ids = ids /\ r.last = n /\ r.ns = 0
             /\ r.missing = ids /\ r.settled = Committed
  <1>1. PICK ids \in Queries, n \in 0..MaxPlay :
          /\ IsLatest(n)
          /\ Step(q, [Idle EXCEPT !.pc = "ensure", !.ids = ids, !.last = n, !.missing = ids,
                                  !.settled = Committed])
    BY DEF ReadLatest
  <1>2. PICK set : set = Committed  OBVIOUS
  <1>3. PICK r : r = [Idle EXCEPT !.pc = "ensure", !.ids = ids, !.last = n, !.missing = ids, !.settled = set]
    OBVIOUS
  <1>4. set \subseteq Ids /\ ids \subseteq Songs
    BY <1>2, QueryType DEF Committed
  <1>5. r \in Reader /\ r.pc = "ensure" /\ r.ids = ids /\ r.last = n /\ r.ns = 0 /\ r.missing = ids /\ r.settled = set
    BY <1>3, <1>4, IdleFacts DEF IdleReader, Reader
  <1> QED BY <1>1, <1>2, <1>3, <1>5

LEMMA ReadEnsureFacts ==
    ASSUME Typed, NEW q \in Readers, ReadEnsure(q)
    PROVE  \E r \in Reader :
             /\ Step(q, r) /\ r.pc = "mget" /\ r.ns = redis'.ns /\ r.ids = reader[q].ids /\ r.last = reader[q].last
             /\ r.settled = reader[q].settled /\ r.missing = reader[q].missing /\ r.ns \in Namespaces
             /\ redis' \in Mirror
  <1>1. reader[q] \in Reader /\ redis \in Loose /\ reader[q].last \in 0..MaxPlay
    BY TypeFields, ReaderFields DEF Typed
  <1>2. redis' = Ensure(redis, reader[q].last) /\ InBound(redis')
    BY DEF ReadEnsure
  <1>3. redis' \in Loose /\ redis'.ns # 0
    BY <1>1, <1>2, EnsureType
  <1>4. redis' \in Mirror /\ redis'.ns \in Namespaces /\ redis'.ns \in 0..MaxNamespace
    BY <1>2, <1>3, MirrorLoose, LooseFields, BoundAssumption DEF InBound, Namespaces
  <1>5. PICK r : r = [reader[q] EXCEPT !.pc = "mget", !.ns = redis'.ns]  OBVIOUS
  <1>6. r \in Reader /\ r.pc = "mget" /\ r.ns = redis'.ns /\ r.ids = reader[q].ids /\ r.last = reader[q].last
        /\ r.settled = reader[q].settled /\ r.missing = reader[q].missing
    BY <1>1, <1>4, <1>5 DEF Reader
  <1>7. Step(q, r)
    BY <1>5 DEF ReadEnsure
  <1> QED BY <1>4, <1>6, <1>7

LEMMA ReadCachedFacts ==
    ASSUME Typed, NEW q \in Readers, ReadCached(q)
    PROVE  \E r \in Reader :
             /\ Step(q, r) /\ r.ids = reader[q].ids /\ r.last = reader[q].last /\ r.ns = reader[q].ns
             /\ r.settled = reader[q].settled
             /\ r.missing = {s \in r.ids : redis.count[r.ns][s] = NoCount}
             /\ r.pc = IF r.missing = {} THEN "reply" ELSE "count"
             /\ \A s \in r.ids : r.counts[s] = redis.count[r.ns][s]
  <1>1. reader[q] \in Reader /\ redis \in Loose /\ reader[q].ns \in Namespaces
    BY TypeFields DEF Typed, Placed, ReadCached
  <1>2. PICK missing : missing = {s \in reader[q].ids : redis.count[reader[q].ns][s] = NoCount}  OBVIOUS
  <1>3. PICK counts : counts = [s \in Songs |-> IF s \in reader[q].ids THEN redis.count[reader[q].ns][s] ELSE NoCount]
    OBVIOUS
  <1>4. counts \in [Songs -> Counts] /\ missing \subseteq Songs
        /\ \A s \in reader[q].ids : counts[s] = redis.count[reader[q].ns][s]
    BY <1>1, <1>2, <1>3, LooseFields, ReaderFields DEF Counts
  <1>5. PICK r : r = [reader[q] EXCEPT !.pc = IF missing = {} THEN "reply" ELSE "count", !.missing = missing,
                                       !.counts = counts]
    OBVIOUS
  <1>6. r \in Reader /\ r.ids = reader[q].ids /\ r.last = reader[q].last /\ r.ns = reader[q].ns
        /\ r.settled = reader[q].settled /\ r.missing = missing /\ r.counts = counts
        /\ r.pc = IF missing = {} THEN "reply" ELSE "count"
    BY <1>1, <1>4, <1>5 DEF Reader
  <1>7. Step(q, r)
    BY <1>2, <1>3, <1>5 DEF ReadCached
  <1> QED BY <1>2, <1>4, <1>6, <1>7

LEMMA ReadWithoutRedisFacts ==
    ASSUME Typed, NEW q \in Readers, ReadWithoutRedis(q)
    PROVE  \E r \in Reader :
             /\ Step(q, r) /\ r.ids = reader[q].ids /\ r.last = reader[q].last /\ r.ns = 0
             /\ r.settled = reader[q].settled /\ r.missing = r.ids /\ r.pc = "count"
  <1>1. reader[q] \in Reader
    BY TypeFields DEF Typed
  <1>2. PICK r : r = [reader[q] EXCEPT !.pc = "count", !.ns = 0, !.missing = reader[q].ids]  OBVIOUS
  <1>3. r.ids = reader[q].ids /\ r.last = reader[q].last /\ r.ns = 0
        /\ r.settled = reader[q].settled /\ r.missing = r.ids /\ r.pc = "count"
    BY <1>1, <1>2 DEF Reader
  <1>4. 0 \in 0..MaxNamespace /\ reader[q].ids \in SUBSET Songs
    BY <1>1, BoundAssumption DEF Reader
  <1>5. r \in Reader
    BY <1>1, <1>2, <1>4 DEF Reader
  <1> QED BY <1>2, <1>3, <1>5 DEF ReadWithoutRedis

LEMMA ReadDatabaseFacts ==
    ASSUME Typed, NEW q \in Readers, ReadDatabase(q)
    PROVE  \E r \in Reader :
             /\ Step(q, r) /\ r.ids = reader[q].ids /\ r.last = reader[q].last /\ r.ns = reader[q].ns
             /\ r.settled = reader[q].settled /\ r.missing = reader[q].missing
             /\ r.pc = IF r.ns = 0 THEN "reply" ELSE "warm"
             /\ \A s \in Songs : r.counts[s] = IF s \in r.missing THEN DbCount(s) ELSE reader[q].counts[s]
  <1>1. reader[q] \in Reader
    BY TypeFields DEF Typed
  <1>2. PICK counts : counts = [s \in Songs |-> IF s \in reader[q].missing THEN DbCount(s) ELSE reader[q].counts[s]]
    OBVIOUS
  <1>3. counts \in [Songs -> Counts]
        /\ \A s \in Songs : counts[s] = IF s \in reader[q].missing THEN DbCount(s) ELSE reader[q].counts[s]
    BY <1>1, <1>2, CountType, ReaderFields DEF Counts
  <1>4. PICK r : r = [reader[q] EXCEPT !.pc = IF reader[q].ns = 0 THEN "reply" ELSE "warm", !.counts = counts]
    OBVIOUS
  <1>5. r \in Reader /\ r.ids = reader[q].ids /\ r.last = reader[q].last /\ r.ns = reader[q].ns
        /\ r.settled = reader[q].settled /\ r.missing = reader[q].missing /\ r.counts = counts
        /\ r.pc = IF reader[q].ns = 0 THEN "reply" ELSE "warm"
    BY <1>1, <1>3, <1>4 DEF Reader
  <1>6. Step(q, r)
    BY <1>2, <1>4 DEF ReadDatabase
  <1> QED BY <1>3, <1>5, <1>6

LEMMA ReadWarmFacts ==
    ASSUME Typed, NEW q \in Readers, ReadWarm(q)
    PROVE  \E r \in Reader :
             /\ Step(q, r) /\ r.ids = reader[q].ids /\ r.last = reader[q].last /\ r.ns = reader[q].ns
             /\ r.settled = reader[q].settled /\ r.missing = reader[q].missing /\ r.counts = reader[q].counts
             /\ r.pc = "reply"
             /\ redis' \in {redis, Warmed(redis, reader[q])} /\ redis' \in Mirror
  <1>1. reader[q] \in Reader /\ reader[q].ns \in Namespaces /\ redis \in Loose /\ redis \in Mirror
    BY TypeFields DEF Typed, Placed, ReadWarm
  <1>2. PICK r : r = [reader[q] EXCEPT !.pc = "reply"]  OBVIOUS
  <1>3. r \in Reader /\ r.ids = reader[q].ids /\ r.last = reader[q].last /\ r.ns = reader[q].ns
        /\ r.settled = reader[q].settled /\ r.missing = reader[q].missing /\ r.counts = reader[q].counts
        /\ r.pc = "reply"
    BY <1>1, <1>2 DEF Reader
  <1>4. Step(q, r) /\ redis' \in {redis, Warmed(redis, reader[q])}
    BY <1>2 DEF ReadWarm
  <1>5. Warmed(redis, reader[q]) \in Loose /\ Warmed(redis, reader[q]).ns = redis.ns
    BY <1>1, WarmedType
  <1>6. InBound(Warmed(redis, reader[q]))
    BY <1>1, <1>5, BoundAssumption DEF InBound, Mirror
  <1>7. redis' \in Mirror
    BY <1>1, <1>4, <1>5, <1>6, MirrorLoose
  <1> QED BY <1>3, <1>4, <1>7

LEMMA ReadReplyFacts ==
    ASSUME Typed, NEW q \in Readers, ReadReply(q)
    PROVE  Step(q, Idle) /\ Idle \in Reader
  BY IdleFacts DEF ReadReply, IdleReader

ReaderNext(q) == \/ ReadLatest(q) \/ ReadEnsure(q) \/ ReadCached(q) \/ ReadWithoutRedis(q)
                 \/ ReadDatabase(q) \/ ReadWarm(q) \/ ReadReply(q)

LEMMA ReaderTypes ==
    ASSUME Typed, NEW q \in Readers, ReaderNext(q)
    PROVE  Typed'
  <1>1. UNCHANGED <<play, owed, resent, invalidation, disk, crashes>>
    BY DEF ReaderNext, ReadLatest, ReadEnsure, ReadCached, ReadWithoutRedis, ReadDatabase, ReadWarm, ReadReply
  <1>2. reader[q].pc = "warm" => reader[q].ns \in Namespaces
    BY DEF Typed, Placed
  <1>3. reader[q] \in Reader /\ redis \in Mirror
    BY TypeFields DEF Typed
  <1>4. reader[q].ns # 0 => reader[q].ns \in Namespaces
    BY <1>3, ReaderFields, BoundAssumption DEF Namespaces
  <1>5. CASE ReadLatest(q)
    <2>1. PICK r \in Reader : Step(q, r) /\ r.pc = "ensure"
      BY <1>5, ReadLatestFacts
    <2> QED BY <1>1, <1>3, <1>5, <2>1, ReaderTyped DEF ReadLatest
  <1>6. CASE ReadEnsure(q)
    <2>1. PICK r \in Reader : Step(q, r) /\ r.ns \in Namespaces /\ redis' \in Mirror
      BY <1>6, ReadEnsureFacts
    <2> QED BY <1>1, <2>1, ReaderTyped
  <1>7. CASE ReadCached(q)
    <2>1. PICK r \in Reader : Step(q, r) /\ r.pc \in {"reply", "count"}
      BY <1>7, ReadCachedFacts
    <2> QED BY <1>1, <1>3, <1>7, <2>1, ReaderTyped DEF ReadCached
  <1>8. CASE ReadWithoutRedis(q)
    <2>1. PICK r \in Reader : Step(q, r) /\ r.pc = "count"
      BY <1>8, ReadWithoutRedisFacts
    <2> QED BY <1>1, <1>3, <1>8, <2>1, ReaderTyped DEF ReadWithoutRedis
  <1>9. CASE ReadDatabase(q)
    <2>1. PICK r \in Reader : Step(q, r) /\ r.ns = reader[q].ns /\ r.pc = IF r.ns = 0 THEN "reply" ELSE "warm"
      BY <1>9, ReadDatabaseFacts
    <2> QED BY <1>1, <1>3, <1>4, <1>9, <2>1, ReaderTyped DEF ReadDatabase
  <1>10. CASE ReadWarm(q)
    <2>1. PICK r \in Reader : Step(q, r) /\ r.pc = "reply" /\ redis' \in Mirror
      BY <1>10, ReadWarmFacts
    <2> QED BY <1>1, <2>1, ReaderTyped
  <1>11. CASE ReadReply(q)
    <2>1. Step(q, Idle) /\ Idle \in Reader /\ Idle.pc = "idle"
      BY <1>11, ReadReplyFacts, IdleFacts DEF IdleReader
    <2> QED BY <1>1, <1>3, <1>11, <2>1, ReaderTyped DEF ReadReply
  <1> QED BY <1>5, <1>6, <1>7, <1>8, <1>9, <1>10, <1>11 DEF ReaderNext

LEMMA LifeSteps ==
    ASSUME TypeOK, NEW p \in Ids, NEW l \in {"unborn", "open", "committed", "gone"}
    PROVE  /\ [play EXCEPT ![p].life = l] \in Rows
           /\ [play EXCEPT ![p].life = l][p].life = l
           /\ [play EXCEPT ![p].life = l][p].song = play[p].song
           /\ \A o \in Ids \ {p} : [play EXCEPT ![p].life = l][o] = play[o]
  <1>1. play \in Rows
    BY TypeFields
  <1>2. PICK r : r = [play[p] EXCEPT !.life = l]  OBVIOUS
  <1>3. r \in [life : {"unborn", "open", "committed", "gone"}, song : Songs] /\ r.life = l /\ r.song = play[p].song
    BY <1>1, <1>2 DEF Rows
  <1>4. [play EXCEPT ![p].life = l] = [play EXCEPT ![p] = r]
    BY <1>2
  <1> QED BY <1>1, <1>3, <1>4 DEF Rows

LEMMA TypeStep ==
    ASSUME Typed, [Next]_vars
    PROVE  Typed'
  <1>1. CASE UNCHANGED vars
    BY <1>1 DEF vars, Typed, TypeOK, Placed
  <1>2. CASE \E q \in Readers : ReaderNext(q)
    BY <1>2, ReaderTypes
  <1>3. ASSUME UNCHANGED <<redis, disk, reader, crashes>>, play' \in Rows, owed' \subseteq Ids, resent' \subseteq owed',
               invalidation' \in [pc : {"idle", "latest", "rotate"}, last : 0..MaxPlay]
        PROVE  Typed'
    BY <1>3 DEF Typed, TypeOK, Placed, Rows
  <1>4. CASE PlayInsert
    <2>1. PICK p \in Unborn, s \in Songs : play' = [play EXCEPT ![p] = [life |-> "open", song |-> s]]
      BY <1>4 DEF PlayInsert
    <2>2. play' \in Rows
      BY <2>1, TypeFields DEF Typed, Rows, Unborn
    <2> QED BY <1>3, <1>4, <2>2 DEF PlayInsert, Typed, TypeOK
  <1>5. CASE PlayCommit
    <2>1. PICK p \in Open : play' = [play EXCEPT ![p].life = "committed"] /\ owed' = owed \cup {p}
      BY <1>5 DEF PlayCommit
    <2>2. p \in Ids
      BY DEF Open
    <2>3. play' \in Rows
      BY <2>1, <2>2, LifeSteps DEF Typed
    <2> QED BY <1>3, <1>5, <2>1, <2>2, <2>3 DEF PlayCommit, Typed, TypeOK
  <1>6. CASE PlayRollback
    <2>1. PICK p \in Open : play' = [play EXCEPT ![p].life = "gone"]
      BY <1>6 DEF PlayRollback
    <2>2. p \in Ids
      BY DEF Open
    <2>3. play' \in Rows
      BY <2>1, <2>2, LifeSteps DEF Typed
    <2> QED BY <1>3, <1>6, <2>3 DEF PlayRollback, Typed, TypeOK
  <1>7. CASE PlayDelete
    <2>1. PICK p \in Committed : play' = [play EXCEPT ![p].life = "gone"]
      BY <1>7 DEF PlayDelete
    <2>2. p \in Ids
      BY DEF Committed
    <2>3. play' \in Rows
      BY <2>1, <2>2, LifeSteps DEF Typed
    <2>4. invalidation' \in [pc : {"idle", "latest", "rotate"}, last : 0..MaxPlay]
      BY <1>7 DEF PlayDelete, Typed, TypeOK
    <2> QED BY <1>3, <1>7, <2>3, <2>4 DEF PlayDelete, Typed, TypeOK
  <1>8. CASE RecordPlay
    <2>1. PICK p \in owed : InBound(Record(redis, p, play[p].song)) /\ redis' = Record(redis, p, play[p].song)
                            /\ owed' \subseteq owed /\ resent' \subseteq owed'
      BY <1>8 DEF RecordPlay, Typed, TypeOK
    <2>2. p \in Ids /\ play[p].song \in Songs /\ redis \in Loose
      BY TypeFields DEF Typed, Rows
    <2>3. redis' \in Mirror
      BY <2>1, <2>2, RecordType, MirrorLoose
    <2> QED BY <1>8, <2>1, <2>3 DEF RecordPlay, Typed, TypeOK, Placed
  <1>9. CASE RecordLost
    BY <1>9 DEF RecordLost, Typed, TypeOK, Placed
  <1>10. CASE InvalidateRead
    BY <1>10 DEF InvalidateRead, Typed, TypeOK, Placed
  <1>11. CASE InvalidateRotate
    <2>1. redis \in Loose /\ invalidation.last \in 0..MaxPlay
      BY TypeFields DEF Typed
    <2>2. redis' \in Mirror
      BY <1>11, <2>1, RotateType, MirrorLoose DEF InvalidateRotate
    <2>3. Quiet \in [pc : {"idle", "latest", "rotate"}, last : 0..MaxPlay]
      BY BoundAssumption DEF Quiet
    <2> QED BY <1>11, <2>2, <2>3 DEF InvalidateRotate, Typed, TypeOK, Placed
  <1>12. CASE InvalidateLost
    <2>1. Quiet \in [pc : {"idle", "latest", "rotate"}, last : 0..MaxPlay]
      BY BoundAssumption DEF Quiet
    <2> QED BY <1>12, <2>1 DEF InvalidateLost, Typed, TypeOK, Placed
  <1>13. CASE Expire
    <2>1. PICK n \in Namespaces, s \in Songs : redis' = [redis EXCEPT !.count[n][s] = NoCount]
      BY <1>13 DEF Expire
    <2>2. redis' \in Mirror
      <3>1. redis \in Mirror
        BY TypeFields DEF Typed
      <3>2. PICK c : c = [redis.count EXCEPT ![n][s] = NoCount]  OBVIOUS
      <3>3. c \in [Namespaces -> [Songs -> Counts]]
        BY <3>1, <3>2 DEF Mirror, Counts
      <3>4. redis' = [redis EXCEPT !.count = c]
        BY <2>1, <3>2
      <3> QED BY <3>1, <3>3, <3>4 DEF Mirror
    <2> QED BY <1>13, <2>2 DEF Expire, Typed, TypeOK, Placed
  <1>14. CASE Fsync \/ Crash
    BY <1>14, BoundAssumption DEF Fsync, Crash, Typed, TypeOK, Placed
  <1> QED
    BY <1>1, <1>2, <1>4, <1>5, <1>6, <1>7, <1>8, <1>9, <1>10, <1>11, <1>12, <1>13, <1>14
       DEF Next, ReaderNext

-----------------------------------------------------------------------------
(* Each step keeps the invariant, where one play is open at a time.        *)

LEMMA AdvanceOne ==
    ASSUME play \in Rows, NEW p \in Ids, NEW pm, \A o \in Ids \ {p} : pm[o] = play[o],
           \/ play[p].life \notin Closing
           \/ pm[p].life = "gone" /\ pm[p].song = play[p].song
    PROVE  Advance(play, pm)
  <1>1. ASSUME NEW o \in Ids, play[o].life \in Closing
        PROVE  /\ pm[o].life \in Closing /\ pm[o].song = play[o].song
               /\ pm[o].life = "committed" => play[o].life = "committed"
    <2>1. CASE o # p
      BY <1>1, <2>1
    <2>2. CASE o = p
      BY <1>1, <2>2 DEF Closing
    <2> QED BY <2>1, <2>2
  <1> QED BY <1>1 DEF Advance

LEMMA SerialOne ==
    ASSUME Serial(play), NEW p \in Ids, NEW pm, \A o \in Ids \ {p} : pm[o] = play[o],
           pm[p].life \in Closing, play[p].life # "unborn"
    PROVE  Serial(pm)
  <1> SUFFICES ASSUME NEW a \in Ids, NEW b \in Ids, a < b, pm[b].life # "unborn"
               PROVE  pm[a].life \in Closing
    BY DEF Serial
  <1>1. play[b].life # "unborn"
    BY DEF Closing
  <1>2. play[a].life \in Closing
    BY <1>1 DEF Serial
  <1> QED BY <1>2

\* The plays whose callback is to come ended, and are not the row that moves on.

LEMMA InsertStep ==
    ASSUME TypeOK, IInv, PlayInsert, MaxOpen = 1
    PROVE  IInv'
  <1>1. PICK p \in Unborn, s \in Songs :
          /\ \A o \in Unborn : p <= o
          /\ Cardinality(Open) < MaxOpen
          /\ play' = [play EXCEPT ![p] = [life |-> "open", song |-> s]]
    BY DEF PlayInsert
  <1>2. p \in Ids /\ play[p].life = "unborn" /\ play \in Rows
    BY TypeFields DEF Unborn
  <1>3. play' \in Rows /\ play'[p].life = "open" /\ \A o \in Ids \ {p} : play'[o] = play[o]
    BY <1>1, <1>2 DEF Rows
  <1>4. Open = {}
    <2>1. IsFiniteSet(Open)
      <3>1. Open \subseteq Ids /\ IsFiniteSet(Ids)
        BY BoundAssumption, FS_Interval DEF Open, Ids
      <3> QED BY <3>1, FS_Subset
    <2>2. Cardinality(Open) \in Nat /\ Cardinality(Open) < 1
      BY <1>1, <2>1, FS_CardinalityType
    <2>3. Cardinality(Open) = 0
      BY <2>2
    <2> QED BY <2>1, <2>3, FS_EmptySet
  <1>5. Advance(play, play')
    BY <1>2, <1>3, AdvanceOne DEF Closing
  <1>6. Serial(play')
    <2> SUFFICES ASSUME NEW a \in Ids, NEW b \in Ids, a < b, play'[b].life # "unborn"
                 PROVE  play'[a].life \in Closing
      BY DEF Serial
    <2>1. a \in Nat /\ b \in Nat /\ p \in Nat
      BY <1>2, BoundAssumption DEF Ids
    <2>2. CASE b # p
      <3>1. play[b].life # "unborn"
        BY <1>3, <2>2
      <3>2. play[a].life \in Closing
        BY <3>1 DEF IInv, Serial
      <3> QED BY <1>2, <1>3, <3>2 DEF Closing
    <2>3. CASE b = p
      <3>1. a # p /\ a \notin Unborn
        BY <1>1, <2>1, <2>3
      <3>2. play[a].life \in {"unborn", "open", "committed", "gone"}
        BY <1>2 DEF Rows
      <3> QED BY <1>3, <1>4, <3>1, <3>2 DEF Unborn, Open, Closing
    <2> QED BY <2>2, <2>3
  <1>7. \A o \in owed' : play'[o].life \in Closing
    <2>1. \A o \in owed : o # p /\ o \in Ids
      BY <1>2, TypeFields DEF IInv, Closing
    <2> QED BY <1>3, <2>1 DEF IInv, PlayInsert
  <1>8. Closed(play', invalidation'.last)
    BY <1>5, RowsWane DEF IInv, PlayInsert
  <1> QED BY <1>3, <1>5, <1>6, <1>7, <1>8, RowsMove DEF PlayInsert

LEMMA EndStep ==
    ASSUME TypeOK, IInv, PlayCommit \/ PlayRollback \/ PlayDelete
    PROVE  IInv'
  <1>1. PICK p \in Open \cup Committed, l \in {"committed", "gone"} :
          play' = [play EXCEPT ![p].life = l] /\ (p \in Committed => l = "gone") /\ owed' \subseteq owed \cup {p}
    BY DEF PlayCommit, PlayRollback, PlayDelete, Open, Committed
  <1>2. p \in Ids /\ play \in Rows /\ play[p].life \in {"open", "committed"}
    BY TypeFields DEF Open, Committed
  <1>3. play' \in Rows /\ play'[p].life = l /\ play'[p].song = play[p].song
        /\ \A o \in Ids \ {p} : play'[o] = play[o]
    <2>1. PICK r : r = [play[p] EXCEPT !.life = l]  OBVIOUS
    <2>2. r \in [life : {"unborn", "open", "committed", "gone"}, song : Songs] /\ r.life = l /\ r.song = play[p].song
      BY <1>2, <2>1 DEF Rows
    <2>3. play' = [play EXCEPT ![p] = r]
      BY <1>1, <2>1
    <2> QED BY <1>2, <2>2, <2>3 DEF Rows
  <1>4. Advance(play, play')
    <2>1. play[p].life \notin Closing \/ play'[p].life = "gone"
      BY <1>1, <1>2, <1>3 DEF Committed, Closing
    <2> QED BY <1>2, <1>3, <2>1, AdvanceOne
  <1>5. Serial(play')
    BY <1>2, <1>3, SerialOne DEF IInv, Closing
  <1>6. \A o \in owed' : play'[o].life \in Closing
    BY <1>1, <1>3, TypeFields DEF IInv, Closing
  <1>7. invalidation'.last = invalidation.last
    BY TypeFields DEF PlayCommit, PlayRollback, PlayDelete, TypeOK
  <1>8. Closed(play', invalidation'.last)
    BY <1>4, <1>7, RowsWane DEF IInv
  <1>9. UNCHANGED <<redis, disk, reader, crashes>>
    BY DEF PlayCommit, PlayRollback, PlayDelete
  <1> QED BY <1>3, <1>4, <1>5, <1>6, <1>8, <1>9, RowsMove

LEMMA CallbackStep ==
    ASSUME TypeOK, IInv, RecordPlay \/ RecordLost
    PROVE  IInv'
  <1>1. redis \in Loose /\ Good(play, redis) /\ Closed(play, invalidation.last)
    BY TypeFields DEF IInv
  <1>2. CASE RecordLost
    <2>1. redis' = redis /\ Onward(play, redis, redis)
      BY <1>1, <1>2, MildSame, MildOnward DEF RecordLost
    <2> QED BY <1>1, <1>2, <2>1, MirrorMoves DEF RecordLost
  <1>3. CASE RecordPlay
    <2>1. PICK p \in owed : InBound(Record(redis, p, play[p].song)) /\ redis' = Record(redis, p, play[p].song)
      BY <1>3 DEF RecordPlay
    <2>2. p \in Ids /\ play[p].song \in Songs /\ play[p].life \in Closing
      BY TypeFields DEF IInv, Rows
    <2>3. Closed(play, p)
      BY <2>2, IdClosed DEF IInv
    <2>4. redis' \in Loose /\ Good(play, redis') /\ Mild(redis, redis') /\ redis'.ns # 0
      BY <1>1, <2>1, <2>2, <2>3, RecordFacts
    <2>5. Onward(play, redis, redis')
      BY <2>4, MildOnward
    <2>6. owed' \subseteq owed
      BY <1>3 DEF RecordPlay
    <2>7. UNCHANGED <<play, invalidation, disk, reader, crashes>>
      BY <1>3 DEF RecordPlay
    <2> QED BY <1>1, <2>4, <2>5, <2>6, <2>7, MirrorMoves
  <1> QED BY <1>2, <1>3

LEMMA InvalidateStep ==
    ASSUME TypeOK, IInv, InvalidateRead \/ InvalidateRotate \/ InvalidateLost
    PROVE  IInv'
  <1>1. redis \in Loose /\ Good(play, redis) /\ invalidation.last \in 0..MaxPlay
        /\ Closed(play, invalidation.last)
    BY TypeFields DEF IInv
  <1>2. Onward(play, redis, redis)
    BY <1>1, MildSame, MildOnward
  <1>3. Closed(play, Quiet.last)
    BY BoundAssumption DEF Closed, Quiet, Ids
  <1>4. CASE InvalidateRead
    <2>1. PICK n \in 0..MaxPlay : IsLatest(n) /\ invalidation' = [pc |-> "rotate", last |-> n]
      BY <1>4 DEF InvalidateRead
    <2>2. Closed(play, n)
      BY <2>1, LatestClosed DEF IInv
    <2>3. invalidation'.last = n
      BY <2>1
    <2> QED BY <1>1, <1>2, <1>4, <2>2, <2>3, MirrorMoves DEF InvalidateRead
  <1>5. CASE InvalidateRotate
    <2>1. redis' = Rotate(redis, invalidation.last) /\ invalidation' = Quiet
      BY <1>5 DEF InvalidateRotate
    <2>2. redis' \in Loose /\ Good(play, redis') /\ Mild(redis, redis') /\ redis'.ns # 0
      BY <1>1, <2>1, RotateFacts
    <2>3. Onward(play, redis, redis')
      BY <2>2, MildOnward
    <2> QED BY <1>3, <1>5, <2>1, <2>2, <2>3, MirrorMoves DEF InvalidateRotate
  <1>6. CASE InvalidateLost
    BY <1>1, <1>2, <1>3, <1>6, MirrorMoves DEF InvalidateLost
  <1> QED BY <1>4, <1>5, <1>6

LEMMA ServerStep ==
    ASSUME TypeOK, IInv, Expire \/ Fsync \/ Crash
    PROVE  IInv'
  <1>1. redis \in Loose /\ disk \in Loose /\ Good(play, redis) /\ Good(play, disk)
        /\ Closed(play, invalidation.last)
    BY TypeFields DEF IInv
  <1>2. CASE Expire
    <2>1. PICK n \in Namespaces, s \in Songs :
            redis.count[n][s] # NoCount /\ redis' = [redis EXCEPT !.count[n][s] = NoCount]
      BY <1>2 DEF Expire
    <2>2. redis' \in Loose /\ Good(play, redis') /\ Onward(play, redis, redis') /\ redis'.ns = redis.ns
      BY <1>1, <2>1, ExpiredFacts
    <2> QED BY <1>1, <1>2, <2>2, MirrorMoves DEF Expire
  <1>3. CASE Fsync
    \* Only the file changes.
    <2>1. UNCHANGED <<play, owed, invalidation, redis, reader, crashes>> /\ disk' = redis
      BY <1>3 DEF Fsync
    <2> QED BY <2>1 DEF IInv, ReaderInv
  <1>4. CASE Crash
    <2>1. UNCHANGED <<play, owed, invalidation, disk, reader>> /\ redis' = disk /\ redis'.ns # 0
          /\ crashes' = crashes + 1
      BY <1>4 DEF Crash
    <2>2. crashes' # 0
      BY <2>1, TypeFields, BoundAssumption
    <2> QED BY <2>1, <2>2 DEF IInv, ReaderInv
  <1> QED BY <1>2, <1>3, <1>4
\* A step of one reader, and what it does to the mirror.

LEMMA ReaderMoves ==
    ASSUME Typed, IInv, NEW q \in Readers, NEW r, Step(q, r),
           redis' \in Loose, Good(play, redis'), Onward(play, redis, redis'), redis.ns # 0 => redis'.ns # 0,
           UNCHANGED <<play, owed, invalidation, disk, crashes>>,
           Sound(play, r), r.ns # 0 => redis'.ns # 0, crashes = 0 => Answers(play, redis', r)
    PROVE  IInv'
  <1>1. reader' = [reader EXCEPT ![q] = r]
    BY DEF Step
  <1>2. \A x \in Readers : reader'[x] = IF x = q THEN r ELSE reader[x]
    BY <1>1 DEF Typed, TypeOK
  <1>3. \A x \in Readers : \/ reader'[x] = reader[x]
                           \/ /\ Sound(play, reader'[x]) /\ (reader'[x].ns # 0 => redis'.ns # 0)
                              /\ crashes = 0 => Answers(play, redis', reader'[x])
    BY <1>2
  <1>4. Closed(play, invalidation'.last)
    BY DEF IInv
  <1> QED BY <1>3, <1>4, MirrorMoves DEF Typed

\* The same where the mirror stays.

LEMMA ReaderAlone ==
    ASSUME Typed, IInv, NEW q \in Readers, NEW r, Step(q, r),
           UNCHANGED <<play, owed, invalidation, redis, disk, crashes>>,
           Sound(play, r), r.ns # 0 => redis.ns # 0, crashes = 0 => Answers(play, redis, r)
    PROVE  IInv'
  <1>1. redis \in Loose /\ Good(play, redis)
    BY TypeFields DEF Typed, IInv
  <1>2. Onward(play, redis, redis)
    BY <1>1, MildSame, MildOnward
  <1>3. redis' = redis
    OBVIOUS
  <1> QED BY <1>1, <1>2, <1>3, ReaderMoves

\* The plays of a song up to an id, and those of a set of ids, are its plays.

LEMMA DbCounts ==
    ASSUME NEW s, NEW n
    PROVE  DbCount(s) \in Nat /\ DbCount(s) >= Cardinality(Below(play, s, n))
           /\ DbCount(s) >= Cardinality(Among(play, n, s))
  <1>1. Below(play, s, n) \subseteq PlaysOf(s) /\ Among(play, n, s) \subseteq PlaysOf(s)
    BY DEF Below, Among, PlaysOf, Committed
  <1>2. IsFiniteSet(PlaysOf(s))
    <2>1. PlaysOf(s) \subseteq Ids /\ IsFiniteSet(Ids)
      BY BoundAssumption, FS_Interval DEF PlaysOf, Committed, Ids
    <2> QED BY <2>1, FS_Subset
  <1>3. Cardinality(Below(play, s, n)) <= DbCount(s) /\ Cardinality(Among(play, n, s)) <= DbCount(s)
    BY <1>1, <1>2, SmallerCount DEF DbCount
  <1> QED BY <1>3, CountType, BelowFinite

\* Where what a reader saw as settled ends at its last id, a complete count has it.

LEMMA SettledBelow ==
    ASSUME NEW r \in Reader, \A p \in r.settled : p <= r.last, NEW n \in 0..MaxPlay, r.last <= n, NEW s
    PROVE  Cardinality(Among(play, r.settled, s)) <= Cardinality(Below(play, s, n))
  <1>1. r.last \in Nat /\ n \in Nat /\ \A p \in r.settled : p \in Nat /\ p <= r.last
    BY ReaderFields, BoundAssumption DEF Ids
  <1>2. Among(play, r.settled, s) \subseteq Below(play, s, n)
    BY <1>1 DEF Among, Below
  <1> QED BY <1>2, BelowFinite, SmallerCount

LEMMA LatestStep ==
    ASSUME Typed, IInv, NEW q \in Readers, ReadLatest(q)
    PROVE  IInv'
  <1>1. PICK ids \in Queries, n \in 0..MaxPlay, r \in Reader :
          /\ IsLatest(n) /\ Step(q, r) /\ r.pc = "ensure" /\ r.ids = ids /\ r.last = n /\ r.ns = 0
          /\ r.missing = ids /\ r.settled = Committed
    BY ReadLatestFacts
  <1>2. Closed(play, n)
    BY <1>1, LatestClosed DEF IInv, Typed
  <1>3. \A p \in r.settled : p <= r.last
    BY <1>1 DEF IsLatest
  <1>4. Sound(play, r) /\ Answers(play, redis, r)
    BY <1>1, <1>2, <1>3 DEF Sound, Answers
  <1> QED BY <1>1, <1>4, ReaderAlone DEF ReadLatest

LEMMA EnsureStep ==
    ASSUME Typed, IInv, NEW q \in Readers, ReadEnsure(q)
    PROVE  IInv'
  <1>1. PICK r \in Reader :
          /\ Step(q, r) /\ r.pc = "mget" /\ r.ns = redis'.ns /\ r.ids = reader[q].ids /\ r.last = reader[q].last
          /\ r.settled = reader[q].settled /\ r.missing = reader[q].missing /\ r.ns \in Namespaces
          /\ redis' \in Mirror
    BY ReadEnsureFacts
  <1>2. redis \in Loose /\ Good(play, redis) /\ Sound(play, reader[q])
    BY TypeFields DEF Typed, IInv, ReaderInv
  <1>3. r.last \in 0..MaxPlay /\ Closed(play, r.last) /\ \A p \in r.settled : p <= r.last
    BY <1>1, <1>2, ReaderFields DEF Sound
  <1>4. redis' = Ensure(redis, r.last)
    BY <1>1 DEF ReadEnsure
  <1>5. redis' \in Loose /\ Good(play, redis') /\ Mild(redis, redis') /\ redis'.ns # 0 /\ redis'.last >= r.last
    BY <1>2, <1>3, <1>4, EnsureFacts
  <1>6. Sound(play, r)
    BY <1>1, <1>3 DEF Sound
  <1>7. ASSUME NEW s \in Songs, redis'.count[r.ns][s] # NoCount
        PROVE  redis'.count[r.ns][s] >= Cardinality(Among(play, r.settled, s))
    <2>1. PICK m : m = redis'  OBVIOUS
    <2>2. m.last \in 0..MaxPlay /\ m.last >= r.last /\ m.count[r.ns][s] \in Nat
      BY <1>1, <1>5, <1>7, <2>1, LooseFields DEF Counts
    <2>3. m.count[r.ns][s] >= Cardinality(Below(play, s, m.last))
      BY <1>1, <1>5, <1>7, <2>1 DEF Good, Covers
    <2>4. Cardinality(Among(play, r.settled, s)) <= Cardinality(Below(play, s, m.last))
      BY <1>3, <2>2, SettledBelow
    <2> QED BY <2>1, <2>2, <2>3, <2>4, BelowFinite
  <1>8. redis'.ns >= r.ns
    BY <1>1, <1>5, LooseFields
  <1>9. Answers(play, redis', r)
    BY <1>1, <1>5, <1>7, <1>8 DEF Answers
  <1>10. Onward(play, redis, redis')
    BY <1>5, MildOnward
  <1>11. UNCHANGED <<play, owed, invalidation, disk, crashes>>
    BY DEF ReadEnsure
  <1> QED BY <1>1, <1>5, <1>6, <1>9, <1>10, <1>11, ReaderMoves

LEMMA CachedStep ==
    ASSUME Typed, IInv, NEW q \in Readers, ReadCached(q)
    PROVE  IInv'
  <1>1. PICK r \in Reader :
          /\ Step(q, r) /\ r.ids = reader[q].ids /\ r.last = reader[q].last /\ r.ns = reader[q].ns
          /\ r.settled = reader[q].settled
          /\ r.missing = {s \in r.ids : redis.count[r.ns][s] = NoCount}
          /\ r.pc = IF r.missing = {} THEN "reply" ELSE "count"
          /\ \A s \in r.ids : r.counts[s] = redis.count[r.ns][s]
    BY ReadCachedFacts
  <1>2. redis \in Loose /\ ReaderInv(play, redis, reader[q]) /\ reader[q].pc = "mget" /\ r.ns \in Namespaces
    BY <1>1, TypeFields DEF Typed, Placed, IInv, ReadCached
  <1>3. Sound(play, r)
    BY <1>1, <1>2 DEF ReaderInv, Sound
  <1>4. ASSUME crashes = 0, NEW s \in r.ids \ r.missing
        PROVE  Answered(play, r, s)
    <2>1. s \in Songs /\ r.counts[s] = redis.count[r.ns][s] /\ redis.count[r.ns][s] # NoCount
      BY <1>1, <1>4, ReaderFields
    <2>2. r.counts[s] \in Nat
      BY <1>2, <2>1, LooseFields DEF Counts
    <2>3. redis.count[reader[q].ns][s] >= Cardinality(Among(play, reader[q].settled, s))
      BY <1>1, <1>2, <1>4, <2>1 DEF ReaderInv, Answers
    <2> QED BY <1>1, <2>1, <2>2, <2>3 DEF Answered
  <1>5. crashes = 0 => Answers(play, redis, r)
    BY <1>1, <1>4 DEF Answers
  <1>6. r.ns # 0 => redis.ns # 0
    BY <1>1, <1>2 DEF ReaderInv
  <1> QED BY <1>1, <1>3, <1>5, <1>6, ReaderAlone DEF ReadCached

LEMMA WithoutRedisStep ==
    ASSUME Typed, IInv, NEW q \in Readers, ReadWithoutRedis(q)
    PROVE  IInv'
  <1>1. PICK r \in Reader :
          /\ Step(q, r) /\ r.ids = reader[q].ids /\ r.last = reader[q].last /\ r.ns = 0
          /\ r.settled = reader[q].settled /\ r.missing = r.ids /\ r.pc = "count"
    BY ReadWithoutRedisFacts
  <1>2. Sound(play, reader[q])
    BY DEF IInv, ReaderInv
  <1>3. Sound(play, r) /\ Answers(play, redis, r)
    BY <1>1, <1>2 DEF Sound, Answers
  <1> QED BY <1>1, <1>3, ReaderAlone DEF ReadWithoutRedis

LEMMA DatabaseStep ==
    ASSUME Typed, IInv, NEW q \in Readers, ReadDatabase(q)
    PROVE  IInv'
  <1>1. PICK r \in Reader :
          /\ Step(q, r) /\ r.ids = reader[q].ids /\ r.last = reader[q].last /\ r.ns = reader[q].ns
          /\ r.settled = reader[q].settled /\ r.missing = reader[q].missing
          /\ r.pc = IF r.ns = 0 THEN "reply" ELSE "warm"
          /\ \A s \in Songs : r.counts[s] = IF s \in r.missing THEN DbCount(s) ELSE reader[q].counts[s]
    BY ReadDatabaseFacts
  <1>2. ReaderInv(play, redis, reader[q]) /\ reader[q].pc = "count"
        /\ r.ids \subseteq Songs /\ r.missing \subseteq Songs
        /\ (r.ns # 0 => r.ns \in Namespaces)
    BY ReaderFields, BoundAssumption DEF IInv, ReadDatabase, Namespaces
  <1>3. ASSUME NEW s \in r.missing
        PROVE  r.counts[s] \in Nat /\ r.counts[s] >= Cardinality(Below(play, s, r.last))
               /\ Answered(play, r, s)
    BY <1>1, <1>2, DbCounts DEF Answered
  <1>4. Sound(play, r)
    BY <1>1, <1>2, <1>3 DEF ReaderInv, Sound
  <1>5. ASSUME crashes = 0, NEW s \in r.ids
        PROVE  Answered(play, r, s)
    <2>1. CASE s \in r.missing
      BY <1>3, <2>1
    <2>2. CASE s \notin r.missing
      <3>1. Answered(play, reader[q], s)
        BY <1>1, <1>2, <1>5, <2>2 DEF ReaderInv, Answers
      <3> QED BY <1>1, <1>2, <2>2, <3>1 DEF Answered
    <2> QED BY <2>1, <2>2
  <1>6. crashes = 0 => Answers(play, redis, r)
    BY <1>1, <1>5 DEF Answers
  <1>7. r.ns # 0 => redis.ns # 0
    BY <1>1, <1>2 DEF ReaderInv
  <1> QED BY <1>1, <1>4, <1>6, <1>7, ReaderAlone DEF ReadDatabase

LEMMA WarmStep ==
    ASSUME Typed, IInv, NEW q \in Readers, ReadWarm(q)
    PROVE  IInv'
  <1>1. PICK r \in Reader :
          /\ Step(q, r) /\ r.ids = reader[q].ids /\ r.last = reader[q].last /\ r.ns = reader[q].ns
          /\ r.settled = reader[q].settled /\ r.missing = reader[q].missing /\ r.counts = reader[q].counts
          /\ r.pc = "reply"
          /\ redis' \in {redis, Warmed(redis, reader[q])} /\ redis' \in Mirror
    BY ReadWarmFacts
  <1>2. redis \in Loose /\ Good(play, redis) /\ ReaderInv(play, redis, reader[q]) /\ reader[q].pc = "warm"
        /\ reader[q] \in Reader /\ reader[q].ns \in Namespaces
    BY TypeFields DEF Typed, Placed, IInv, ReadWarm
  <1>3. redis.ns # 0
    BY <1>2, BoundAssumption DEF ReaderInv, Namespaces
  <1>4. redis' \in Loose /\ Good(play, redis') /\ Onward(play, redis, redis') /\ redis'.ns # 0
    <2>1. CASE redis' = redis
      BY <1>2, <1>3, <2>1, MildSame, MildOnward
    <2>2. CASE redis' = Warmed(redis, reader[q])
      BY <1>2, <1>3, <2>2, WarmedFacts DEF ReaderInv
    <2> QED BY <1>1, <2>1, <2>2
  <1>5. Sound(play, r)
    BY <1>1, <1>2 DEF ReaderInv, Sound
  <1>6. crashes = 0 => Answers(play, redis', r)
    BY <1>1, <1>2 DEF ReaderInv, Answers, Answered
  <1>7. UNCHANGED <<play, owed, invalidation, disk, crashes>>
    BY DEF ReadWarm
  <1> QED BY <1>1, <1>4, <1>5, <1>6, <1>7, ReaderMoves

LEMMA ReplyStep ==
    ASSUME Typed, IInv, NEW q \in Readers, ReadReply(q)
    PROVE  IInv'
  <1>1. Step(q, Idle) /\ IdleReader
    BY IdleFacts DEF ReadReply
  <1>2. Closed(play, 0)
    BY BoundAssumption DEF Closed, Ids
  <1>3. Sound(play, Idle) /\ Answers(play, redis, Idle)
    BY <1>1, <1>2 DEF IdleReader, Sound, Answers
  <1>4. Idle.ns = 0
    BY <1>1 DEF IdleReader
  <1> QED BY <1>1, <1>3, <1>4, ReaderAlone DEF ReadReply

LEMMA IInvStep ==
    ASSUME Typed, IInv, [Next]_vars, MaxOpen = 1
    PROVE  IInv'
  <1>1. TypeOK
    BY DEF Typed
  <1>2. CASE UNCHANGED vars
    BY <1>2 DEF vars, IInv, ReaderInv
  <1>3. ASSUME NEW q \in Readers, ReaderNext(q)
        PROVE  IInv'
    BY <1>3, LatestStep, EnsureStep, CachedStep, WithoutRedisStep, DatabaseStep, WarmStep,
       ReplyStep DEF ReaderNext
  <1> QED BY <1>1, <1>2, <1>3, InsertStep, EndStep, CallbackStep, InvalidateStep, ServerStep DEF Next, ReaderNext

-----------------------------------------------------------------------------
(* The theorems.                                                           *)

LEMMA InitHolds ==
    ASSUME Init
    PROVE  Typed /\ IInv
  <1>1. play \in Rows /\ \A p \in Ids : play[p].life = "unborn"
    BY SongAssumption DEF Init, Rows
  <1>2. NoMirror \in Mirror /\ NoMirror.ns = 0 /\ NoMirror.last = 0 /\ \A n \in Namespaces : NoMirror.count[n] = Unknown
    BY UnknownType, BoundAssumption DEF NoMirror, Mirror
  <1>3. Quiet \in [pc : {"idle", "latest", "rotate"}, last : 0..MaxPlay] /\ Quiet.last = 0
    BY BoundAssumption DEF Quiet
  <1>4. IdleReader /\ \A q \in Readers : reader[q] = Idle
    BY IdleFacts DEF Init
  <1>5. reader \in [Readers -> Reader] /\ crashes \in 0..MaxCrashes
    BY <1>4, BoundAssumption DEF Init, IdleReader
  <1>6. Typed
    BY <1>1, <1>2, <1>3, <1>4, <1>5 DEF Init, Typed, TypeOK, Placed, Rows, IdleReader
  <1>7. Closed(play, 0) /\ Serial(play)
    BY <1>1, BoundAssumption DEF Closed, Serial, Ids
  <1>8. Good(play, NoMirror)
    BY <1>2, <1>7, BoundAssumption DEF Good, Covers, Beyond, Namespaces
  <1>9. Sound(play, Idle) /\ Answers(play, redis, Idle) /\ Idle.ns = 0
    BY <1>4, <1>7 DEF IdleReader, Sound, Answers
  <1>10. IInv
    BY <1>3, <1>4, <1>7, <1>8, <1>9 DEF Init, IInv, ReaderInv
  <1> QED BY <1>6, <1>10

\* Every variable keeps its type, the indices of the scripts included: a namespace
\* that is read or written exists.
THEOREM CountsTyped == Spec => []TypeOK
  <1>1. Init => Typed
    BY InitHolds
  <1>2. Typed /\ [Next]_vars => Typed'
    BY TypeStep
  <1>3. Typed => TypeOK
    BY DEF Typed
  <1> QED BY <1>1, <1>2, <1>3, PTL DEF Spec

LEMMA Invariant ==
    ASSUME MaxOpen = 1
    PROVE  Spec => [](Typed /\ IInv)
  <1>1. Init => Typed /\ IInv
    BY InitHolds
  <1>2. Typed /\ IInv /\ [Next]_vars => (Typed /\ IInv)'
    BY TypeStep, IInvStep
  <1> QED BY <1>1, <1>2, PTL DEF Spec

\* The mirror: the coherence test of the code suffices, the count it lets through
\* is no less than the rows, whatever calls, deletions, expiries and restarts came
\* before.
THEOREM CountsSuffice ==
    ASSUME MaxOpen = 1
    PROVE  Spec => []NoUndercount
  <1>1. ASSUME Typed, IInv
        PROVE  NoUndercount
    <2> SUFFICES ASSUME NEW s \in Songs, Trusted, Served(s) # NoCount
                 PROVE  Served(s) >= DbCount(s)
      BY DEF NoUndercount
    <2>1. redis \in Loose /\ redis \in Mirror /\ Good(play, redis)
      BY <1>1, TypeFields DEF Typed, IInv
    <2>2. redis.ns \in Namespaces /\ Served(s) = redis.count[redis.ns][s]
      BY <2>1, BoundAssumption DEF Served, Namespaces, Mirror
    <2>3. Served(s) >= Cardinality(Below(play, s, redis.last))
      BY <2>1, <2>2 DEF Good, Covers
    <2>4. PlaysOf(s) = Below(play, s, redis.last)
      BY DEF Trusted, PlaysOf, Committed, Below
    <2> QED BY <2>3, <2>4 DEF DbCount
  <1> QED BY <1>1, Invariant, PTL

\* The readers: whichever of the cache, the database and a warm-up a reader took
\* its counts from, none lost a play that was committed when it began.
THEOREM AnswersFresh ==
    ASSUME MaxOpen = 1
    PROVE  Spec => []AnswerFresh
  <1>1. ASSUME Typed, IInv
        PROVE  AnswerFresh
    <2> SUFFICES ASSUME NEW q \in Readers, reader[q].pc = "reply", crashes = 0, NEW s \in reader[q].ids
                 PROVE  reader[q].counts[s] >= Cardinality(reader[q].settled \cap PlaysOf(s))
      BY DEF AnswerFresh
    <2>1. Answered(play, reader[q], s)
      BY <1>1 DEF IInv, ReaderInv, Answers
    <2>2. reader[q].settled \cap PlaysOf(s) = Among(play, reader[q].settled, s)
      BY DEF Among, PlaysOf, Committed
    <2> QED BY <2>1, <2>2 DEF Answered
  <1> QED BY <1>1, Invariant, PTL
=============================================================================
