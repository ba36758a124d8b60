--------------------------- MODULE ProjectBuild_proofs ---------------------------
(***************************************************************************)
(* Proofs about ProjectBuild, for any finite source tree, any list of      *)
(* native sources and any number of builds: what wio project build holds   *)
(* to be up to date is current, but for the cases UpToDateIsCurrent names. *)
(***************************************************************************)
EXTENDS ProjectBuild, FiniteSetTheorems, SequenceTheorems, TLAPS

USE BuildAssumption

-----------------------------------------------------------------------------
(* The inductive invariant.                                                *)

\* The names of the objects: those of the tree have the number 0.
TreeKey == Tree \X {0}
ObjectKey == TreeKey \cup (Range(Native) \X (1 .. Len(Native)))

\* What was made of source p is what p is now, unless p has changed since it was read or
\* another build was writing what the compiler read.
Made(p, x) ==
  /\ x.since \in 0 .. ticks
  /\ x.whole /\ changedAt[p] < x.since => x.version = source[p].version
  /\ ~x.whole => p \in Tree /\ crossed

Unit(u) == /\ TreeKey \subseteq DOMAIN u /\ DOMAIN u \subseteq ObjectKey
           /\ \A k \in DOMAIN u : Made(k[1], u[k])

\* A native source that has not changed since the listing is in it.
Lists(natives, listed) ==
  /\ natives \subseteq Range(Native) /\ listed \in 0 .. ticks
  /\ \A n \in Range(Native) : There(n) /\ changedAt[n] < listed => n \in natives

Sources(S) == {k[1] : k \in S}

Library(o) ==
  /\ o.names \in Seq(ObjectKey) /\ IsInjective(o.names) /\ o.time \in 0 .. ticks
  /\ TreeKey \subseteq Range(o.names) /\ Range(o.names) \subseteq DOMAIN o.objs
  /\ Unit(o.objs)
  /\ Lists(Sources(Range(o.names)) \ Tree, o.listed)

\* A link that began after the library was there has taken what is in it.
Linked(l) ==
  /\ target = "static" /\ l.since \in 0 .. ticks
  /\ \A o \in output : o.time < l.since => \A p \in Part : l.from[p] = FirstOf(o, p).version

Holds(b) ==
  LET h == build[b].held
      natives == build[b].natives IN
  /\ Lists(natives, build[b].listed)
  /\ Stands(b, "generating") \/ AtFile(b) => Unit(h) /\ DOMAIN h = TreeKey
  /\ Stands(b, "writing") =>
       /\ Unit(h) /\ natives \subseteq Sources(DOMAIN h)
       /\ target = "static" => DOMAIN h \subseteq DOMAIN objects
  /\ Stands(b, "replacing") => Library(h) /\ target = "shared"
  /\ Stands(b, "linking") => target = "static"
  /\ Stands(b, "linkwriting") => Linked(h)

RunShape(b) == build[b] = [at |-> build[b].at, natives |-> build[b].natives,
                        listed |-> build[b].listed, held |-> build[b].held]

AtMostOne(S) == \A x, y \in S : x = y

Clock ==
  /\ target \in {"shared", "static"} /\ edits \in 1 .. MaxEdits /\ ticks \in 1 .. MaxTime
  /\ source \in [Part -> [version : 0 .. edits, time : 0 .. ticks]]
  /\ rootTime \in 0 .. ticks /\ changedAt \in [Part -> 0 .. ticks]

FileShape(c) == c = [unit |-> c.unit, text |-> c.text, hands |-> c.hands]
CppInv ==
  /\ AtMostOne(cpp)
  /\ \A c \in cpp : /\ FileShape(c) /\ c.hands \subseteq Builder
                    /\ c.text # "partial" => Unit(c.unit) /\ DOMAIN c.unit = TreeKey

\* Without a build that comes in between, who has the generated file open has it alone, and
\* a compiler finds it whole or not at all.
NearCpp(b) == AtFile(b) \/ Stands(b, "compiling")
CrossInv ==
  /\ crossed \in BOOLEAN
  /\ ~crossed =>
       /\ \A b, d \in Builder : AtFile(b) /\ NearCpp(d) => b = d
       /\ \A b \in Builder, c \in cpp : /\ AtFile(b) => c.hands = {b}
                                        /\ Stands(b, "compiling") => c.text = "whole"
ObjectsInv == DOMAIN objects \subseteq ObjectKey /\ \A k \in DOMAIN objects : Made(k[1], objects[k])
OutputInv == AtMostOne(output) /\ \A o \in output : Library(o)
HostFileInv == AtMostOne(host) /\ \A h \in host : h.time \in 0 .. ticks /\ (h.whole => Linked(h))
RunsInv == DOMAIN build = Builder /\ \A b \in Builder : RunShape(b) /\ Holds(b)

BuildInv == /\ Clock /\ CppInv /\ CrossInv /\ ObjectsInv /\ OutputInv /\ HostFileInv /\ RunsInv

-----------------------------------------------------------------------------
(* Sequences, numbers and names.                                           *)

\* SetToSeq lists every element of a finite set once.
LEMMA Enumerated ==
  ASSUME NEW S, IsFiniteSet(S)
  PROVE  SetToSeq(S) \in Seq(S) /\ IsInjective(SetToSeq(S)) /\ Range(SetToSeq(S)) = S
<1>. DEFINE n == Cardinality(S)  s == SetToSeq(S)
<1>1. n \in Nat
  BY FS_CardinalityType
<1>2. PICK f : f \in Bijection(1 .. n, S)
  BY FS_CardinalityType DEF ExistsBijection
<1>3. f \in [1 .. n -> S] /\ IsInjective(f)
  BY <1>2 DEF Bijection, Injection, IsInjective
<1>4. s \in [1 .. n -> S] /\ IsInjective(s)
  BY <1>3 DEF SetToSeq
<1>5. s \in Injection(1 .. n, S)
  BY <1>4 DEF Injection, IsInjective
<1>6. IsFiniteSet(1 .. n) /\ Cardinality(1 .. n) = n
  <2>1. 0 + 1 = 1 /\ n - 1 + 1 = n /\ (1 > n => n = 0) /\ 1 \in Int /\ n \in Int
    BY <1>1
  <2>. QED BY <2>1, FS_Interval
<1>7. s \in Surjection(1 .. n, S)
  BY <1>5, <1>6, FS_Injection
<1>8. Range(s) = S
  BY <1>4, <1>7 DEF Surjection, Range
<1>. QED BY <1>1, <1>4, <1>8

LEMMA Joined ==
  ASSUME NEW K, NEW s \in Seq(K), NEW t \in Seq(K), IsInjective(s), IsInjective(t),
         Range(s) \cap Range(t) = {}
  PROVE  s \o t \in Seq(K) /\ IsInjective(s \o t) /\ Range(s \o t) = Range(s) \cup Range(t)
<1>1. s \o t \in Seq(K) /\ Len(s \o t) = Len(s) + Len(t) /\ DOMAIN (s \o t) = 1 .. Len(s) + Len(t)
  BY LenProperties, ConcatProperties
<1>2. \A i \in 1 .. Len(s) + Len(t) :
        (s \o t)[i] = IF i <= Len(s) THEN s[i] ELSE t[i - Len(s)]
  BY ConcatProperties
<1>3. DOMAIN s = 1 .. Len(s) /\ DOMAIN t = 1 .. Len(t) /\ Len(s) \in Nat /\ Len(t) \in Nat
  BY LenProperties
<1>4. Range(s \o t) = Range(s) \cup Range(t)
  <2>1. ASSUME NEW i \in DOMAIN s PROVE s[i] \in Range(s \o t)
    BY <1>1, <1>2, <1>3, <2>1 DEF Range
  <2>2. ASSUME NEW i \in DOMAIN t PROVE t[i] \in Range(s \o t)
    <3>1. i + Len(s) \in DOMAIN (s \o t) /\ ~(i + Len(s) <= Len(s)) /\ i + Len(s) - Len(s) = i
      BY <1>1, <1>3, <2>2
    <3>. QED BY <1>1, <1>2, <3>1 DEF Range
  <2>3. ASSUME NEW i \in DOMAIN (s \o t) PROVE (s \o t)[i] \in Range(s) \cup Range(t)
    <3>1. CASE i <= Len(s)
      BY <1>1, <1>2, <1>3, <2>3, <3>1 DEF Range
    <3>2. CASE ~(i <= Len(s))
      BY <1>1, <1>2, <1>3, <2>3, <3>2 DEF Range
    <3>. QED BY <3>1, <3>2
  <2>. QED BY <2>1, <2>2, <2>3 DEF Range
<1>5. IsInjective(s \o t)
  <2>. SUFFICES ASSUME NEW i \in 1 .. Len(s) + Len(t), NEW j \in 1 .. Len(s) + Len(t),
                       (s \o t)[i] = (s \o t)[j]
                PROVE  i = j
    BY <1>1 DEF IsInjective
  <2>. USE <1>2, <1>3
  <2>1. CASE i <= Len(s) /\ j <= Len(s)
    BY <2>1 DEF IsInjective
  <2>2. CASE ~(i <= Len(s)) /\ ~(j <= Len(s))
    <3>1. i - Len(s) \in DOMAIN t /\ j - Len(s) \in DOMAIN t /\ t[i - Len(s)] = t[j - Len(s)]
      BY <2>2
    <3>2. i - Len(s) = j - Len(s)
      BY <3>1 DEF IsInjective
    <3>. QED BY <3>2
  <2>3. CASE i <= Len(s) /\ ~(j <= Len(s))
    <3>1. i \in DOMAIN s /\ j - Len(s) \in DOMAIN t /\ s[i] = t[j - Len(s)]
      BY <2>3
    <3>2. s[i] \in Range(s) /\ t[j - Len(s)] \in Range(t)
      BY <3>1 DEF Range
    <3>. QED BY <3>1, <3>2
  <2>4. CASE ~(i <= Len(s)) /\ j <= Len(s)
    <3>1. j \in DOMAIN s /\ i - Len(s) \in DOMAIN t /\ s[j] = t[i - Len(s)]
      BY <2>4
    <3>2. s[j] \in Range(s) /\ t[i - Len(s)] \in Range(t)
      BY <3>1 DEF Range
    <3>. QED BY <3>1, <3>2
  <2>. QED BY <2>1, <2>2, <2>3, <2>4
<1>. QED BY <1>1, <1>4, <1>5

LEMMA NativeFacts ==
  /\ DOMAIN Native = 1 .. Len(Native) /\ Len(Native) \in Nat
  /\ IsFiniteSet(Range(Native)) /\ Cardinality(Range(Native)) <= Len(Native)
<1>1. DOMAIN Native = 1 .. Len(Native) /\ Len(Native) \in Nat
      /\ Native \in [1 .. Len(Native) -> Range(Native)]
  BY LenProperties
<1>2. IsFiniteSet(1 .. Len(Native)) /\ Cardinality(1 .. Len(Native)) = Len(Native)
  <2>1. (1 > Len(Native) => Len(Native) = 0) /\ Len(Native) - 1 + 1 = Len(Native) /\ 1 \in Int
        /\ Len(Native) \in Int
    BY <1>1
  <2>. QED BY <2>1, FS_Interval
<1>3. Native \in Surjection(1 .. Len(Native), Range(Native))
  BY <1>1 DEF Surjection, Range
<1>. QED BY <1>1, <1>2, <1>3, FS_Surjection

\* The number of a native source lies within the list.
LEMMA Numbered ==
  ASSUME NEW natives \in SUBSET Range(Native), NEW p \in natives
  PROVE  Number(p, natives) \in 1 .. Len(Native)
<1>. DEFINE S == {n \in natives : \E i, j \in DOMAIN Native : j <= i /\ Native[i] = p /\ Native[j] = n}
<1>1. S \in SUBSET Range(Native)
  OBVIOUS
<1>2. IsFiniteSet(S) /\ Cardinality(S) \in Nat /\ Cardinality(Range(Native)) \in Nat
      /\ Cardinality(S) <= Cardinality(Range(Native))
  BY <1>1, NativeFacts, FS_Subset, FS_CardinalityType
<1>3. p \in S
  <2>1. PICK i \in DOMAIN Native : Native[i] = p
    BY DEF Range
  <2>2. i <= i
    BY <2>1, NativeFacts
  <2>. QED BY <2>1, <2>2
<1>4. Cardinality(S) # 0
  BY <1>2, <1>3, FS_EmptySet
<1>5. Number(p, natives) = Cardinality(S)
  BY DEF Number
<1>. HIDE DEF S
<1>. QED BY <1>2, <1>4, <1>5, NativeFacts

-----------------------------------------------------------------------------
(* The invariant gives what the runs check.                                *)

\* A source with one object in a library is linked from that object.
LEMMA Unique ==
  ASSUME NEW o, o.names \in Seq(ObjectKey), IsInjective(o.names),
         NEW p, p \in Tree \/ ~Twice(o, p), NEW i \in DOMAIN o.names, o.names[i][1] = p
  PROVE  FirstOf(o, p) = o.objs[o.names[i]]
<1>. DEFINE places == {j \in DOMAIN o.names : o.names[j][1] = p}
<1>1. \A j \in DOMAIN o.names : o.names[j] \in ObjectKey
  BY LenProperties
<1>2. ASSUME NEW j \in places PROVE j = i
  <2>1. CASE p \in Tree
    <3>1. o.names[i] = <<p, 0>> /\ o.names[j] = <<p, 0>>
      BY <1>1, <2>1 DEF ObjectKey, TreeKey
    <3>. QED BY <3>1 DEF IsInjective
  <2>2. CASE ~Twice(o, p)
    BY <2>2 DEF Twice
  <2>. QED BY <2>1, <2>2
<1>3. places = {i}
  BY <1>2
<1>4. i \in Nat
  BY LenProperties
<1>5. Min({i}) = i
  BY <1>4 DEF Min
<1>6. FirstOf(o, p) = IF places = {} THEN [version |-> 0, since |-> o.listed, whole |-> TRUE]
                                      ELSE o.objs[o.names[Min(places)]]
  BY DEF FirstOf
<1>. QED BY <1>3, <1>5, <1>6

LEMMA Vouches == BuildInv => OutputVouchesForSources
<1>. SUFFICES ASSUME BuildInv, OutputUpToDate(Listing), NEW o \in output, NEW p \in Part,
                     Shows(p), ~(p \in Range(Native) /\ Twice(o, p)),
                     ~(p \in Tree /\ crossed /\ ~FirstOf(o, p).whole),
                     ~(changedAt[p] \in FirstOf(o, p).since .. o.time)
              PROVE  FirstOf(o, p).version = source[p].version
  BY DEF OutputVouchesForSources
<1>. DEFINE first == FirstOf(o, p)
<1>1. Library(o)
  BY DEF BuildInv, OutputInv
<1>2. /\ rootTime <= o.time
      /\ \A t \in Tree : There(t) => source[t].time <= o.time
      /\ \A n \in Listing : There(n) /\ source[n].time <= o.time
  BY DEF BuildInv, OutputInv, AtMostOne, OutputUpToDate, Directories
<1>3. changedAt[p] \in Nat /\ o.time \in Nat /\ ticks \in Nat /\ rootTime \in Nat /\ source[p].time \in Nat
  BY <1>1 DEF BuildInv, Clock, Library
<1>4. changedAt[p] <= o.time
  <2>1. CASE p \in Tree
    BY <1>2, <1>3, <2>1 DEF Shows
  <2>2. CASE p \in Range(Native)
    BY <1>2, <1>3, <2>2 DEF Listing, Shows
  <2>. QED BY <2>1, <2>2 DEF Part
<1>5. p \in Tree \/ ~Twice(o, p)
  BY DEF Part
<1>6. CASE \E i \in DOMAIN o.names : o.names[i][1] = p
  <2>1. PICK i \in DOMAIN o.names : o.names[i][1] = p
    BY <1>6
  <2>2. o.names[i] \in DOMAIN o.objs
    BY <1>1, <2>1 DEF Library, Range
  <2>3. Made(p, o.objs[o.names[i]])
    BY <1>1, <2>1, <2>2 DEF Library, Unit
  <2>4. first = o.objs[o.names[i]]
    BY <1>1, <1>5, <2>1, Unique DEF Library
  <2>5. Made(p, first)
    BY <2>3, <2>4
  <2>. HIDE DEF first
  <2>6. changedAt[p] < first.since
    BY <1>3, <1>4, <2>5 DEF first, Made
  <2>7. first.whole
    BY <2>5 DEF first, Made
  <2>. QED BY <2>5, <2>6, <2>7 DEF Made, first
<1>7. CASE ~\E i \in DOMAIN o.names : o.names[i][1] = p
  <2>1. p \notin Sources(Range(o.names))
    BY <1>7 DEF Sources, Range
  <2>2. p \in Range(Native)
    <3>1. p \in Tree => <<p, 0>> \in Range(o.names)
      BY <1>1 DEF Library, TreeKey
    <3>2. <<p, 0>>[1] = p
      OBVIOUS
    <3>. QED BY <2>1, <3>1, <3>2 DEF Sources, Part
  <2>3. first = [version |-> 0, since |-> o.listed, whole |-> TRUE]
    BY <1>7 DEF FirstOf
  <2>4. first.since = o.listed
    BY <2>3
  <2>5. There(p) /\ o.listed \in 0 .. ticks
    BY <1>1, <2>2 DEF Library, Lists, Shows
  <2>6. changedAt[p] < o.listed
    BY <1>3, <1>4, <2>4, <2>5
  <2>. QED BY <1>1, <2>1, <2>2, <2>5, <2>6 DEF Library, Lists
<1>. QED BY <1>6, <1>7

LEMMA HostVouches == BuildInv => HostVouchesForLibrary
<1>. SUFFICES ASSUME BuildInv, HostUpToDate, NEW o \in output, NEW h \in host, h.whole,
                     ~(o.time \in h.since .. h.time), NEW p \in Part
              PROVE  h.from[p] = FirstOf(o, p).version
  BY DEF HostVouchesForLibrary
<1>1. o.time <= h.time
  BY DEF HostUpToDate, BuildInv, OutputInv, HostFileInv, AtMostOne
<1>2. Linked(h) /\ Library(o) /\ h.time \in 0 .. ticks /\ ticks \in Nat
  BY DEF BuildInv, OutputInv, HostFileInv, Clock
<1>3. h.since \in Nat /\ o.time \in Nat /\ h.time \in Nat
  BY <1>2 DEF Linked, Library
<1>4. o.time < h.since
  BY <1>1, <1>3
<1>. QED BY <1>2, <1>4 DEF Linked

LEMMA TypesHold == BuildInv => BuildTypeOK
<1>. SUFFICES ASSUME BuildInv PROVE BuildTypeOK
  OBVIOUS
<1>1. ASSUME NEW S, AtMostOne(S) PROVE Cardinality(S) <= 1
  <2>1. CASE S = {}
    BY <2>1, FS_EmptySet
  <2>2. CASE S # {}
    <3>1. PICK x : x \in S
      BY <2>2
    <3>2. S = {x}
      BY <1>1, <3>1 DEF AtMostOne
    <3>3. Cardinality(S) = 1
      BY <3>2, FS_Singleton
    <3>. QED BY <3>3
  <2>. QED BY <2>1, <2>2
<1>2. Cardinality(cpp) <= 1 /\ Cardinality(output) <= 1 /\ Cardinality(host) <= 1
  BY <1>1 DEF BuildInv, CppInv, OutputInv, HostFileInv
<1>3. ObjectKey \subseteq Part \X (0 .. Len(Native))
  BY NativeFacts DEF ObjectKey, TreeKey, Part
<1>4. \A b \in Builder : build[b].natives \subseteq Range(Native)
  BY DEF BuildInv, RunsInv, Holds, Lists
<1>. QED BY <1>2, <1>3, <1>4 DEF BuildTypeOK, BuildInv, Clock, CrossInv, ObjectsInv

LEMMA BuildInitInv == BuildInit => BuildInv
<1>. SUFFICES ASSUME BuildInit PROVE BuildInv
  OBVIOUS
<1>. USE DEF BuildInit
<1>1. Clock
  <2>1. edits = 1 /\ ticks = 1 /\ edits \in 1 .. MaxEdits /\ ticks \in 1 .. MaxTime
    OBVIOUS
  <2>2. 1 \in 0 .. 1 /\ 0 \in 0 .. 1
    OBVIOUS
  <2>3. source \in [Part -> [version : 0 .. edits, time : 0 .. ticks]]
    BY <2>1, <2>2
  <2>4. rootTime \in 0 .. ticks /\ changedAt \in [Part -> 0 .. ticks]
    BY <2>1, <2>2
  <2>. QED BY <2>1, <2>3, <2>4 DEF Clock
<1>2. CppInv /\ ObjectsInv /\ OutputInv /\ HostFileInv
  BY DEF CppInv, ObjectsInv, OutputInv, HostFileInv, AtMostOne
<1>3. RunsInv
  <2>. SUFFICES ASSUME NEW b \in Builder PROVE RunShape(b) /\ Holds(b)
    BY DEF RunsInv
  <2>1. build[b] = Waiting("idle")
    OBVIOUS
  <2>2. RunShape(b) /\ build[b].at = "idle"
    BY <2>1 DEF RunShape, Waiting
  <2>3. Lists(build[b].natives, build[b].listed)
    <3>1. build[b].natives = {} /\ build[b].listed = 0
      BY <2>1 DEF Waiting
    <3>2. ~(0 < 0) /\ 0 \in 0 .. ticks /\ \A n \in Range(Native) : changedAt[n] = 0
      BY DEF Part
    <3>. QED BY <3>1, <3>2 DEF Lists
  <2>. QED BY <2>2, <2>3 DEF Holds, Stands, AtFile
<1>4. CrossInv
  <2>1. \A b \in Builder : build[b].at = "idle"
    BY DEF Waiting
  <2>. QED BY <2>1 DEF CrossInv, NearCpp, AtFile, Stands
<1>. QED BY <1>1, <1>2, <1>3, <1>4 DEF BuildInv

-----------------------------------------------------------------------------
(* Steps. What has been made of a source stays true of it: a change marks  *)
(* the source as changed at a time that is not before.                     *)

StaysTrue ==
  /\ Clock' /\ target' = target /\ ticks' \in Nat /\ ticks <= ticks' /\ (crossed => crossed')
  /\ \A p, x : p \in Part /\ Made(p, x) => Made(p, x)'
  /\ \A s, t : Lists(s, t) => Lists(s, t)'

LEMMA KeptMore ==
  ASSUME StaysTrue, ticks \in Nat
  PROVE  /\ \A u : Unit(u) => Unit(u)'
         /\ \A o : Library(o) => Library(o)'
<1>1. \A k \in ObjectKey : k[1] \in Part
  BY DEF ObjectKey, TreeKey, Part
<1>2. ASSUME NEW u, Unit(u) PROVE Unit(u)'
  BY <1>1, <1>2 DEF Unit, StaysTrue
<1>3. ASSUME NEW o, Library(o) PROVE Library(o)'
  <2>1. Unit(o.objs)' /\ Lists(Sources(Range(o.names)) \ Tree, o.listed)'
    BY <1>2, <1>3 DEF Library, StaysTrue
  <2>2. o.time \in 0 .. ticks'
    BY <1>3 DEF Library, StaysTrue
  <2>. QED BY <1>3, <2>1, <2>2 DEF Library
<1>. QED BY <1>2, <1>3

LEMMA StillKept == ASSUME BuildInv, UNCHANGED treeVars, crossed => crossed' PROVE StaysTrue
<1>1. ticks \in Nat
  BY DEF BuildInv, Clock
<1>2. Clock'
  BY DEF treeVars, BuildInv, Clock
<1>3. ASSUME NEW p, NEW x, Made(p, x) PROVE Made(p, x)'
  BY <1>3 DEF treeVars, Made
<1>4. ASSUME NEW n, NEW t, Lists(n, t) PROVE Lists(n, t)'
  BY <1>4 DEF treeVars, Lists, There
<1>. QED BY <1>1, <1>2, <1>3, <1>4 DEF StaysTrue, treeVars

LEMMA ChangeKept ==
  ASSUME BuildInv, NEW p \in Part, NEW version \in 0 .. edits + 1, NEW times, NEW entry \in BOOLEAN,
         Change(p, version, times, entry), times \subseteq 0 .. ticks'
  PROVE  StaysTrue
<1>. USE DEF Change, cppVars
<1>1. edits \in Nat /\ ticks \in Nat /\ edits' = edits + 1 /\ edits' \in 1 .. MaxEdits
  BY DEF BuildInv, Clock
<1>2. ticks' \in 1 .. MaxTime /\ ticks <= ticks' /\ ticks' \in Nat
  BY <1>1 DEF BuildInv, Clock
<1>3. PICK time \in times : source' = [source EXCEPT ![p] = [version |-> version, time |-> time]]
  OBVIOUS
<1>4. changedAt' = [changedAt EXCEPT ![p] = ticks'] /\ changedAt' \in [Part -> 0 .. ticks']
  BY <1>1, <1>2 DEF BuildInv, Clock
<1>5. source' \in [Part -> [version : 0 .. edits', time : 0 .. ticks']]
  <2>1. [version |-> version, time |-> time] \in [version : 0 .. edits', time : 0 .. ticks']
    BY <1>1
  <2>2. \A q \in Part : source[q] \in [version : 0 .. edits', time : 0 .. ticks']
    BY <1>1, <1>2 DEF BuildInv, Clock
  <2>. QED BY <1>3, <2>1, <2>2 DEF BuildInv, Clock
<1>6. rootTime' \in 0 .. ticks' /\ rootTime <= rootTime' /\ rootTime \in Nat /\ rootTime' \in Nat
  BY <1>1, <1>2 DEF BuildInv, Clock
<1>7. Clock'
  BY <1>1, <1>2, <1>4, <1>5, <1>6 DEF BuildInv, Clock
<1>8. crossed' = crossed
  OBVIOUS
<1>9. ASSUME NEW q \in Part, NEW x, Made(q, x) PROVE Made(q, x)'
  <2>4. ~x.whole => q \in Tree /\ crossed'
    BY <1>8, <1>9 DEF Made
  <2>1. x.since \in Nat /\ x.since <= ticks /\ x.since \in 0 .. ticks'
    BY <1>1, <1>2, <1>9 DEF Made
  <2>2. CASE q = p
    <3>1. changedAt'[q] = ticks'
      BY <1>4, <2>2 DEF BuildInv, Clock
    <3>. QED BY <1>1, <1>2, <2>1, <2>4, <3>1 DEF Made
  <2>3. CASE q # p
    <3>1. changedAt'[q] = changedAt[q] /\ source'[q] = source[q]
      BY <1>3, <1>4, <2>3 DEF BuildInv, Clock
    <3>. QED BY <1>9, <2>1, <2>4, <3>1 DEF Made
  <2>. QED BY <2>2, <2>3
<1>10. ASSUME NEW natives, NEW t, Lists(natives, t) PROVE Lists(natives, t)'
  <2>1. t \in Nat /\ t <= ticks /\ t \in 0 .. ticks'
    BY <1>1, <1>2, <1>10 DEF Lists
  <2>2. ASSUME NEW n \in Range(Native), There(n)', changedAt'[n] < t PROVE n \in natives
    <3>1. n \in Part
      BY DEF Part
    <3>2. n # p
      BY <1>1, <1>2, <1>4, <2>1, <2>2, <3>1 DEF BuildInv, Clock
    <3>3. changedAt'[n] = changedAt[n] /\ source'[n] = source[n]
      BY <1>3, <1>4, <3>1, <3>2 DEF BuildInv, Clock
    <3>. QED BY <1>10, <2>2, <3>3 DEF Lists, There
  <2>. QED BY <1>10, <2>1, <2>2 DEF Lists
<1>. QED BY <1>1, <1>2, <1>7, <1>9, <1>10 DEF StaysTrue

-----------------------------------------------------------------------------
(* One run of the project build moves.                                     *)

LEMMA RunKept ==
  ASSUME StaysTrue, ticks \in Nat, NEW b \in Builder, RunShape(b), Holds(b), build'[b] = build[b],
         DOMAIN objects \subseteq DOMAIN objects', \A l : Linked(l) => Linked(l)'
  PROVE  RunShape(b)' /\ Holds(b)'
<1>1. Lists(build[b].natives, build[b].listed)'
  BY DEF Holds, StaysTrue
<1>2. \A u : Unit(u) => Unit(u)'
  BY KeptMore
<1>3. \A o : Library(o) => Library(o)'
  BY KeptMore
<1>4. target' = target
  BY DEF StaysTrue
<1>. QED BY <1>1, <1>2, <1>3, <1>4 DEF RunShape, Holds, Stands, AtFile

\* What is left to show of a step of one run, or of a change.
LEMMA StepInv ==
  ASSUME BuildInv, StaysTrue, CrossInv', DOMAIN build' = Builder,
         \A b \in Builder : build'[b] # build[b] => RunShape(b)' /\ Holds(b)',
         DOMAIN objects \subseteq DOMAIN objects', \A l : Linked(l) => Linked(l)',
         cpp' # cpp => CppInv', objects' # objects => ObjectsInv', output' # output => OutputInv',
         host' # host => HostFileInv'
  PROVE  BuildInv'
<1>1. ticks \in Nat /\ ticks' \in Nat /\ ticks <= ticks'
  BY DEF BuildInv, Clock, StaysTrue
<1>2. \A u : Unit(u) => Unit(u)'
  BY <1>1, KeptMore
<1>3. \A o : Library(o) => Library(o)'
  BY <1>1, KeptMore
<1>4. CppInv'
  BY <1>2 DEF BuildInv, CppInv
<1>5. ObjectsInv'
  <2>1. \A k \in ObjectKey : k[1] \in Part
    BY DEF ObjectKey, TreeKey, Part
  <2>. QED BY <2>1 DEF BuildInv, ObjectsInv, StaysTrue
<1>6. OutputInv'
  BY <1>3 DEF BuildInv, OutputInv
<1>7. HostFileInv'
  BY <1>1 DEF BuildInv, HostFileInv
<1>8. RunsInv'
  <2>. SUFFICES ASSUME NEW b \in Builder PROVE RunShape(b)' /\ Holds(b)'
    BY DEF RunsInv
  <2>1. CASE build'[b] = build[b]
    BY <1>1, <2>1, RunKept DEF BuildInv, RunsInv
  <2>2. CASE build'[b] # build[b]
    BY <2>2
  <2>. QED BY <2>1, <2>2
<1>. QED BY <1>4, <1>5, <1>6, <1>7, <1>8 DEF BuildInv, StaysTrue

\* A step that leaves the generated file alone, or removes it, and brings no run near it.
LEMMA CrossKept ==
  ASSUME BuildInv, crossed' = crossed, cpp' = cpp \/ cpp' = {},
         \A d \in Builder : NearCpp(d)' => build'[d] = build[d]
  PROVE  CrossInv'
<1>1. \A d \in Builder : /\ AtFile(d)' => AtFile(d)
                         /\ Stands(d, "compiling")' => Stands(d, "compiling")
                         /\ NearCpp(d)' => NearCpp(d)
  BY DEF NearCpp, AtFile, Stands
<1>2. CrossInv
  BY DEF BuildInv
<1>3. \A c \in cpp' : c \in cpp
  OBVIOUS
<1>4. crossed' \in BOOLEAN
  BY <1>2 DEF CrossInv
<1>. SUFFICES ASSUME ~crossed'
              PROVE  /\ \A b, d \in Builder : AtFile(b)' /\ NearCpp(d)' => b = d
                     /\ \A b \in Builder, c \in cpp' : /\ AtFile(b)' => c.hands = {b}
                                                       /\ Stands(b, "compiling")' => c.text = "whole"
  BY <1>4 DEF CrossInv
<1>. QED BY <1>1, <1>2, <1>3 DEF CrossInv

\* How a run moves.
OnlyMoves(b, r) ==
  /\ DOMAIN build' = Builder /\ \A c \in Builder : c # b => build'[c] = build[c]
  /\ build'[b] = r

RunAt(place, natives, t, h) == [at |-> place, natives |-> natives, listed |-> t, held |-> h]

LEMMA CrossMoves ==
  ASSUME BuildInv, crossed' = crossed, cpp' = cpp \/ cpp' = {}, NEW b \in Builder, NEW r,
         OnlyMoves(b, r), ~NearCpp(b)'
  PROVE  CrossInv'
<1>1. \A d \in Builder : NearCpp(d)' => build'[d] = build[d]
  BY DEF OnlyMoves
<1>. QED BY <1>1, CrossKept

LEMMA Takes ==
  ASSUME BuildInv, NEW b \in Builder, NEW place, NEW h, Take(b, place, h)
  PROVE  OnlyMoves(b, RunAt(place, build[b].natives, build[b].listed, h))
<1>. DEFINE r == [at |-> build[b].at, natives |-> build[b].natives,
                  listed |-> build[b].listed, held |-> build[b].held]
<1>1. DOMAIN build = Builder /\ build[b] = r
  BY DEF BuildInv, RunsInv, RunShape
<1>2. build' = [build EXCEPT ![b] = [r EXCEPT !.at = place, !.held = h]]
  BY <1>1 DEF Take
<1>. QED BY <1>1, <1>2 DEF OnlyMoves, RunAt

LEMMA MovesOn ==
  ASSUME BuildInv, NEW b \in Builder, NEW place, MoveOn(b, place)
  PROVE  OnlyMoves(b, RunAt(place, build[b].natives, build[b].listed, build[b].held))
<1>. DEFINE r == [at |-> build[b].at, natives |-> build[b].natives,
                  listed |-> build[b].listed, held |-> build[b].held]
<1>1. DOMAIN build = Builder /\ build[b] = r
  BY DEF BuildInv, RunsInv, RunShape
<1>2. build' = [build EXCEPT ![b] = [r EXCEPT !.at = place]]
  BY <1>1 DEF MoveOn
<1>. QED BY <1>1, <1>2 DEF OnlyMoves, RunAt

\* A run that starts over or ends has nothing in hand that could be wrong.
LEMMA Forgotten ==
  ASSUME BuildInv, StaysTrue, NEW b \in Builder, NEW place \in {"built", "over", "cleaning"},
         Forget(b, place)
  PROVE  OnlyMoves(b, Waiting(place)) /\ RunShape(b)' /\ Holds(b)' /\ ~NearCpp(b)'
<1>1. OnlyMoves(b, Waiting(place)) /\ build'[b] = Waiting(place)
  BY DEF BuildInv, RunsInv, OnlyMoves, Forget
<1>2. RunShape(b)' /\ build'[b].at = place /\ build'[b].natives = {} /\ build'[b].listed = 0
  BY <1>1 DEF RunShape, Waiting
<1>3. Lists({}, 0)'
  <2>1. ticks' \in Nat /\ changedAt' \in [Part -> 0 .. ticks']
    BY DEF StaysTrue, Clock
  <2>2. 0 \in 0 .. ticks' /\ \A n \in Range(Native) : ~(changedAt'[n] < 0)
    BY <2>1 DEF Part
  <2>. QED BY <2>2 DEF Lists
<1>4. Holds(b)'
  BY <1>2, <1>3 DEF Holds, Stands, AtFile
<1>5. ~NearCpp(b)'
  BY <1>2 DEF NearCpp, Stands, AtFile
<1>. QED BY <1>1, <1>2, <1>4, <1>5

LEMMA LinkedKept == ASSUME StaysTrue, ticks \in Nat, output' = output PROVE \A l : Linked(l) => Linked(l)'
<1>1. ASSUME NEW l, l.since \in 0 .. ticks PROVE l.since \in 0 .. ticks'
  BY <1>1 DEF StaysTrue
<1>. QED BY <1>1 DEF Linked, StaysTrue

\* A step that changes what one run holds, and no file.
LEMMA RunOnly ==
  ASSUME BuildInv, UNCHANGED <<treeVars, cppVars, objects, output, host>>, NEW b \in Builder,
         NEW r, OnlyMoves(b, r), RunShape(b)' /\ Holds(b)', ~NearCpp(b)'
  PROVE  BuildInv'
<1>0. UNCHANGED <<cpp, crossed>>
  BY DEF cppVars
<1>1. StaysTrue
  BY <1>0, StillKept
<1>5. CrossInv'
  BY <1>0, CrossMoves
<1>2. ticks \in Nat
  BY DEF BuildInv, Clock
<1>3. \A l : Linked(l) => Linked(l)'
  BY <1>1, <1>2, LinkedKept
<1>4. DOMAIN build' = Builder /\ \A c \in Builder : build'[c] # build[c] => RunShape(c)' /\ Holds(c)'
  BY DEF OnlyMoves
<1>. QED BY <1>0, <1>1, <1>3, <1>4, <1>5, StepInv

\* A run that goes on keeps what it has listed.
LEMMA RunGoes ==
  ASSUME StaysTrue, NEW b \in Builder, NEW place, NEW natives, NEW t, NEW h,
         OnlyMoves(b, RunAt(place, natives, t, h)), Lists(natives, t)
  PROVE  RunShape(b)' /\ Lists(build[b].natives, build[b].listed)' /\ Stands(b, place)'
         /\ build'[b].natives = natives /\ build'[b].held = h
<1>1. Lists(natives, t)'
  BY DEF StaysTrue
<1>2. build'[b] = [at |-> place, natives |-> natives, listed |-> t, held |-> h]
  BY DEF OnlyMoves, RunAt
<1>3. build'[b].at = place /\ build'[b].natives = natives /\ build'[b].listed = t /\ build'[b].held = h
  BY <1>2
<1>4. Lists(build[b].natives, build[b].listed)'
  BY <1>1, <1>3 DEF Lists
<1>. QED BY <1>2, <1>3, <1>4 DEF RunShape, Stands

LEMMA RunGoesOn ==
  ASSUME BuildInv, StaysTrue, NEW b \in Builder, NEW place, NEW h,
         OnlyMoves(b, RunAt(place, build[b].natives, build[b].listed, h))
  PROVE  RunShape(b)' /\ Lists(build[b].natives, build[b].listed)' /\ Stands(b, place)'
         /\ build'[b].natives = build[b].natives /\ build'[b].held = h
<1>1. PICK natives, t : natives = build[b].natives /\ t = build[b].listed
  OBVIOUS
<1>2. Lists(natives, t)
  BY <1>1 DEF BuildInv, RunsInv, Holds
<1>. QED BY <1>1, <1>2, RunGoes

LEMMA ResolveInfoStep == ASSUME BuildInv, NEW b \in Builder, ResolveInfo(b) PROVE BuildInv'
<1>1. StaysTrue
  BY StillKept DEF cppVars, ResolveInfo
<1>2. build[b] = [at |-> build[b].at, natives |-> build[b].natives,
                  listed |-> build[b].listed, held |-> build[b].held] /\ DOMAIN build = Builder
  BY DEF BuildInv, RunsInv, RunShape
<1>3. PICK natives, t, h : natives = Listing /\ t = ticks /\ h = build[b].held
  OBVIOUS
<1>4. build' = [build EXCEPT ![b] = [build[b] EXCEPT !.at = "checking", !.natives = natives,
                                                     !.listed = t]]
  BY <1>2, <1>3 DEF ResolveInfo
<1>5. OnlyMoves(b, RunAt("checking", natives, t, h))
  BY <1>2, <1>3, <1>4 DEF OnlyMoves, RunAt
<1>6. Lists(natives, t)
  <2>1. ticks \in 0 .. ticks
    BY DEF BuildInv, Clock
  <2>. QED BY <1>3, <2>1 DEF Lists, Listing
<1>7. RunShape(b)' /\ Lists(build[b].natives, build[b].listed)' /\ Stands(b, "checking")'
  BY <1>1, <1>5, <1>6, RunGoes
<1>8. Holds(b)'
  BY <1>7 DEF Holds, Stands, AtFile
<1>. QED BY <1>5, <1>7, <1>8, RunOnly
  DEF ResolveInfo, NearCpp, Stands, AtFile

LEMMA CheckOutputStep == ASSUME BuildInv, NEW b \in Builder, CheckOutput(b) PROVE BuildInv'
<1>. USE DEF CheckOutput
<1>1. StaysTrue
  BY StillKept DEF cppVars
<1>2. CASE MoveOn(b, "parsing")
  <2>1. OnlyMoves(b, RunAt("parsing", build[b].natives, build[b].listed, build[b].held))
    BY <1>2, MovesOn
  <2>2. RunShape(b)' /\ Lists(build[b].natives, build[b].listed)' /\ Stands(b, "parsing")'
    BY <1>1, <2>1, RunGoesOn
  <2>3. Holds(b)'
    BY <2>2 DEF Holds, Stands, AtFile
  <2>. QED BY <2>1, <2>2, <2>3, RunOnly DEF NearCpp, Stands, AtFile
<1>3. CASE Forget(b, "built")
  BY <1>1, <1>3, Forgotten, RunOnly
<1>. QED BY <1>2, <1>3

LEMMA ReadSourcesStep == ASSUME BuildInv, NEW b \in Builder, ReadSources(b) PROVE BuildInv'
<1>1. StaysTrue /\ ticks \in Nat
  BY StillKept DEF BuildInv, Clock, cppVars, ReadSources
<1>2. PICK u : u = [k \in Tree \X {0} |-> Compiled(k[1])]
  OBVIOUS
<1>3. OnlyMoves(b, RunAt("generating", build[b].natives, build[b].listed, u))
  <2>1. Take(b, "generating", u)
    BY <1>2 DEF ReadSources
  <2>. QED BY <2>1, Takes
<1>4. Unit(u) /\ DOMAIN u = TreeKey
  <2>1. ticks \in 0 .. ticks
    BY <1>1
  <2>. QED BY <1>2, <2>1 DEF Unit, Made, Compiled, ObjectKey, TreeKey
<1>5. Unit(u)'
  BY <1>1, <1>4, KeptMore
<1>6. RunShape(b)' /\ Lists(build[b].natives, build[b].listed)' /\ Stands(b, "generating")'
      /\ build'[b].held = u
  BY <1>1, <1>3, RunGoesOn
<1>7. Unit(build[b].held)' /\ DOMAIN build'[b].held = TreeKey
  BY <1>4, <1>5, <1>6 DEF Unit
<1>8. Holds(b)'
  BY <1>6, <1>7 DEF Holds, Stands, AtFile
<1>. QED BY <1>3, <1>6, <1>8, RunOnly
  DEF ReadSources, NearCpp, Stands, AtFile

\* Who opens the file while another has it or its compiler has not read it crosses it.
LEMMA OpenCppStep == ASSUME BuildInv, NEW b \in Builder, OpenCpp(b) PROVE BuildInv'
<1>. USE DEF OpenCpp
<1>0. crossed \in BOOLEAN /\ crossed' \in BOOLEAN /\ (crossed => crossed')
  BY DEF BuildInv, CrossInv
<1>1. StaysTrue /\ ticks \in Nat
  BY <1>0, StillKept DEF BuildInv, Clock
<1>2. OnlyMoves(b, RunAt("overwriting", build[b].natives, build[b].listed, build[b].held))
  BY MovesOn
<1>3. RunShape(b)' /\ Lists(build[b].natives, build[b].listed)' /\ Stands(b, "overwriting")'
      /\ build'[b].held = build[b].held
  <2>1. PICK u : u = build[b].held
    OBVIOUS
  <2>. QED BY <1>1, <1>2, <2>1, RunGoesOn
<1>4. Unit(build[b].held)' /\ DOMAIN build'[b].held = TreeKey
  <2>1. PICK u : u = build[b].held
    OBVIOUS
  <2>2. Unit(u) /\ DOMAIN u = TreeKey
    BY <2>1 DEF BuildInv, RunsInv, Holds
  <2>3. Unit(u)'
    BY <1>1, <2>2, KeptMore
  <2>4. build'[b].held = u
    BY <1>3, <2>1
  <2>. QED BY <2>2, <2>3, <2>4 DEF Unit
<1>5. Holds(b)'
  BY <1>3, <1>4 DEF Holds, Stands, AtFile
<1>6. CppInv'
  <2>1. \A c \in cpp : c.hands \subseteq Builder
    BY DEF BuildInv, CppInv
  <2>. QED BY <2>1 DEF CppInv, FileShape, AtMostOne
<1>7. CrossInv'
  <2>. SUFFICES ASSUME ~crossed'
                PROVE  /\ \A c, d \in Builder : AtFile(c)' /\ NearCpp(d)' => c = d
                       /\ \A d \in Builder, c \in cpp' : /\ AtFile(d)' => c.hands = {d}
                                                         /\ Stands(d, "compiling")' => c.text = "whole"
    BY <1>0 DEF CrossInv
  <2>1. \A d \in Builder : ~NearCpp(d)
    BY <1>0 DEF NearCpp
  <2>2. \A d \in Builder \ {b} : ~NearCpp(d)'
    BY <1>2, <2>1 DEF OnlyMoves, NearCpp, AtFile, Stands
  <2>3. ~Stands(b, "compiling")'
    BY <1>3 DEF Stands
  <2>4. \A c \in cpp : \A d \in c.hands : d \in Builder
    BY DEF BuildInv, CppInv
  <2>5. \A c \in cpp' : c.hands = {b}
    BY <2>1, <2>4 DEF NearCpp
  <2>. QED BY <2>2, <2>3, <2>5 DEF NearCpp
<1>8. \A l : Linked(l) => Linked(l)'
  BY <1>1, LinkedKept
<1>9. DOMAIN build' = Builder /\ \A c \in Builder : build'[c] # build[c] => RunShape(c)' /\ Holds(c)'
  BY <1>2, <1>3, <1>5 DEF OnlyMoves
<1>. QED BY <1>1, <1>6, <1>7, <1>8, <1>9, StepInv

LEMMA WriteCppStep == ASSUME BuildInv, NEW b \in Builder, WriteCpp(b) PROVE BuildInv'
<1>. USE DEF WriteCpp
<1>0. UNCHANGED treeVars /\ crossed' = crossed /\ AtFile(b)
  OBVIOUS
<1>1. StaysTrue /\ ticks \in Nat
  <2>. HIDE DEF WriteCpp
  <2>1. StaysTrue
    BY <1>0, StillKept
  <2>2. ticks \in Nat
    BY DEF BuildInv, Clock
  <2>. QED BY <2>1, <2>2
<1>2. OnlyMoves(b, RunAt("compiling", build[b].natives, build[b].listed, build[b].held))
  BY MovesOn
<1>3. RunShape(b)' /\ Lists(build[b].natives, build[b].listed)' /\ Stands(b, "compiling")'
  BY <1>1, <1>2, RunGoesOn
<1>4. Holds(b)'
  BY <1>3 DEF Holds, Stands, AtFile
<1>5. PICK u : u = build[b].held
  OBVIOUS
<1>6. Unit(u) /\ DOMAIN u = TreeKey
  BY <1>5 DEF BuildInv, RunsInv, Holds
<1>7. Unit(u)'
  BY <1>1, <1>6, KeptMore
<1>8. ASSUME NEW x \in cpp'
      PROVE  \E c \in cpp :
               \/ b \in c.hands /\ x = [unit |-> u, text |-> TextOf(c, b), hands |-> c.hands]
               \/ b \notin c.hands /\ x = c
  <2>1. PICK c \in cpp : x = IF b \in c.hands THEN [c EXCEPT !.unit = u, !.text = TextOf(c, b)] ELSE c
    BY <1>5
  <2>. DEFINE f == [unit |-> c.unit, text |-> c.text, hands |-> c.hands]
  <2>2. c = f
    BY DEF BuildInv, CppInv, FileShape
  <2>3. PICK t : t = TextOf(c, b)
    OBVIOUS
  <2>4. b \in c.hands => x = [f EXCEPT !.unit = u, !.text = t]
    BY <2>1, <2>2, <2>3
  <2>5. b \in c.hands => x = [unit |-> u, text |-> t, hands |-> c.hands]
    BY <2>4
  <2>. QED BY <2>1, <2>3, <2>5
<1>9. CppInv'
  <2>1. AtMostOne(cpp)'
    BY DEF AtMostOne, BuildInv, CppInv
  <2>2. ASSUME NEW x \in cpp'
        PROVE  /\ FileShape(x) /\ x.hands \subseteq Builder
               /\ x.text # "partial" => Unit(x.unit)' /\ DOMAIN x.unit = TreeKey
    <3>1. PICK c \in cpp :
            \/ b \in c.hands /\ x = [unit |-> u, text |-> TextOf(c, b), hands |-> c.hands]
            \/ b \notin c.hands /\ x = c
      BY <1>8, <2>2
    <3>2. FileShape(c) /\ c.hands \subseteq Builder
      BY DEF BuildInv, CppInv
    <3>3. CASE x = [unit |-> u, text |-> TextOf(c, b), hands |-> c.hands]
      <4>1. x.unit = u /\ x.hands = c.hands /\ x.text = TextOf(c, b)
        BY <3>3
      <4>2. FileShape(x)
        BY <3>3, <4>1 DEF FileShape
      <4>3. Unit(x.unit)' /\ DOMAIN x.unit = TreeKey
        BY <1>6, <1>7, <4>1 DEF Unit
      <4>. QED BY <3>2, <4>1, <4>2, <4>3
    <3>4. CASE x = c
      <4>1. x.text # "partial" => Unit(x.unit) /\ DOMAIN x.unit = TreeKey
        BY <3>4 DEF BuildInv, CppInv
      <4>. QED BY <1>1, <3>2, <3>4, <4>1, KeptMore
    <3>. QED BY <3>1, <3>3, <3>4
  <2>. QED BY <2>1, <2>2 DEF CppInv, Unit, FileShape
<1>10. CrossInv'
  <2>. SUFFICES ASSUME ~crossed
                PROVE  /\ \A c, d \in Builder : AtFile(c)' /\ NearCpp(d)' => c = d
                       /\ \A d \in Builder, c \in cpp' : /\ AtFile(d)' => c.hands = {d}
                                                         /\ Stands(d, "compiling")' => c.text = "whole"
    BY DEF CrossInv, BuildInv
  <2>1. \A d \in Builder : AtFile(d) => d = b
    BY DEF BuildInv, CrossInv, NearCpp
  <2>2. \A d \in Builder : ~AtFile(d)'
    BY <1>2, <1>3, <2>1 DEF OnlyMoves, AtFile, Stands
  <2>3. ASSUME NEW x \in cpp' PROVE x.text = "whole"
    <3>1. \A c \in cpp : c.hands = {b}
      BY <1>0 DEF BuildInv, CrossInv
    <3>2. PICK c \in cpp :
            \/ b \in c.hands /\ x = [unit |-> u, text |-> TextOf(c, b), hands |-> c.hands]
            \/ b \notin c.hands /\ x = c
      BY <1>8, <2>3
    <3>. QED BY <3>1, <3>2 DEF TextOf
  <2>. QED BY <2>2, <2>3
<1>11. \A l : Linked(l) => Linked(l)'
  BY <1>1, LinkedKept
<1>12. DOMAIN build' = Builder /\ \A c \in Builder : build'[c] # build[c] => RunShape(c)' /\ Holds(c)'
  BY <1>2, <1>3, <1>4 DEF OnlyMoves
<1>. QED BY <1>1, <1>9, <1>10, <1>11, <1>12, StepInv

LEMMA KeyFacts ==
  /\ IsFiniteSet(ObjectKey) /\ \A k \in ObjectKey : k[1] \in Part
  /\ \A k \in ObjectKey : k[1] \notin Tree => k[1] \in Range(Native)
<1>1. IsFiniteSet(TreeKey)
  <2>1. IsFiniteSet({0})
    BY FS_Singleton
  <2>. QED BY <2>1, FS_Product DEF TreeKey
<1>2. IsFiniteSet(Range(Native) \X (1 .. Len(Native)))
  <2>1. IsFiniteSet(1 .. Len(Native))
    <3>1. 1 \in Int /\ Len(Native) \in Int
      BY NativeFacts
    <3>. QED BY <3>1, FS_Interval
  <2>. QED BY <2>1, NativeFacts, FS_Product
<1>3. IsFiniteSet(ObjectKey)
  BY <1>1, <1>2, FS_Union DEF ObjectKey
<1>. QED BY <1>3 DEF ObjectKey, TreeKey, Part

LEMMA ListedIn ==
  ASSUME NEW natives, NEW t, Lists(natives, t), NEW D \in SUBSET ObjectKey, natives \subseteq Sources(D)
  PROVE  Lists(Sources(D) \ Tree, t)
<1>1. Sources(D) \ Tree \subseteq Range(Native)
  BY KeyFacts DEF Sources
<1>2. \A n \in Range(Native) : n \notin Tree
  OBVIOUS
<1>. QED BY <1>1, <1>2 DEF Lists

LEMMA CompileSourcesStep == ASSUME BuildInv, NEW b \in Builder, CompileSources(b) PROVE BuildInv'
<1>1. StaysTrue /\ ticks \in Nat
  BY StillKept DEF BuildInv, Clock, cppVars, CompileSources
<1>2. PICK natives : natives = build[b].natives
  OBVIOUS
<1>3. PICK N : N = {<<n, Number(n, natives)>> : n \in natives}
  OBVIOUS
<1>0. PICK f \in cpp, whole \in BOOLEAN :
        /\ f.text = (IF whole THEN "whole" ELSE "partial") \/ f.text = "mixed"
        /\ LET mine == [k \in N |-> Compiled(k[1])]
               unit == Onto(mine, IF whole THEN f.unit ELSE [k \in Tree \X {0} |-> Torn])
           IN /\ Take(b, "writing", unit)
              /\ objects' = IF target = "static" THEN Onto(unit, objects) ELSE objects
  BY <1>2, <1>3 DEF CompileSources
<1>4. PICK c, unit : /\ c = (IF whole THEN f.unit ELSE [k \in Tree \X {0} |-> Torn])
                     /\ unit = Onto([k \in N |-> Compiled(k[1])], c)
                     /\ Take(b, "writing", unit)
                     /\ objects' = IF target = "static" THEN Onto(unit, objects) ELSE objects
  BY <1>0
<1>5. Unit(c) /\ DOMAIN c = TreeKey
  <2>1. CASE whole
    BY <1>0, <1>4, <2>1 DEF BuildInv, CppInv
  <2>2. CASE ~whole
    <3>1. crossed
      <4>1. f.text # "whole" /\ Stands(b, "compiling")
        BY <1>0, <2>2 DEF CompileSources
      <4>. QED BY <4>1 DEF BuildInv, CrossInv
    <3>2. c = [k \in TreeKey |-> Torn] /\ ticks \in 0 .. ticks
      BY <1>1, <1>4, <2>2 DEF TreeKey
    <3>3. \A k \in TreeKey : k[1] \in Tree
      BY DEF TreeKey
    <3>. QED BY <3>1, <3>2, <3>3 DEF Unit, Made, Torn, ObjectKey
  <2>. QED BY <2>1, <2>2
<1>6. natives \in SUBSET Range(Native)
  BY <1>2 DEF BuildInv, RunsInv, Holds, Lists
<1>7. N \subseteq ObjectKey /\ natives \subseteq Sources(N)
  <2>1. \A n \in natives : <<n, Number(n, natives)>> \in ObjectKey
    BY <1>6, Numbered DEF ObjectKey
  <2>2. \A n \in natives : <<n, Number(n, natives)>>[1] = n
    OBVIOUS
  <2>. QED BY <1>3, <2>1, <2>2 DEF Sources
<1>8. DOMAIN unit = N \cup TreeKey
  BY <1>4, <1>5 DEF Onto
<1>9. Unit(unit)
  <2>1. TreeKey \subseteq DOMAIN unit /\ DOMAIN unit \subseteq ObjectKey
    BY <1>7, <1>8 DEF ObjectKey
  <2>2. ASSUME NEW k \in N PROVE Made(k[1], unit[k])
    <3>1. unit[k] = Compiled(k[1])
      BY <1>4, <1>8, <2>2 DEF Onto
    <3>2. ticks \in 0 .. ticks
      BY <1>1
    <3>. QED BY <3>1, <3>2 DEF Made, Compiled
  <2>3. ASSUME NEW k \in TreeKey, k \notin N PROVE Made(k[1], unit[k])
    <3>1. unit[k] = c[k]
      BY <1>4, <1>8, <2>3 DEF Onto
    <3>. QED BY <1>5, <3>1 DEF Unit
  <2>. QED BY <1>8, <2>1, <2>2, <2>3 DEF Unit
<1>10. OnlyMoves(b, RunAt("writing", build[b].natives, build[b].listed, unit))
  BY <1>4, Takes
<1>11. RunShape(b)' /\ Lists(build[b].natives, build[b].listed)' /\ Stands(b, "writing")'
       /\ build'[b].natives = natives /\ build'[b].held = unit
  BY <1>1, <1>2, <1>10, RunGoesOn
<1>12. Unit(unit)'
  BY <1>1, <1>9, KeptMore
<1>13. Unit(build[b].held)'
  BY <1>11, <1>12 DEF Unit
<1>14. natives \subseteq Sources(DOMAIN unit)
  BY <1>7, <1>8 DEF Sources
<1>15. target' = "static" => DOMAIN unit \subseteq DOMAIN objects'
  BY <1>1, <1>4 DEF StaysTrue, Onto
<1>16. Holds(b)'
  BY <1>11, <1>13, <1>14, <1>15 DEF Holds, Stands, AtFile
<1>17. ObjectsInv' /\ DOMAIN objects \subseteq DOMAIN objects'
  <2>1. CASE target = "static"
    <3>1. objects' = Onto(unit, objects)
      BY <1>4, <2>1
    <3>2. DOMAIN objects' = DOMAIN unit \cup DOMAIN objects
      BY <3>1 DEF Onto
    <3>3. ASSUME NEW k \in DOMAIN objects' PROVE Made(k[1], objects[k])'
      <4>1. CASE k \in DOMAIN unit
        <5>1. objects'[k] = unit[k]
          BY <3>1, <3>2, <4>1 DEF Onto
        <5>2. Made(k[1], unit[k])'
          BY <1>12, <4>1 DEF Unit
        <5>. QED BY <5>1, <5>2 DEF Made
      <4>2. CASE k \notin DOMAIN unit
        <5>1. objects'[k] = objects[k] /\ k \in DOMAIN objects
          BY <3>1, <3>2, <4>2 DEF Onto
        <5>2. PICK x : x = objects[k]
          OBVIOUS
        <5>3. Made(k[1], x) /\ k[1] \in Part
          BY <5>1, <5>2, KeyFacts DEF BuildInv, ObjectsInv
        <5>4. Made(k[1], x)'
          BY <1>1, <5>3 DEF StaysTrue
        <5>. QED BY <5>1, <5>2, <5>4 DEF Made
      <4>. QED BY <4>1, <4>2
    <3>. QED BY <1>9, <3>2, <3>3 DEF ObjectsInv, BuildInv, Unit
  <2>2. CASE target # "static"
    <3>1. objects' = objects
      BY <1>4, <2>2
    <3>. QED BY <1>1, <3>1, KeyFacts DEF StaysTrue, ObjectsInv, BuildInv
  <2>. QED BY <2>1, <2>2
<1>18. \A l : Linked(l) => Linked(l)'
  BY <1>1, LinkedKept DEF CompileSources
<1>19. DOMAIN build' = Builder /\ \A d \in Builder : build'[d] # build[d] => RunShape(d)' /\ Holds(d)'
  BY <1>10, <1>11, <1>16 DEF OnlyMoves
<1>20. CrossInv'
  BY <1>10, <1>11, CrossMoves DEF CompileSources, cppVars, NearCpp, AtFile, Stands
<1>. QED BY <1>1, <1>17, <1>18, <1>19, <1>20, StepInv DEF CompileSources, cppVars

\* What is made of a unit is a library.
LEMMA LinkStagingStep == ASSUME BuildInv, NEW b \in Builder, LinkStaging(b) PROVE BuildInv'
<1>1. StaysTrue /\ ticks \in Nat
  BY StillKept DEF BuildInv, Clock, cppVars, LinkStaging
<1>2. PICK unit, natives, t : unit = build[b].held /\ natives = build[b].natives /\ t = build[b].listed
  OBVIOUS
<1>3. PICK o : o = [names |-> SetToSeq(DOMAIN unit), objs |-> unit, time |-> ticks, listed |-> t]
  OBVIOUS
<1>4. OnlyMoves(b, RunAt("replacing", build[b].natives, build[b].listed, o))
  <2>1. Take(b, "replacing", o)
    BY <1>2, <1>3 DEF LinkStaging
  <2>. QED BY <2>1, Takes
<1>5. Unit(unit) /\ natives \subseteq Sources(DOMAIN unit) /\ Lists(natives, t)
  BY <1>2 DEF BuildInv, RunsInv, Holds, LinkStaging
<1>6. IsFiniteSet(DOMAIN unit)
  BY <1>5, KeyFacts, FS_Subset DEF Unit
<1>7. o.names \in Seq(ObjectKey) /\ IsInjective(o.names) /\ Range(o.names) = DOMAIN unit
  <2>1. o.names \in Seq(DOMAIN unit) /\ IsInjective(o.names) /\ Range(o.names) = DOMAIN unit
    BY <1>3, <1>6, Enumerated
  <2>. QED BY <1>5, <2>1, SeqMonotonic DEF Unit
<1>8. Lists(Sources(DOMAIN unit) \ Tree, t)
  BY <1>5, ListedIn DEF Unit
<1>9. Library(o)
  <2>1. o.time \in 0 .. ticks /\ o.objs = unit /\ o.listed = t
    BY <1>1, <1>3
  <2>. QED BY <1>5, <1>7, <1>8, <2>1 DEF Library, Unit
<1>10. Library(o)'
  BY <1>1, <1>9, KeptMore
<1>11. RunShape(b)' /\ Lists(build[b].natives, build[b].listed)' /\ Stands(b, "replacing")'
       /\ build'[b].held = o
  BY <1>1, <1>4, RunGoesOn
<1>12. Library(build[b].held)'
  BY <1>10, <1>11 DEF Library, Lists, Unit
<1>13. Holds(b)'
  BY <1>11, <1>12 DEF Holds, Stands, AtFile, LinkStaging, treeVars
<1>. QED BY <1>4, <1>11, <1>13, RunOnly
  DEF LinkStaging, NearCpp, Stands, AtFile

LEMMA ReplaceOutputStep == ASSUME BuildInv, NEW b \in Builder, ReplaceOutput(b) PROVE BuildInv'
<1>. USE DEF ReplaceOutput
<1>1. StaysTrue /\ ticks \in Nat
  BY StillKept DEF BuildInv, Clock, cppVars
<1>2. Library(build[b].held) /\ target = "shared"
  BY DEF BuildInv, RunsInv, Holds
<1>3. PICK o : o = build[b].held
  OBVIOUS
<1>4. Library(o)' /\ output' = {o}
  BY <1>1, <1>2, <1>3, KeptMore
<1>5. OutputInv'
  BY <1>4 DEF OutputInv, AtMostOne
<1>6. \A l : Linked(l) => Linked(l)'
  BY <1>2 DEF Linked
<1>7. OnlyMoves(b, Waiting("cleaning")) /\ RunShape(b)' /\ Holds(b)' /\ ~NearCpp(b)'
  BY <1>1, Forgotten
<1>8. DOMAIN build' = Builder /\ \A c \in Builder : build'[c] # build[c] => RunShape(c)' /\ Holds(c)'
  BY <1>7 DEF OnlyMoves
<1>9. CrossInv'
  BY <1>7, CrossMoves DEF cppVars
<1>. QED BY <1>1, <1>5, <1>6, <1>8, <1>9, StepInv DEF cppVars

\* The archive keeps the members it has, with the objects that were replaced, and is
\* younger than anything that was linked before.
LEMMA ArchiveObjectsStep == ASSUME BuildInv, NEW b \in Builder, ArchiveObjects(b) PROVE BuildInv'
<1>1. StaysTrue /\ ticks \in Nat
  BY StillKept DEF BuildInv, Clock, cppVars, ArchiveObjects
<1>2. PICK unit, natives, t : unit = build[b].held /\ natives = build[b].natives /\ t = build[b].listed
  OBVIOUS
<1>3. /\ Unit(unit) /\ natives \subseteq Sources(DOMAIN unit) /\ Lists(natives, t)
      /\ DOMAIN unit \subseteq DOMAIN objects
  BY <1>2 DEF BuildInv, RunsInv, Holds, ArchiveObjects
<1>4. PICK given : given = [k \in DOMAIN unit |-> objects[k]]
  OBVIOUS
<1>5. DOMAIN given = DOMAIN unit /\ Unit(given)
  BY <1>3, <1>4 DEF Unit, BuildInv, ObjectsInv
<1>6. PICK Before, Objs, had :
        /\ Before = (IF output = {} THEN <<>> ELSE (CHOOSE o \in output : TRUE).names)
        /\ Objs = (IF output = {} THEN <<>> ELSE (CHOOSE o \in output : TRUE).objs)
        /\ had = UNION {Range(o.names) : o \in output}
  OBVIOUS
<1>7. /\ Before \in Seq(ObjectKey) /\ IsInjective(Before) /\ had = Range(Before)
      /\ Range(Before) \subseteq DOMAIN Objs /\ DOMAIN Objs \subseteq ObjectKey
      /\ \A k \in DOMAIN Objs : Made(k[1], Objs[k])
  <2>1. CASE output = {}
    <3>1. Before = <<>> /\ Objs = <<>> /\ had = {}
      BY <1>6, <2>1
    <3>2. DOMAIN Before = {} /\ DOMAIN Objs = {} /\ Before \in Seq(ObjectKey)
      BY <3>1, EmptySeq
    <3>. QED BY <3>1, <3>2 DEF IsInjective, Range
  <2>2. CASE output # {}
    <3>1. PICK o \in output : o = CHOOSE x \in output : TRUE
      BY <2>2
    <3>2. output = {o} /\ Library(o)
      BY <3>1 DEF BuildInv, OutputInv, AtMostOne
    <3>3. Before = o.names /\ Objs = o.objs
      BY <1>6, <2>2, <3>1
    <3>4. had = Range(o.names)
      BY <1>6, <3>2
    <3>. QED BY <3>2, <3>3, <3>4 DEF Library, Unit
  <2>. QED BY <2>1, <2>2
<1>8. PICK new : new = SetToSeq(DOMAIN given \ had)
  OBVIOUS
<1>9. new \in Seq(ObjectKey) /\ IsInjective(new) /\ Range(new) = DOMAIN given \ had
  <2>1. IsFiniteSet(DOMAIN given \ had)
    BY <1>5, KeyFacts, FS_Subset DEF Unit
  <2>2. new \in Seq(DOMAIN given \ had) /\ IsInjective(new) /\ Range(new) = DOMAIN given \ had
    BY <1>8, <2>1, Enumerated
  <2>. QED BY <1>5, <2>2, SeqMonotonic DEF Unit
<1>10. PICK o : o = [names |-> Before \o new, objs |-> Onto(given, Objs), time |-> ticks, listed |-> t]
  OBVIOUS
<1>11. output' = {o}
  BY <1>2, <1>4, <1>6, <1>8, <1>10 DEF ArchiveObjects
<1>12. /\ o.names \in Seq(ObjectKey) /\ IsInjective(o.names)
       /\ Range(o.names) = Range(Before) \cup DOMAIN given
  <2>1. Range(Before) \cap Range(new) = {}
    BY <1>7, <1>9
  <2>2. /\ o.names \in Seq(ObjectKey) /\ IsInjective(o.names)
        /\ Range(o.names) = Range(Before) \cup Range(new)
    BY <1>7, <1>9, <1>10, <2>1, Joined
  <2>. QED BY <1>7, <1>9, <2>2
<1>13. Unit(o.objs) /\ DOMAIN o.objs = DOMAIN given \cup DOMAIN Objs
  <2>1. DOMAIN o.objs = DOMAIN given \cup DOMAIN Objs
    BY <1>10 DEF Onto
  <2>2. \A k \in DOMAIN o.objs : o.objs[k] = IF k \in DOMAIN given THEN given[k] ELSE Objs[k]
    BY <1>10 DEF Onto
  <2>. QED BY <1>5, <1>7, <2>1, <2>2 DEF Unit
<1>14. Lists(Sources(Range(o.names)) \ Tree, t)
  <2>1. Range(o.names) \subseteq ObjectKey
    BY <1>5, <1>7, <1>12 DEF Unit
  <2>2. natives \subseteq Sources(Range(o.names))
    BY <1>3, <1>5, <1>12 DEF Sources
  <2>. QED BY <1>3, <2>1, <2>2, ListedIn
<1>15. Library(o)
  <2>1. o.time \in 0 .. ticks /\ o.listed = t
    BY <1>1, <1>10
  <2>2. TreeKey \subseteq Range(o.names) /\ Range(o.names) \subseteq DOMAIN o.objs
    BY <1>5, <1>7, <1>12, <1>13 DEF Unit
  <2>. QED BY <1>12, <1>13, <1>14, <2>1, <2>2 DEF Library
<1>16. OutputInv'
  BY <1>1, <1>11, <1>15, KeptMore DEF OutputInv, AtMostOne
<1>17. ASSUME NEW l, Linked(l) PROVE Linked(l)'
  <2>1. l.since \in Nat /\ l.since <= ticks /\ o.time = ticks
    BY <1>1, <1>10, <1>17 DEF Linked
  <2>2. ~(o.time < l.since)
    BY <1>1, <2>1
  <2>. QED BY <1>11, <1>17, <2>2 DEF Linked, ArchiveObjects, treeVars
<1>18. OnlyMoves(b, Waiting("cleaning")) /\ RunShape(b)' /\ Holds(b)' /\ ~NearCpp(b)'
  BY <1>1, Forgotten DEF ArchiveObjects
<1>19. DOMAIN build' = Builder /\ \A c \in Builder : build'[c] # build[c] => RunShape(c)' /\ Holds(c)'
  BY <1>18 DEF OnlyMoves
<1>20. CrossInv'
  BY <1>18, CrossMoves DEF ArchiveObjects, cppVars
<1>. QED BY <1>1, <1>16, <1>17, <1>19, <1>20, StepInv DEF ArchiveObjects, cppVars

LEMMA RemoveCppStep ==
  ASSUME BuildInv, NEW b \in Builder, NEW place, NEW next \in {"built", "over"},
         RemoveCpp(b, place, next)
  PROVE  BuildInv'
<1>. USE DEF RemoveCpp
<1>1. StaysTrue /\ ticks \in Nat
  BY StillKept DEF BuildInv, Clock, cppVars
<1>2. CppInv'
  BY DEF CppInv, AtMostOne
<1>3. \A l : Linked(l) => Linked(l)'
  BY <1>1, LinkedKept
<1>4. OnlyMoves(b, Waiting(next)) /\ RunShape(b)' /\ Holds(b)' /\ ~NearCpp(b)'
  BY <1>1, Forgotten
<1>5. DOMAIN build' = Builder /\ \A c \in Builder : build'[c] # build[c] => RunShape(c)' /\ Holds(c)'
  BY <1>4 DEF OnlyMoves
<1>9. CrossInv'
  BY <1>4, CrossMoves DEF cppVars
<1>. QED BY <1>1, <1>2, <1>3, <1>5, <1>9, StepInv

LEMMA CompileFailsStep == ASSUME BuildInv, NEW b \in Builder, CompileFails(b) PROVE BuildInv'
<1>1. CASE Forget(b, "over") /\ UNCHANGED <<treeVars, cppVars, objects, output, host>>
  <2>1. StaysTrue
    BY <1>1, StillKept DEF cppVars
  <2>. QED BY <1>1, <2>1, Forgotten, RunOnly
<1>2. CASE \E place \in {"compiling", "writing", "replacing"} : RemoveCpp(b, place, "over")
  BY <1>2, RemoveCppStep
<1>. QED BY <1>1, <1>2 DEF CompileFails

LEMMA CheckHostStep == ASSUME BuildInv, NEW b \in Builder, CheckHost(b) PROVE BuildInv'
<1>1. StaysTrue
  BY StillKept DEF cppVars, CheckHost
<1>2. CASE target = "static" /\ MoveOn(b, "linking")
  <2>1. OnlyMoves(b, RunAt("linking", build[b].natives, build[b].listed, build[b].held))
    BY <1>2, MovesOn
  <2>2. RunShape(b)' /\ Lists(build[b].natives, build[b].listed)' /\ Stands(b, "linking")'
    BY <1>1, <2>1, RunGoesOn
  <2>3. Holds(b)'
    BY <1>1, <1>2, <2>2 DEF Holds, Stands, AtFile, StaysTrue
  <2>. QED BY <2>1, <2>2, <2>3, RunOnly
  DEF CheckHost, NearCpp, Stands, AtFile
<1>3. CASE Forget(b, "over")
  BY <1>1, <1>3, Forgotten, RunOnly DEF CheckHost
<1>. QED BY <1>2, <1>3 DEF CheckHost

LEMMA LinkHostStep == ASSUME BuildInv, NEW b \in Builder, LinkHost(b) PROVE BuildInv'
<1>1. StaysTrue /\ ticks \in Nat
  BY StillKept DEF BuildInv, Clock, cppVars, LinkHost
<1>2. PICK o, l : /\ o \in output
                  /\ l = [from |-> [p \in Part |-> FirstOf(o, p).version], since |-> ticks]
                  /\ Take(b, "linkwriting", l)
  BY DEF LinkHost
<1>3. Linked(l)
  <2>1. l.since \in 0 .. ticks /\ \A p \in Part : l.from[p] = FirstOf(o, p).version
    BY <1>1, <1>2
  <2>2. target = "static"
    BY DEF BuildInv, RunsInv, Holds, LinkHost
  <2>. QED BY <1>2, <2>1, <2>2 DEF Linked, BuildInv, OutputInv, AtMostOne
<1>4. OnlyMoves(b, RunAt("linkwriting", build[b].natives, build[b].listed, l))
  BY <1>2, Takes
<1>5. RunShape(b)' /\ Lists(build[b].natives, build[b].listed)' /\ Stands(b, "linkwriting")'
      /\ build'[b].held = l
  BY <1>1, <1>4, RunGoesOn
<1>6. Linked(l)'
  BY <1>1, <1>3, LinkedKept DEF LinkHost
<1>7. Linked(build[b].held)'
  BY <1>5, <1>6 DEF Linked
<1>8. Holds(b)'
  BY <1>5, <1>7 DEF Holds, Stands, AtFile
<1>. QED BY <1>4, <1>5, <1>8, RunOnly
  DEF LinkHost, NearCpp, Stands, AtFile

\* A host program that is written was linked as its run has it in hand.
LEMMA HostWritten ==
  ASSUME BuildInv, StaysTrue, ticks' = ticks, output' = output, target' = target,
         NEW b \in Builder, Stands(b, "linkwriting"), NEW whole, host' = {HostFile(b, whole)}
  PROVE  HostFileInv'
<1>1. ticks \in Nat
  BY DEF BuildInv, Clock
<1>2. PICK h : h = HostFile(b, whole)
  OBVIOUS
<1>3. h.from = build[b].held.from /\ h.since = build[b].held.since /\ h.time = ticks
  BY <1>2 DEF HostFile
<1>4. Linked(build[b].held)
  BY DEF BuildInv, RunsInv, Holds
<1>5. Linked(h)
  BY <1>3, <1>4 DEF Linked
<1>6. Linked(h)'
  BY <1>1, <1>5, LinkedKept
<1>7. host' = {h} /\ h.time \in 0 .. ticks'
  BY <1>1, <1>2, <1>3
<1>. QED BY <1>6, <1>7 DEF HostFileInv, AtMostOne

LEMMA WriteHostStep == ASSUME BuildInv, NEW b \in Builder, WriteHost(b) PROVE BuildInv'
<1>. USE DEF WriteHost
<1>1. StaysTrue /\ ticks \in Nat
  BY StillKept DEF BuildInv, Clock, cppVars
<1>2. HostFileInv'
  <2>1. CASE host' = {HostFile(b, TRUE)}
    BY <1>1, <2>1, HostWritten DEF treeVars
  <2>2. CASE host' = {}
    BY <2>2 DEF HostFileInv, AtMostOne
  <2>. QED BY <2>1, <2>2
<1>3. \A l : Linked(l) => Linked(l)'
  BY <1>1, LinkedKept
<1>4. OnlyMoves(b, Waiting("over")) /\ RunShape(b)' /\ Holds(b)' /\ ~NearCpp(b)'
  BY <1>1, Forgotten
<1>5. DOMAIN build' = Builder /\ \A c \in Builder : build'[c] # build[c] => RunShape(c)' /\ Holds(c)'
  BY <1>4 DEF OnlyMoves
<1>9. CrossInv'
  BY <1>4, CrossMoves DEF cppVars
<1>. QED BY <1>1, <1>2, <1>3, <1>5, <1>9, StepInv DEF cppVars

LEMMA KillBuildStep == ASSUME BuildInv, NEW b \in Builder, KillBuild(b) PROVE BuildInv'
<1>. USE DEF KillBuild
<1>1. StaysTrue /\ ticks \in Nat
  BY StillKept DEF BuildInv, Clock, cppVars
<1>2. host' # host => HostFileInv'
  <2>. SUFFICES ASSUME host' # host PROVE HostFileInv'
    OBVIOUS
  <2>1. Stands(b, "linkwriting") /\ host' = {HostFile(b, FALSE)}
    OBVIOUS
  <2>. QED BY <1>1, <2>1, HostWritten DEF treeVars
<1>3. \A l : Linked(l) => Linked(l)'
  BY <1>1, LinkedKept
<1>4. OnlyMoves(b, Waiting("over")) /\ RunShape(b)' /\ Holds(b)' /\ ~NearCpp(b)'
  BY <1>1, Forgotten
<1>5. DOMAIN build' = Builder /\ \A c \in Builder : build'[c] # build[c] => RunShape(c)' /\ Holds(c)'
  BY <1>4 DEF OnlyMoves
<1>9. CrossInv'
  BY <1>4, CrossMoves DEF cppVars
<1>. QED BY <1>1, <1>2, <1>3, <1>5, <1>9, StepInv DEF cppVars

-----------------------------------------------------------------------------
(* The files change.                                                       *)

LEMMA FileStep ==
  ASSUME BuildInv, NEW p \in Part, EditFile(p) \/ RemoveFile(p) \/ MoveInFile(p) \/ OverwriteFile(p)
  PROVE  BuildInv'
<1>1. edits \in Nat /\ ticks \in Nat
  BY DEF BuildInv, Clock
<1>2. StaysTrue /\ UNCHANGED <<cppVars, objects, output, host, build>>
  <2>1. CASE EditFile(p)
    <3>1. ticks' \in Nat /\ {ticks'} \subseteq 0 .. ticks'
      BY <1>1, <2>1 DEF EditFile, Change
    <3>2. edits + 1 \in 0 .. edits + 1 /\ (~There(p)) \in BOOLEAN
      BY <1>1
    <3>. QED BY <2>1, <3>1, <3>2, ChangeKept DEF EditFile, Change
  <2>2. CASE RemoveFile(p)
    <3>1. ticks' \in Nat /\ {0} \subseteq 0 .. ticks'
      BY <1>1, <2>2 DEF RemoveFile, Change
    <3>2. 0 \in 0 .. edits + 1
      BY <1>1
    <3>. QED BY <2>2, <3>1, <3>2, ChangeKept DEF RemoveFile, Change
  <2>3. CASE MoveInFile(p) \/ OverwriteFile(p)
    <3>1. edits + 1 \in 0 .. edits + 1
      BY <1>1
    <3>. QED BY <2>3, <3>1, ChangeKept DEF MoveInFile, OverwriteFile, Change
  <2>. QED BY <2>1, <2>2, <2>3
<1>3. \A l : Linked(l) => Linked(l)'
  BY <1>1, <1>2, LinkedKept
<1>4. DOMAIN build' = Builder /\ \A c \in Builder : build'[c] = build[c]
  BY <1>2 DEF BuildInv, RunsInv
<1>5. CrossInv'
  BY <1>2, <1>4, CrossKept DEF cppVars
<1>. QED BY <1>2, <1>3, <1>4, <1>5, StepInv DEF cppVars

-----------------------------------------------------------------------------
(* The theorems.                                                           *)

LEMMA StepKeepsInv == BuildInv /\ [BuildNext]_buildVars => BuildInv'
<1>. SUFFICES ASSUME BuildInv, [BuildNext]_buildVars PROVE BuildInv'
  OBVIOUS
<1>1. ASSUME NEW b \in Builder, BuilderStep(b) PROVE BuildInv'
  BY <1>1, ResolveInfoStep, CheckOutputStep, ReadSourcesStep, OpenCppStep, WriteCppStep, CompileSourcesStep,
     LinkStagingStep, ReplaceOutputStep, ArchiveObjectsStep, RemoveCppStep, CompileFailsStep,
     CheckHostStep, LinkHostStep, WriteHostStep, KillBuildStep DEF BuilderStep
<1>2. CASE UNCHANGED buildVars
  <2>1. UNCHANGED <<treeVars, cpp, crossed, objects, output, host, build>> /\ ticks \in Nat
    BY <1>2 DEF buildVars, treeVars, BuildInv, Clock
  <2>2. StaysTrue
    BY <2>1, StillKept
  <2>3. \A l : Linked(l) => Linked(l)'
    BY <2>1, <2>2, LinkedKept
  <2>4. DOMAIN build' = Builder /\ \A c \in Builder : build'[c] = build[c]
    BY <2>1 DEF BuildInv, RunsInv
  <2>5. CrossInv'
    BY <2>1, <2>4, CrossKept
  <2>. QED BY <2>1, <2>2, <2>3, <2>4, <2>5, StepInv
<1>. QED BY <1>1, <1>2, FileStep DEF BuildNext

LEMMA BuildInvariance == BuildSpec => []BuildInv
  BY BuildInitInv, StepKeepsInv, PTL DEF BuildSpec

\* BuildTypeOK: every variable of the project build keeps its type.
THEOREM BuildTypeCorrect == BuildSpec => []BuildTypeOK
  BY BuildInvariance, TypesHold, PTL

\* UpToDateIsCurrent (OutputUpToDate and BuildResolved, cli/project_commands.wio): a library
\* or host program that passes for up to date was made of what is there now, whatever builds
\* ran side by side, failed or were killed, and whatever was edited meanwhile, but for the
\* cases the property names.
THEOREM UpToDateMeansCurrent == BuildSpec => []UpToDateIsCurrent
<1>1. BuildInv => UpToDateIsCurrent
  BY Vouches, HostVouches DEF UpToDateIsCurrent
<1>. QED BY <1>1, BuildInvariance, PTL

HIDE BuildAssumption
===============================================================================
