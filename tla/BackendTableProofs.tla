-------------------------- MODULE BackendTableProofs ------------------------
(***************************************************************************)
(* What the operations on a backend table return, for every table: they    *)
(* yield tables of entries again, they keep a table sound, and they say    *)
(* which ports are listed, in which order, and which one is active; and    *)
(* two tables that look alike to whoever knows which processes live still  *)
(* do when the same is done to both.                                       *)
(***************************************************************************)
EXTENDS BackendTable, SequenceTheorems, WellFoundedInduction, TLAPS

-----------------------------------------------------------------------------
(* The first index at which something holds: SelectInSeq is built on Min.  *)

(* A non-empty set of naturals has a least element, and Min is it.         *)
LEMMA MinOfNats ==
    ASSUME NEW S \in SUBSET Nat, S # {}
    PROVE  Min(S) \in S /\ \A n \in S : Min(S) <= n
<1>1. \E x \in S : \A y \in S : ~(<<y, x>> \in OpToRel(<, Nat))
    BY WFMin, NatLessThanWellFounded
<1>2. PICK x \in S : \A y \in S : ~(<<y, x>> \in OpToRel(<, Nat))
    BY <1>1
<1>3. \A y \in S : x <= y
    <2>1. TAKE y \in S
    <2>2. ~(y < x)
        BY <1>2, <2>1 DEF OpToRel
    <2>3. QED BY <2>2
<1>4. QED BY <1>3 DEF Min

(* IndexOf finds an entry of a listed port.                                *)
LEMMA IndexOfListed ==
    ASSUME NEW E, NEW tbl \in Seq(E), NEW port, port \in PortsOf(tbl)
    PROVE  IndexOf(tbl, port) \in DOMAIN tbl /\ tbl[IndexOf(tbl, port)].port = port
<1> DEFINE I == {i \in 1..Len(tbl) : tbl[i].port = port}
<1>1. I \in SUBSET Nat /\ I # {}
    BY DEF PortsOf
<1>2. IndexOf(tbl, port) = Min(I)
    BY <1>1 DEF IndexOf, SelectInSeq
<1>3. Min(I) \in I
    BY <1>1, MinOfNats
<1>4. QED BY <1>2, <1>3

(* FirstActive finds an active entry if there is any, else it is zero.     *)
LEMMA FirstActiveIndex ==
    ASSUME NEW E, NEW tbl \in Seq(E)
    PROVE  /\ ActiveAt(tbl) = {} => FirstActive(tbl) = 0
           /\ ActiveAt(tbl) # {} => FirstActive(tbl) \in ActiveAt(tbl)
<1>1. ActiveAt(tbl) \in SUBSET Nat
    BY DEF ActiveAt
<1>2. ActiveAt(tbl) # {} => Min(ActiveAt(tbl)) \in ActiveAt(tbl)
    BY <1>1, MinOfNats
<1>3. QED BY <1>2 DEF FirstActive
-----------------------------------------------------------------------------
(* An entry, and an entry whose flag is set, come from the same request.   *)

(* Setting the flag of an entry changes nothing else of it.                *)
LEMMA EntryFlag ==
    ASSUME NEW R, NEW e \in EntriesOf(R), NEW b \in BOOLEAN
    PROVE  /\ e.active \in BOOLEAN
           /\ EntryOf(e, b) \in EntriesOf(R)
           /\ EntryOf(e, b).port = e.port
           /\ EntryOf(e, b).label = e.label
           /\ EntryOf(e, b).active = b
<1>1. PICK r \in R, a \in BOOLEAN : e = EntryOf(r, a)
    BY DEF EntriesOf
<1>2. EntryOf(e, b) = EntryOf(r, b)
    BY <1>1 DEF EntryOf
<1>3. EntryOf(r, b) \in EntriesOf(R)
    BY DEF EntriesOf
<1>4. QED BY <1>1, <1>2, <1>3 DEF EntryOf

(* An entry made from a request has the port and label of the request.     *)
LEMMA RequestEntry ==
    ASSUME NEW R, NEW r \in R, NEW b \in BOOLEAN
    PROVE  /\ EntryOf(r, b) \in EntriesOf(R)
           /\ EntryOf(r, b).port = r.port
           /\ EntryOf(r, b).label = r.label
           /\ EntryOf(r, b).active = b
<1>1. EntryOf(r, b) \in EntriesOf(R)
    BY DEF EntriesOf
<1>2. QED BY <1>1 DEF EntryOf

(* A promotion changes the flag of the first entry and nothing else.       *)
LEMMA PromoteFirstFacts ==
    ASSUME NEW R, NEW tbl \in Seq(EntriesOf(R)), tbl # << >>
    PROVE  /\ PromoteFirst(tbl) \in Seq(EntriesOf(R))
           /\ DOMAIN PromoteFirst(tbl) = DOMAIN tbl
           /\ 1 \in DOMAIN tbl
           /\ PromoteFirst(tbl)[1].active
           /\ PromoteFirst(tbl)[1].port = tbl[1].port
           /\ \A i \in DOMAIN tbl \ {1} : PromoteFirst(tbl)[i] = tbl[i]
<1> DEFINE first == EntryOf(tbl[1], TRUE)
<1>1. 1 \in 1..Len(tbl) /\ tbl[1] \in EntriesOf(R)
    BY EmptySeq, LenProperties
<1>2. /\ first \in EntriesOf(R)
      /\ first.port = tbl[1].port
      /\ first.active = TRUE
    BY <1>1, EntryFlag
<1>3. PromoteFirst(tbl) = [tbl EXCEPT ![1] = first]
    BY DEF PromoteFirst
<1> HIDE DEF first
<1>4. /\ PromoteFirst(tbl) \in Seq(EntriesOf(R))
      /\ Len(PromoteFirst(tbl)) = Len(tbl)
      /\ \A i \in 1..Len(tbl) : PromoteFirst(tbl)[i] = IF i = 1 THEN first ELSE tbl[i]
    BY <1>1, <1>2, <1>3, ExceptSeq
<1>5. QED BY <1>1, <1>2, <1>4, LenProperties

-----------------------------------------------------------------------------
(* Enlist.                                                                 *)

(* AddBackend adds the one port, and preserves soundness and the           *)
(* uniqueness of the active entry.                                         *)
LEMMA EnlistFacts ==
    ASSUME NEW R, NEW tbl \in Seq(EntriesOf(R)), NEW r \in R
    PROVE  /\ Enlist(tbl, r) \in Seq(EntriesOf(R))
           /\ Enlist(tbl, r) # << >>
           /\ PortsOf(Enlist(tbl, r)) = PortsOf(tbl) \cup {r.port}
           /\ Sound(tbl) => Sound(Enlist(tbl, r))
           /\ AtMostOneActive(tbl) => AtMostOneActive(Enlist(tbl, r))
<1>1. CASE r.port \in PortsOf(tbl)
    BY <1>1 DEF Enlist, PortsOf
<1>2. CASE r.port \notin PortsOf(tbl)
    <2> DEFINE e == EntryOf(r, tbl = << >>)
               t == Append(tbl, e)
    <2>1. e \in EntriesOf(R) /\ e.port = r.port /\ e.active = (tbl = << >>)
        <3>1. (tbl = << >>) \in BOOLEAN
            OBVIOUS
        <3>2. QED BY <3>1, RequestEntry
    <2>2. Enlist(tbl, r) = t
        BY <1>2 DEF Enlist
    <2> HIDE DEF e
    <2>3. /\ t \in Seq(EntriesOf(R))
          /\ t # << >>
          /\ DOMAIN tbl = 1..Len(tbl)
          /\ DOMAIN t = 1..(Len(tbl) + 1)
          /\ Len(tbl) \in Nat
          /\ \A i \in 1..Len(tbl) : t[i] = tbl[i]
          /\ t[Len(tbl) + 1] = e
        BY <2>1, AppendProperties, LenProperties
    <2> HIDE DEF t
    <2>4. PortsOf(t) = PortsOf(tbl) \cup {r.port}
        BY <2>1, <2>3 DEF PortsOf
    <2>5. ActiveAt(t) = IF tbl = << >> THEN {1} ELSE ActiveAt(tbl)
        <3>1. CASE tbl = << >>
            <4>1. e.active /\ Len(tbl) = 0
                BY <2>1, <3>1
            <4>2. DOMAIN t = {1} /\ t[1].active
                BY <2>3, <4>1
            <4>3. QED BY <3>1, <4>2 DEF ActiveAt
        <3>2. CASE tbl # << >>
            <4>1. ~e.active
                BY <2>1, <3>2
            <4>2. \A i \in DOMAIN t : t[i].active => i \in DOMAIN tbl
                BY <2>3, <4>1
            <4>3. \A i \in DOMAIN tbl : i \in DOMAIN t /\ t[i] = tbl[i]
                BY <2>3
            <4>4. QED BY <3>2, <4>2, <4>3 DEF ActiveAt
        <3>3. QED BY <3>1, <3>2
    <2>6. Sound(tbl) => Sound(t)
        <3>1. DistinctPorts(tbl) => DistinctPorts(t)
            BY <1>2, <2>1, <2>3 DEF DistinctPorts, PortsOf
        <3>2. SomeActive(tbl) => SomeActive(t)
            BY <2>5, EmptySeq DEF SomeActive
        <3>3. QED BY <3>1, <3>2 DEF Sound
    <2>7. AtMostOneActive(tbl) => AtMostOneActive(t)
        BY <2>5 DEF AtMostOneActive
    <2>8. QED BY <2>2, <2>3, <2>4, <2>6, <2>7
<1>3. QED BY <1>1, <1>2
-----------------------------------------------------------------------------
(* Delist.                                                                 *)

(* RemoveAt closes the gap: what was before the index stays, what was      *)
(* after it moves down by one.                                             *)
Shift(i, j) == IF j < i THEN j ELSE j + 1

(* RemoveAt is the sequence read through Shift.                            *)
LEMMA RemoveAtFacts ==
    ASSUME NEW E, NEW s \in Seq(E), NEW i \in DOMAIN s
    PROVE  /\ RemoveAt(s, i) \in Seq(E)
           /\ Len(RemoveAt(s, i)) = Len(s) - 1
           /\ \A j \in 1..(Len(s) - 1) : RemoveAt(s, i)[j] = s[Shift(i, j)]
<1> DEFINE a == SubSeq(s, 1, i - 1)
           b == SubSeq(s, i + 1, Len(s))
<1>1. /\ Len(s) \in Nat
      /\ i \in 1..Len(s)
      /\ \A j \in 1..Len(s) : s[j] \in E
    BY LenProperties
<1>2. /\ a \in Seq(E)
      /\ Len(a) = i - 1
      /\ \A j \in 1..(i - 1) : a[j] = s[j]
    BY <1>1, SubSeqProperties, SMTT(30)
<1>3. /\ b \in Seq(E)
      /\ Len(b) = Len(s) - i
      /\ \A j \in 1..(Len(s) - i) : b[j] = s[i + j]
    BY <1>1, SubSeqProperties, SMTT(30)
<1>4. RemoveAt(s, i) = a \o b
    BY DEF RemoveAt
<1> HIDE DEF a, b
<1>5. /\ a \o b \in Seq(E)
      /\ Len(a \o b) = Len(a) + Len(b)
      /\ \A j \in 1..(Len(a) + Len(b)) :
            (a \o b)[j] = IF j <= Len(a) THEN a[j] ELSE b[j - Len(a)]
    BY <1>2, <1>3, ConcatProperties
<1> DEFINE n == Len(s)
<1>6. n \in Nat /\ i \in 1..n /\ Len(a) = i - 1 /\ Len(b) = n - i
    BY <1>1, <1>2, <1>3
<1>7. \A j \in 1..n - 1 : (a \o b)[j] = s[Shift(i, j)]
    <2>1. TAKE j \in 1..n - 1
    <2>2. j \in 1..Len(a) + Len(b)
        BY <1>6
    <2>3. CASE j < i
        <3>1. j \in 1..(i - 1) /\ j <= Len(a)
            BY <1>6, <2>3
        <3>2. (a \o b)[j] = a[j]
            BY <1>5, <2>2, <3>1
        <3>3. a[j] = s[j]
            BY <1>2, <3>1
        <3>4. QED BY <2>3, <3>2, <3>3 DEF Shift
    <2>4. CASE ~(j < i)
        <3>1. j - Len(a) \in 1..n - i /\ i + (j - Len(a)) = j + 1 /\ ~(j <= Len(a))
            BY <1>6, <2>4
        <3>2. b[j - Len(a)] = s[j + 1]
            BY <1>3, <3>1
        <3>3. QED BY <1>5, <2>2, <2>4, <3>1, <3>2 DEF Shift
    <2>5. QED BY <2>3, <2>4
<1>8. Len(a \o b) = n - 1
    BY <1>5, <1>6
<1>9. QED BY <1>4, <1>5, <1>7, <1>8

(* Shift(i, _) runs through every index but i, each once.                  *)
LEMMA ShiftFacts ==
    ASSUME NEW n \in Nat, NEW i \in 1..n
    PROVE  /\ \A j \in 1..(n - 1) : Shift(i, j) \in (1..n) \ {i}
           /\ \A j, k \in 1..(n - 1) : Shift(i, j) = Shift(i, k) => j = k
           /\ \A k \in (1..n) \ {i} : \E j \in 1..(n - 1) : Shift(i, j) = k
<1>1. \A j \in 1..(n - 1) : Shift(i, j) \in (1..n) \ {i}
    BY DEF Shift
<1>2. \A j, k \in 1..(n - 1) : Shift(i, j) = Shift(i, k) => j = k
    BY DEF Shift
<1>3. ASSUME NEW k \in (1..n) \ {i}
      PROVE  \E j \in 1..(n - 1) : Shift(i, j) = k
    <2>1. CASE k < i
        BY <2>1 DEF Shift
    <2>2. CASE k > i
        <3>1. k - 1 \in 1..(n - 1) /\ Shift(i, k - 1) = k
            BY <2>2 DEF Shift
        <3>2. QED BY <3>1
    <2>3. QED BY <2>1, <2>2
<1>4. QED BY <1>1, <1>2, <1>3

(* RemoveBackend takes away the one port; the promotion keeps some entry   *)
(* active, and one at most.                                                *)
LEMMA DelistFacts ==
    ASSUME NEW R, NEW tbl \in Seq(EntriesOf(R)), NEW port, Sound(tbl)
    PROVE  /\ Delist(tbl, port) \in Seq(EntriesOf(R))
           /\ PortsOf(Delist(tbl, port)) = PortsOf(tbl) \ {port}
           /\ Sound(Delist(tbl, port))
           /\ AtMostOneActive(tbl) => AtMostOneActive(Delist(tbl, port))
<1>1. CASE port \notin PortsOf(tbl)
    BY <1>1 DEF Delist
<1>2. CASE port \in PortsOf(tbl)
    <2> DEFINE E == EntriesOf(R)
               i == IndexOf(tbl, port)
               n == Len(tbl)
               rest == RemoveAt(tbl, i)
    <2>1. i \in DOMAIN tbl /\ tbl[i].port = port
        BY <1>2, IndexOfListed
    <2>2. n \in Nat /\ DOMAIN tbl = 1..n
        BY LenProperties
    <2>3. /\ rest \in Seq(E)
          /\ DOMAIN rest = 1..(n - 1)
          /\ \A j \in 1..(n - 1) : rest[j] = tbl[Shift(i, j)]
        BY <2>1, RemoveAtFacts, LenProperties
    <2>4. Delist(tbl, port) =
            IF tbl[i].active /\ rest # << >> THEN PromoteFirst(rest) ELSE rest
        BY <1>2 DEF Delist
    <2>5. /\ \A j \in 1..(n - 1) : Shift(i, j) \in (1..n) \ {i}
          /\ \A j, k \in 1..(n - 1) : Shift(i, j) = Shift(i, k) => j = k
          /\ \A k \in (1..n) \ {i} : \E j \in 1..(n - 1) : Shift(i, j) = k
        BY <2>1, <2>2, ShiftFacts
    <2> HIDE DEF i, rest, n, E
    <2>6. \A j, k \in DOMAIN tbl : tbl[j].port = tbl[k].port => j = k
        BY DEF Sound, DistinctPorts
    <2>7. PortsOf(rest) = PortsOf(tbl) \ {port}
        <3>1. ASSUME NEW j \in DOMAIN rest
              PROVE  rest[j].port \in PortsOf(tbl) \ {port}
            BY <2>1, <2>2, <2>3, <2>5, <2>6 DEF PortsOf
        <3>2. ASSUME NEW k \in DOMAIN tbl, tbl[k].port # port
              PROVE  tbl[k].port \in PortsOf(rest)
            <4>1. PICK j \in 1..(n - 1) : Shift(i, j) = k
                BY <2>1, <2>2, <2>5, <3>2
            <4>2. QED BY <2>3, <4>1 DEF PortsOf
        <3>3. QED BY <3>1, <3>2 DEF PortsOf
    <2>8. DistinctPorts(rest)
        BY <2>2, <2>3, <2>5, <2>6 DEF DistinctPorts
    <2>9. CASE tbl[i].active /\ rest # << >>
        <3> DEFINE t == PromoteFirst(rest)
        <3>1. /\ t \in Seq(E)
              /\ DOMAIN t = DOMAIN rest
              /\ 1 \in DOMAIN rest
              /\ t[1].active /\ t[1].port = rest[1].port
              /\ \A j \in DOMAIN rest \ {1} : t[j] = rest[j]
            BY <2>3, <2>9, PromoteFirstFacts DEF E
        <3>2. Delist(tbl, port) = t
            BY <2>4, <2>9
        <3> HIDE DEF t
        <3>3. \A j \in DOMAIN t : t[j].port = rest[j].port
            BY <3>1
        <3>4. PortsOf(t) = PortsOf(rest) /\ DistinctPorts(t)
            BY <2>8, <3>1, <3>3 DEF PortsOf, DistinctPorts
        <3>5. SomeActive(t)
            BY <3>1 DEF SomeActive, ActiveAt
        <3>6. ASSUME AtMostOneActive(tbl)
              PROVE  AtMostOneActive(t)
            <4>1. \A k \in DOMAIN tbl : tbl[k].active => k = i
                BY <2>1, <2>9, <3>6 DEF AtMostOneActive, ActiveAt
            <4>2. \A j \in DOMAIN rest : ~rest[j].active
                BY <2>2, <2>3, <2>5, <4>1
            <4>3. \A j \in DOMAIN t : t[j].active => j = 1
                BY <3>1, <4>2
            <4>4. QED BY <4>3 DEF AtMostOneActive, ActiveAt
        <3>7. QED BY <2>7, <3>1, <3>2, <3>4, <3>5, <3>6 DEF Sound, E
    <2>10. CASE ~(tbl[i].active /\ rest # << >>)
        <3>1. Delist(tbl, port) = rest
            BY <2>4, <2>10
        <3>2. SomeActive(rest)
            <4>1. CASE rest = << >>
                BY <4>1 DEF SomeActive
            <4>2. CASE rest # << >>
                <5>1. ~tbl[i].active
                    BY <2>10, <4>2
                <5>2. PICK k \in DOMAIN tbl : tbl[k].active
                    <6>1. tbl # << >>
                        BY <1>2 DEF PortsOf
                    <6>2. QED BY <6>1 DEF Sound, SomeActive, ActiveAt
                <5>3. k \in (1..n) \ {i}
                    BY <2>2, <5>1, <5>2
                <5>4. PICK j \in 1..(n - 1) : Shift(i, j) = k
                    BY <2>5, <5>3
                <5>5. QED BY <2>3, <5>2, <5>4 DEF SomeActive, ActiveAt
            <4>3. QED BY <4>1, <4>2
        <3>3. ASSUME AtMostOneActive(tbl)
              PROVE  AtMostOneActive(rest)
            BY <2>2, <2>3, <2>5, <3>3 DEF AtMostOneActive, ActiveAt
        <3>4. QED BY <2>3, <2>7, <2>8, <3>1, <3>2, <3>3 DEF Sound, E
    <2>11. QED BY <2>9, <2>10
<1>3. QED BY <1>1, <1>2
-----------------------------------------------------------------------------
(* Activate.                                                               *)

OneLabelEach(R) == \A r, q \in R : r.label = q.label => r = q

(* When no two requests share a label, entries of one label are entries of *)
(* one port.                                                               *)
LEMMA SameLabelSamePort ==
    ASSUME NEW R, OneLabelEach(R), NEW e \in EntriesOf(R), NEW f \in EntriesOf(R),
           e.label = f.label
    PROVE  e.port = f.port
<1>1. PICK r \in R, a \in BOOLEAN : e = EntryOf(r, a)
    BY DEF EntriesOf
<1>2. PICK q \in R, b \in BOOLEAN : f = EntryOf(q, b)
    BY DEF EntriesOf
<1>3. r = q
    BY <1>1, <1>2 DEF EntryOf, OneLabelEach
<1>4. QED BY <1>1, <1>2, <1>3 DEF EntryOf

(* A switch changes no port, leaves some entry active, and one at most     *)
(* when the labels are unique.                                             *)
LEMMA ActivateFacts ==
    ASSUME NEW R, NEW tbl \in Seq(EntriesOf(R)), NEW label, Sound(tbl)
    PROVE  /\ Activate(tbl, label) \in Seq(EntriesOf(R))
           /\ PortsOf(Activate(tbl, label)) = PortsOf(tbl)
           /\ Sound(Activate(tbl, label))
           /\ OneLabelEach(R) /\ AtMostOneActive(tbl)
                => AtMostOneActive(Activate(tbl, label))
<1>1. CASE label \notin LabelsOf(tbl)
    BY <1>1 DEF Activate
<1>2. CASE label \in LabelsOf(tbl)
    <2> DEFINE E == EntriesOf(R)
               f(i) == EntryOf(tbl[i], tbl[i].label = label)
               t == [i \in DOMAIN tbl |-> f(i)]
    <2>1. Activate(tbl, label) = t
        BY <1>2 DEF Activate
    <2>2. DOMAIN tbl = 1..Len(tbl) /\ Len(tbl) \in Nat
        BY LenProperties
    <2>3. ASSUME NEW i \in DOMAIN tbl
          PROVE  /\ tbl[i] \in E
                 /\ f(i) \in E
                 /\ f(i).port = tbl[i].port
                 /\ f(i).active = (tbl[i].label = label)
        <3>1. tbl[i] \in E
            BY <2>2, ElementOfSeq
        <3>2. (tbl[i].label = label) \in BOOLEAN
            OBVIOUS
        <3>3. QED BY <3>1, <3>2, EntryFlag
    <2> HIDE DEF f
    <2>4. t \in [1..Len(tbl) -> E]
        BY <2>2, <2>3
    <2>5. t \in Seq(E)
        BY <2>2, <2>4, SeqDef
    <2>6. /\ DOMAIN t = DOMAIN tbl
          /\ \A i \in DOMAIN tbl : t[i].port = tbl[i].port
          /\ \A i \in DOMAIN tbl : t[i].active = (tbl[i].label = label)
        BY <2>3
    <2> HIDE DEF t
    <2>7. PortsOf(t) = PortsOf(tbl)
        BY <2>6 DEF PortsOf
    <2>8. DistinctPorts(t)
        BY <2>6 DEF Sound, DistinctPorts
    <2>9. SomeActive(t)
        <3>1. PICK i \in DOMAIN tbl : tbl[i].label = label
            BY <1>2 DEF LabelsOf
        <3>2. i \in DOMAIN t /\ t[i].active
            BY <2>6, <3>1
        <3>3. QED BY <3>2 DEF SomeActive, ActiveAt
    <2>10. ASSUME OneLabelEach(R)
           PROVE  AtMostOneActive(t)
        <3>1. ASSUME NEW i \in DOMAIN t, NEW j \in DOMAIN t, t[i].active, t[j].active
              PROVE  i = j
            <4>1. tbl[i].label = label /\ tbl[j].label = label
                BY <2>6, <3>1
            <4>2. tbl[i].port = tbl[j].port
                BY <2>3, <2>6, <2>10, <4>1, SameLabelSamePort
            <4>3. QED BY <2>6, <4>2 DEF Sound, DistinctPorts
        <3>2. QED BY <3>1 DEF AtMostOneActive, ActiveAt
    <2>11. QED BY <2>1, <2>5, <2>7, <2>8, <2>9, <2>10 DEF Sound
<1>3. QED BY <1>1, <1>2

-----------------------------------------------------------------------------
(* ActivePort, and which operations leave it alone.                        *)

IsActive(tbl, p) == \E i \in DOMAIN tbl : tbl[i].port = p /\ tbl[i].active

(* activePort finds an active listed port whenever the list has entries.   *)
LEMMA ActivePortFacts ==
    ASSUME NEW R, NEW tbl \in Seq(EntriesOf(R)), Sound(tbl)
    PROVE  /\ tbl = << >> => ActivePort(tbl) = NoPort
           /\ tbl # << >> => /\ IsActive(tbl, ActivePort(tbl))
                            /\ ActivePort(tbl) \in PortsOf(tbl)
<1>1. CASE tbl = << >>
    <2>1. ActiveAt(tbl) = {}
        BY <1>1 DEF ActiveAt
    <2>2. QED BY <1>1, <2>1 DEF ActivePort
<1>2. CASE tbl # << >>
    <2>1. FirstActive(tbl) \in ActiveAt(tbl)
        BY <1>2, FirstActiveIndex DEF Sound, SomeActive
    <2>2. FirstActive(tbl) \in DOMAIN tbl /\ tbl[FirstActive(tbl)].active
        BY <2>1 DEF ActiveAt
    <2>3. ActivePort(tbl) = tbl[FirstActive(tbl)].port
        BY <2>1 DEF ActivePort
    <2>4. QED BY <1>2, <2>2, <2>3 DEF IsActive, PortsOf
<1>3. QED BY <1>1, <1>2

(* When one entry at most is active, activePort is its port.               *)
LEMMA ActivePortUnique ==
    ASSUME NEW R, NEW tbl \in Seq(EntriesOf(R)), Sound(tbl), AtMostOneActive(tbl),
           NEW p, IsActive(tbl, p)
    PROVE  ActivePort(tbl) = p
<1>1. tbl # << >>
    BY DEF IsActive
<1>2. IsActive(tbl, ActivePort(tbl))
    BY <1>1, ActivePortFacts
<1>3. QED BY <1>2 DEF IsActive, AtMostOneActive, ActiveAt

(* AddBackend leaves every active port active.                             *)
LEMMA EnlistKeepsActive ==
    ASSUME NEW R, NEW tbl \in Seq(EntriesOf(R)), NEW r \in R, NEW p, IsActive(tbl, p)
    PROVE  IsActive(Enlist(tbl, r), p)
<1>1. CASE r.port \in PortsOf(tbl)
    BY <1>1 DEF Enlist
<1>2. CASE r.port \notin PortsOf(tbl)
    <2> DEFINE e == EntryOf(r, tbl = << >>)
    <2>1. e \in EntriesOf(R)
        <3>1. (tbl = << >>) \in BOOLEAN
            OBVIOUS
        <3>2. QED BY <3>1, RequestEntry
    <2>2. Enlist(tbl, r) = Append(tbl, e)
        BY <1>2 DEF Enlist
    <2> HIDE DEF e
    <2>3. \A i \in DOMAIN tbl : i \in DOMAIN Append(tbl, e) /\ Append(tbl, e)[i] = tbl[i]
        BY <2>1, AppendProperties, LenProperties
    <2>4. QED BY <2>2, <2>3 DEF IsActive
<1>3. QED BY <1>1, <1>2

(* RemoveBackend leaves every other active port active.                    *)
LEMMA DelistKeepsActive ==
    ASSUME NEW R, NEW tbl \in Seq(EntriesOf(R)), NEW port,
           NEW p, p # port, IsActive(tbl, p)
    PROVE  IsActive(Delist(tbl, port), p)
<1>1. CASE port \notin PortsOf(tbl)
    BY <1>1 DEF Delist
<1>2. CASE port \in PortsOf(tbl)
    <2> DEFINE i == IndexOf(tbl, port)
               n == Len(tbl)
               rest == RemoveAt(tbl, i)
    <2>1. i \in DOMAIN tbl /\ tbl[i].port = port
        BY <1>2, IndexOfListed
    <2>2. n \in Nat /\ DOMAIN tbl = 1..n
        BY LenProperties
    <2>3. /\ rest \in Seq(EntriesOf(R))
          /\ DOMAIN rest = 1..(n - 1)
          /\ \A j \in 1..(n - 1) : rest[j] = tbl[Shift(i, j)]
        BY <2>1, RemoveAtFacts, LenProperties
    <2>4. Delist(tbl, port) =
            IF tbl[i].active /\ rest # << >> THEN PromoteFirst(rest) ELSE rest
        BY <1>2 DEF Delist
    <2>5. \A k \in (1..n) \ {i} : \E j \in 1..(n - 1) : Shift(i, j) = k
        BY <2>1, <2>2, ShiftFacts
    <2> HIDE DEF i, n, rest
    <2>6. PICK k \in DOMAIN tbl : tbl[k].port = p /\ tbl[k].active
        BY DEF IsActive
    <2>7. PICK j \in 1..(n - 1) : Shift(i, j) = k
        BY <2>1, <2>2, <2>5, <2>6
    <2>8. j \in DOMAIN rest /\ rest[j].port = p /\ rest[j].active
        BY <2>3, <2>6, <2>7
    <2>9. rest # << >>
        BY <2>8
    <2>10. /\ DOMAIN PromoteFirst(rest) = DOMAIN rest
           /\ PromoteFirst(rest)[1].active
           /\ PromoteFirst(rest)[1].port = rest[1].port
           /\ \A m \in DOMAIN rest \ {1} : PromoteFirst(rest)[m] = rest[m]
        BY <2>3, <2>9, PromoteFirstFacts
    <2>11. j \in DOMAIN PromoteFirst(rest) /\ PromoteFirst(rest)[j].port = p
              /\ PromoteFirst(rest)[j].active
        BY <2>8, <2>10
    <2>12. QED BY <2>4, <2>8, <2>11 DEF IsActive
<1>3. QED BY <1>1, <1>2
-----------------------------------------------------------------------------
(* PickOrder asks about listed ports only.                                 *)

(* healthyActivePort asks about listed ports only.                         *)
LEMMA PickOrderFacts ==
    ASSUME NEW R, NEW tbl \in Seq(EntriesOf(R))
    PROVE  PickOrder(tbl) \in Seq(PortsOf(tbl))
<1> DEFINE i == FirstActive(tbl)
           P == PortsOf(tbl)
           ports == [j \in DOMAIN tbl |-> tbl[j].port]
<1>1. DOMAIN tbl = 1..Len(tbl) /\ Len(tbl) \in Nat
    BY LenProperties
<1>2. ports \in [1..Len(tbl) -> P]
    BY <1>1 DEF PortsOf
<1>3. ports \in Seq(P) /\ DOMAIN ports = DOMAIN tbl
    BY <1>1, <1>2, SeqDef
<1>4. i = 0 \/ i \in DOMAIN tbl
    BY FirstActiveIndex DEF ActiveAt
<1>5. PickOrder(tbl) = IF i = 0 THEN ports ELSE << ports[i] >> \o RemoveAt(ports, i)
    BY DEF PickOrder
<1> HIDE DEF ports, i, P
<1>6. CASE i = 0
    BY <1>3, <1>5, <1>6 DEF P
<1>7. CASE i # 0
    <2>1. i \in DOMAIN ports
        BY <1>3, <1>4, <1>7
    <2>2. RemoveAt(ports, i) \in Seq(P)
        BY <1>3, <2>1, RemoveAtFacts
    <2>3. ports[i] \in P
        BY <1>1, <1>2, <1>3, <2>1
    <2>4. << ports[i] >> \in Seq(P)
        BY <2>3
    <2>5. << ports[i] >> \o RemoveAt(ports, i) \in Seq(P)
        BY <2>2, <2>4, ConcatProperties
    <2>6. QED BY <1>5, <1>7, <2>5 DEF P
<1>8. QED BY <1>6, <1>7
-----------------------------------------------------------------------------
(* DropDead.                                                               *)

(* A set of naturals that has 0, and n + 1 with every n below a bound, has *)
(* every number up to the bound.                                           *)
LEMMA UpTo ==
    ASSUME NEW N \in Nat, NEW S,
           0 \in S,
           \A n \in 0..N : n + 1 \in 0..N /\ n \in S => n + 1 \in S
    PROVE  \A n \in 0..N : n \in S
<1> DEFINE Bad == {n \in 0..N : n \notin S}
<1> SUFFICES ASSUME Bad # {} PROVE FALSE
    OBVIOUS
<1>1. Bad \in SUBSET Nat
    OBVIOUS
<1>2. Min(Bad) \in Bad /\ \A n \in Bad : Min(Bad) <= n
    BY <1>1, MinOfNats
<1>3. PICK m \in Bad : \A n \in Bad : m <= n
    BY <1>2
<1>4. m # 0 /\ m - 1 \in 0..N /\ (m - 1) + 1 = m
    BY <1>3
<1>5. m - 1 \notin Bad
    BY <1>3, <1>4
<1>6. QED BY <1>3, <1>4, <1>5

(* The loop's equation: what is kept of the first n entries is what is     *)
(* kept of those before, with the nth if it is kept.                       *)
LEMMA LiveAmongStep ==
    ASSUME NEW E, NEW tbl \in Seq(E), NEW noPid, NEW alive
    PROVE  LiveAmong(tbl, noPid, alive) =
              [n \in 0..Len(tbl) |->
                  IF n = 0 THEN << >>
                  ELSE IF Keeps(tbl[n], noPid, alive)
                       THEN Append(LiveAmong(tbl, noPid, alive)[n - 1], tbl[n])
                  ELSE LiveAmong(tbl, noPid, alive)[n - 1]]
<1> DEFINE N == Len(tbl)
           Loop(f, n) == IF n = 0 THEN << >>
                         ELSE IF Keeps(tbl[n], noPid, alive) THEN Append(f[n - 1], tbl[n])
                         ELSE f[n - 1]
           IsLoop(f, m) == f = [n \in 0..m |-> Loop(f, n)]
           S == {m \in 0..N : \E f : IsLoop(f, m)}
<1>1. N \in Nat
    BY LenProperties
<1>2. 0 \in S
    <2> DEFINE g == [n \in 0..0 |-> << >>]
    <2>1. IsLoop(g, 0)
        OBVIOUS
    <2> HIDE DEF IsLoop
    <2>2. \E f : IsLoop(f, 0)
        BY <2>1
    <2>3. QED BY <1>1, <2>2
<1>3. ASSUME NEW m \in 0..N, m + 1 \in 0..N, m \in S
      PROVE  m + 1 \in S
    <2>1. PICK f : IsLoop(f, m)
        BY <1>3
    <2> DEFINE g == [n \in 0..(m + 1) |-> IF n = m + 1 THEN Loop(f, n) ELSE f[n]]
    <2>2. \A n \in 0..m : f[n] = Loop(f, n)
        <3> HIDE DEF Loop
        <3>1. QED BY <2>1
    <2>3. ASSUME NEW n \in 0..(m + 1) PROVE g[n] = Loop(g, n)
        <3>1. n # 0 => n - 1 \in 0..m
            OBVIOUS
        <3>2. n # 0 => g[n - 1] = f[n - 1]
            BY <2>2, <3>1
        <3>3. Loop(g, n) = Loop(f, n)
            BY <3>2
        <3>4. g[n] = Loop(f, n)
            <4> HIDE DEF Loop
            <4>1. n # m + 1 => n \in 0..m
                OBVIOUS
            <4>2. QED BY <2>2, <4>1
        <3>5. QED BY <3>3, <3>4
    <2>4. IsLoop(g, m + 1)
        BY <2>3
    <2> HIDE DEF IsLoop
    <2>5. \E h : IsLoop(h, m + 1)
        BY <2>4
    <2>6. QED BY <1>3, <2>5
<1>4. N \in S
    <2> HIDE DEF S
    <2>1. \A n \in 0..N : n + 1 \in 0..N /\ n \in S => n + 1 \in S
        BY <1>3
    <2>2. \A n \in 0..N : n \in S
        BY <1>1, <1>2, <2>1, UpTo
    <2>3. QED BY <1>1, <2>2
<1>5. \E f : IsLoop(f, N)
    BY <1>4
<1>6. LiveAmong(tbl, noPid, alive) = CHOOSE f : IsLoop(f, N)
    BY DEF LiveAmong
<1>7. QED BY <1>5, <1>6

(* The entries kept are those of the table that have no process number or  *)
(* whose process lives, once each, in the order of the table; when all of  *)
(* them are kept, it is the table.                                         *)
LEMMA DropDeadOnlyFacts ==
    ASSUME NEW R, NEW tbl \in Seq(EntriesOf(R)), NEW noPid, NEW alive, DistinctPorts(tbl)
    PROVE  LET live == DropDeadOnly(tbl, noPid, alive)
           IN  /\ live \in Seq(EntriesOf(R))
               /\ DistinctPorts(live)
               /\ \A j \in DOMAIN live : \E i \in DOMAIN tbl :
                     live[j] = tbl[i] /\ Keeps(tbl[i], noPid, alive)
               /\ \A i \in DOMAIN tbl : Keeps(tbl[i], noPid, alive)
                     => \E j \in DOMAIN live : live[j] = tbl[i]
               /\ \A j, k \in DOMAIN live : j < k =>
                     \E i, m \in DOMAIN tbl : i < m /\ live[j] = tbl[i] /\ live[k] = tbl[m]
               /\ (\A i \in DOMAIN tbl : Keeps(tbl[i], noPid, alive)) => live = tbl
<1> DEFINE E == EntriesOf(R)
           N == Len(tbl)
           L == LiveAmong(tbl, noPid, alive)
           K(i) == Keeps(tbl[i], noPid, alive)
           From(n) == \A j \in DOMAIN L[n] : \E i \in 1..n : L[n][j] = tbl[i] /\ K(i)
           Into(n) == \A i \in 1..n : K(i) => \E j \in DOMAIN L[n] : L[n][j] = tbl[i]
           Same(n) == (\A i \in 1..n : K(i)) =>
                         Len(L[n]) = n /\ \A i \in 1..n : L[n][i] = tbl[i]
           Rank(n) == \A j, k \in DOMAIN L[n] : j < k =>
                         \E i, m \in 1..n : i < m /\ L[n][j] = tbl[i] /\ L[n][k] = tbl[m]
           S == {n \in 0..N : L[n] \in Seq(E) /\ DistinctPorts(L[n])
                               /\ From(n) /\ Into(n) /\ Rank(n) /\ Same(n)}
<1>1. N \in Nat /\ DOMAIN tbl = 1..N /\ \A i \in 1..N : tbl[i] \in E
    BY LenProperties
<1>2. \A n \in 0..N : L[n] = IF n = 0 THEN << >>
                            ELSE IF K(n) THEN Append(L[n - 1], tbl[n]) ELSE L[n - 1]
    <2>1. tbl \in Seq(E)
        OBVIOUS
    <2> HIDE DEF E
    <2>2. L = [n \in 0..N |-> IF n = 0 THEN << >>
                             ELSE IF K(n) THEN Append(L[n - 1], tbl[n]) ELSE L[n - 1]]
        BY <2>1, LiveAmongStep
    <2> HIDE DEF L, K
    <2>3. QED BY <2>2
<1>3. DropDeadOnly(tbl, noPid, alive) = L[N]
    BY DEF DropDeadOnly
<1> HIDE DEF L, N, K, E
<1>4. 0 \in S
    <2>1. 0 \in 0..N /\ L[0] = << >>
        BY <1>1, <1>2
    <2>2. << >> \in Seq(E) /\ DOMAIN << >> = {} /\ Len(<< >>) = 0
        BY EmptySeq
    <2>3. DistinctPorts(<< >>)
        BY <2>2 DEF DistinctPorts
    <2>4. From(0) /\ Into(0) /\ Rank(0) /\ Same(0)
        BY <2>1, <2>2
    <2>5. QED BY <2>1, <2>2, <2>3, <2>4
<1>5. ASSUME NEW n \in 0..N, n + 1 \in 0..N, n \in S
      PROVE  n + 1 \in S
    <2>1. n + 1 \in 1..N /\ tbl[n + 1] \in E /\ n + 1 # 0 /\ (n + 1) - 1 = n /\ n \in Nat
        BY <1>1, <1>5
    <2>2. L[n + 1] = IF K(n + 1) THEN Append(L[n], tbl[n + 1]) ELSE L[n]
        BY <1>2, <1>5, <2>1
    <2>3. L[n] \in Seq(E) /\ DistinctPorts(L[n]) /\ From(n) /\ Into(n) /\ Rank(n) /\ Same(n)
        BY <1>5
    <2>4. CASE ~K(n + 1)
        <3>1. L[n + 1] = L[n]
            BY <2>2, <2>4
        <3>2. From(n + 1)
            BY <2>1, <2>3, <3>1
        <3>3. Same(n + 1)
            BY <2>1, <2>4
        <3>4. Into(n + 1)
            BY <2>1, <2>3, <2>4, <3>1
        <3>5. Rank(n + 1)
            BY <2>1, <2>3, <3>1
        <3>6. QED BY <1>5, <2>3, <3>1, <3>2, <3>3, <3>4, <3>5
    <2>5. CASE K(n + 1)
        <3> DEFINE old == L[n]
                   new == L[n + 1]
                   m == Len(old)
        <3>1. /\ new \in Seq(E)
              /\ m \in Nat
              /\ DOMAIN old = 1..m
              /\ Len(new) = m + 1
              /\ DOMAIN new = 1..(m + 1)
              /\ \A j \in 1..m : new[j] = old[j]
              /\ new[m + 1] = tbl[n + 1]
            BY <2>1, <2>2, <2>3, <2>5, AppendProperties, LenProperties
        <3>2. From(n) /\ Into(n) /\ Rank(n) /\ Same(n) /\ DistinctPorts(old)
            BY <2>3
        <3> HIDE DEF m
        <3>3. From(n + 1)
            <4>1. SUFFICES ASSUME NEW j \in DOMAIN new
                           PROVE  \E i \in 1..(n + 1) : new[j] = tbl[i] /\ K(i)
                OBVIOUS
            <4>2. CASE j = m + 1
                BY <2>1, <2>5, <3>1, <4>2
            <4>3. CASE j # m + 1
                <5>1. j \in DOMAIN old /\ new[j] = old[j]
                    BY <3>1, <4>1, <4>3
                <5>2. PICK i \in 1..n : old[j] = tbl[i] /\ K(i)
                    BY <3>2, <5>1
                <5>3. QED BY <2>1, <5>1, <5>2
            <4>4. QED BY <4>2, <4>3
        <3>4. Same(n + 1)
            <4>1. SUFFICES ASSUME \A i \in 1..(n + 1) : K(i)
                           PROVE  Len(new) = n + 1 /\ \A i \in 1..(n + 1) : new[i] = tbl[i]
                OBVIOUS
            <4>2. m = n /\ \A i \in 1..n : old[i] = tbl[i]
                BY <2>1, <3>2, <4>1 DEF m
            <4>3. QED BY <2>1, <3>1, <4>2
        <3>5. DistinctPorts(new)
            <4>1. \A j \in 1..m : new[j].port # new[m + 1].port
                <5>1. SUFFICES ASSUME NEW j \in 1..m PROVE old[j].port # tbl[n + 1].port
                    BY <3>1
                <5>2. PICK i \in 1..n : old[j] = tbl[i]
                    BY <3>1, <3>2
                <5>3. i \in 1..N /\ i # n + 1
                    BY <1>1, <2>1, <5>2
                <5>4. QED BY <1>1, <2>1, <5>2, <5>3 DEF DistinctPorts
            <4>2. \A j, k \in 1..m : new[j].port = new[k].port => j = k
                BY <3>1, <3>2 DEF DistinctPorts
            <4>3. SUFFICES ASSUME NEW j \in 1..(m + 1), NEW k \in 1..(m + 1),
                                  new[j].port = new[k].port
                           PROVE  j = k
                BY <3>1 DEF DistinctPorts
            <4>4. (j \in 1..m \/ j = m + 1) /\ (k \in 1..m \/ k = m + 1)
                BY <3>1
            <4>5. QED BY <4>1, <4>2, <4>3, <4>4
        <3>6. Into(n + 1)
            <4>1. SUFFICES ASSUME NEW i \in 1..(n + 1), K(i)
                           PROVE  \E j \in DOMAIN new : new[j] = tbl[i]
                OBVIOUS
            <4>2. CASE i = n + 1
                BY <3>1, <4>2
            <4>3. CASE i # n + 1
                <5>1. i \in 1..n
                    BY <2>1, <4>3
                <5>2. PICK j \in DOMAIN old : old[j] = tbl[i]
                    BY <3>2, <4>1, <5>1
                <5>3. QED BY <3>1, <5>2
            <4>4. QED BY <4>2, <4>3
        <3>7. Rank(n + 1)
            <4>1. SUFFICES ASSUME NEW j \in DOMAIN new, NEW k \in DOMAIN new, j < k
                           PROVE  \E i, o \in 1..(n + 1) :
                                     i < o /\ new[j] = tbl[i] /\ new[k] = tbl[o]
                OBVIOUS
            <4>2. j \in DOMAIN old /\ new[j] = old[j]
                BY <3>1, <4>1
            <4>3. CASE k = m + 1
                <5>1. PICK i \in 1..n : old[j] = tbl[i]
                    BY <3>2, <4>2
                <5>2. i < n + 1 /\ i \in 1..(n + 1) /\ n + 1 \in 1..(n + 1)
                    BY <2>1
                <5>3. QED BY <3>1, <4>2, <4>3, <5>1, <5>2
            <4>4. CASE k # m + 1
                <5>1. k \in DOMAIN old /\ new[k] = old[k]
                    BY <3>1, <4>1, <4>4
                <5>2. PICK i, o \in 1..n : i < o /\ old[j] = tbl[i] /\ old[k] = tbl[o]
                    BY <3>2, <4>1, <4>2, <5>1
                <5>3. i \in 1..(n + 1) /\ o \in 1..(n + 1)
                    BY <2>1
                <5>4. QED BY <4>2, <5>1, <5>2, <5>3
            <4>5. QED BY <4>3, <4>4
        <3>8. QED BY <1>5, <3>1, <3>3, <3>4, <3>5, <3>6, <3>7
    <2>6. QED BY <2>4, <2>5
<1>6. N \in S
    <2> HIDE DEF S
    <2>1. \A n \in 0..N : n + 1 \in 0..N /\ n \in S => n + 1 \in S
        BY <1>5
    <2>2. \A n \in 0..N : n \in S
        BY <1>1, <1>4, <2>1, UpTo
    <2>3. QED BY <1>1, <2>2
<1>7. L[N] \in Seq(E) /\ DistinctPorts(L[N]) /\ From(N) /\ Into(N) /\ Rank(N) /\ Same(N)
    BY <1>6
<1>8. (\A i \in 1..N : K(i)) => L[N] = tbl
    <2>1. SUFFICES ASSUME \A i \in 1..N : K(i) PROVE L[N] = tbl
        OBVIOUS
    <2>2. Len(L[N]) = Len(tbl) /\ \A i \in 1..Len(tbl) : L[N][i] = tbl[i]
        BY <1>7, <2>1 DEF N
    <2>3. tbl \in Seq(E)
        BY DEF E
    <2>4. QED BY <1>7, <2>2, <2>3, SeqEqual
<1>9. \A j \in DOMAIN L[N] : \E i \in DOMAIN tbl : L[N][j] = tbl[i] /\ K(i)
    BY <1>1, <1>7
<1>10. \A i \in DOMAIN tbl : K(i) => \E j \in DOMAIN L[N] : L[N][j] = tbl[i]
    BY <1>1, <1>7
<1>11. \A j, k \in DOMAIN L[N] : j < k =>
          \E i, m \in DOMAIN tbl : i < m /\ L[N][j] = tbl[i] /\ L[N][k] = tbl[m]
    <2>1. SUFFICES ASSUME NEW j \in DOMAIN L[N], NEW k \in DOMAIN L[N], j < k
                   PROVE  \E i, m \in DOMAIN tbl :
                             i < m /\ L[N][j] = tbl[i] /\ L[N][k] = tbl[m]
        OBVIOUS
    <2>2. PICK i \in 1..N, m \in 1..N : i < m /\ L[N][j] = tbl[i] /\ L[N][k] = tbl[m]
        <3>1. Rank(N)
            BY <1>7
        <3>2. QED BY <2>1, <3>1
    <2>3. QED BY <1>1, <2>2
<1>12. (\A i \in DOMAIN tbl : K(i)) => L[N] = tbl
    BY <1>1, <1>8
<1>13. L[N] \in Seq(EntriesOf(R)) /\ DistinctPorts(L[N])
    BY <1>7 DEF E
<1>14. QED BY <1>3, <1>9, <1>10, <1>11, <1>12, <1>13 DEF K

(* CleanStalePIDs keeps a table sound, lists no port anew and all of those *)
(* whose process lives, and changes nothing when no process of the table   *)
(* has ended.                                                              *)
LEMMA DropDeadFacts ==
    ASSUME NEW R, NEW tbl \in Seq(EntriesOf(R)), NEW noPid, NEW alive, Sound(tbl)
    PROVE  LET t == DropDead(tbl, noPid, alive)
           IN  /\ t \in Seq(EntriesOf(R))
               /\ PortsOf(t) \subseteq PortsOf(tbl)
               /\ Sound(t)
               /\ AtMostOneActive(tbl) => AtMostOneActive(t)
               /\ \A i \in DOMAIN tbl : Keeps(tbl[i], noPid, alive)
                     => tbl[i].port \in PortsOf(t)
               /\ (\A i \in DOMAIN tbl : Keeps(tbl[i], noPid, alive)) => t = tbl
<1> DEFINE live == DropDeadOnly(tbl, noPid, alive)
           t == DropDead(tbl, noPid, alive)
<1>1. /\ live \in Seq(EntriesOf(R))
      /\ DistinctPorts(live)
      /\ \A j \in DOMAIN live : \E i \in DOMAIN tbl :
            live[j] = tbl[i] /\ Keeps(tbl[i], noPid, alive)
      /\ \A i \in DOMAIN tbl : Keeps(tbl[i], noPid, alive)
            => \E j \in DOMAIN live : live[j] = tbl[i]
      /\ (\A i \in DOMAIN tbl : Keeps(tbl[i], noPid, alive)) => live = tbl
    <2>1. DistinctPorts(tbl)
        BY DEF Sound
    <2> HIDE DEF t
    <2>2. live \in Seq(EntriesOf(R)) /\ DistinctPorts(live)
        BY <2>1, DropDeadOnlyFacts
    <2>3. \A j \in DOMAIN live : \E i \in DOMAIN tbl :
            live[j] = tbl[i] /\ Keeps(tbl[i], noPid, alive)
        BY <2>1, DropDeadOnlyFacts
    <2>4. \A i \in DOMAIN tbl : Keeps(tbl[i], noPid, alive)
            => \E j \in DOMAIN live : live[j] = tbl[i]
        BY <2>1, DropDeadOnlyFacts
    <2>5. (\A i \in DOMAIN tbl : Keeps(tbl[i], noPid, alive)) => live = tbl
        BY <2>1, DropDeadOnlyFacts
    <2>6. QED BY <2>2, <2>3, <2>4, <2>5
<1>2. t = IF live # << >> /\ ActiveAt(live) = {} THEN PromoteFirst(live) ELSE live
    BY DEF DropDead
<1> HIDE DEF live, t
<1>3. /\ PortsOf(live) \subseteq PortsOf(tbl)
      /\ \A i \in DOMAIN tbl : Keeps(tbl[i], noPid, alive) => tbl[i].port \in PortsOf(live)
    <2>1. ASSUME NEW j \in DOMAIN live PROVE live[j].port \in PortsOf(tbl)
        <3>1. PICK i \in DOMAIN tbl : live[j] = tbl[i]
            BY <1>1
        <3>2. QED BY <3>1 DEF PortsOf
    <2>2. ASSUME NEW i \in DOMAIN tbl, Keeps(tbl[i], noPid, alive)
          PROVE  tbl[i].port \in PortsOf(live)
        <3>1. PICK j \in DOMAIN live : live[j] = tbl[i]
            BY <1>1, <2>2
        <3>2. QED BY <3>1 DEF PortsOf
    <2>3. QED BY <2>1, <2>2 DEF PortsOf
<1>4. CASE live # << >> /\ ActiveAt(live) = {}
    <2>1. /\ t \in Seq(EntriesOf(R))
          /\ DOMAIN t = DOMAIN live
          /\ 1 \in DOMAIN live
          /\ t[1].active
          /\ t[1].port = live[1].port
          /\ \A i \in DOMAIN live \ {1} : t[i] = live[i]
        BY <1>1, <1>2, <1>4, PromoteFirstFacts
    <2>2. \A j \in DOMAIN t : t[j].port = live[j].port
        BY <2>1
    <2>3. PortsOf(t) = PortsOf(live) /\ DistinctPorts(t)
        <3>1. DistinctPorts(live)
            BY <1>1
        <3>2. DistinctPorts(t)
            BY <2>1, <2>2, <3>1 DEF DistinctPorts
        <3>3. PortsOf(t) = PortsOf(live)
            BY <2>1, <2>2 DEF PortsOf
        <3>4. QED BY <3>2, <3>3
    <2>4. SomeActive(t)
        BY <2>1 DEF SomeActive, ActiveAt
    <2>5. AtMostOneActive(t)
        <3>1. \A j \in DOMAIN t : t[j].active => j = 1
            BY <1>4, <2>1 DEF ActiveAt
        <3>2. QED BY <3>1 DEF AtMostOneActive, ActiveAt
    <2>6. ~(\A i \in DOMAIN tbl : Keeps(tbl[i], noPid, alive))
        BY <1>1, <1>4 DEF Sound, SomeActive
    <2>7. \A i \in DOMAIN tbl : Keeps(tbl[i], noPid, alive) => tbl[i].port \in PortsOf(t)
        BY <1>3, <2>3
    <2>8. PortsOf(t) \subseteq PortsOf(tbl)
        BY <1>3, <2>3
    <2>9. QED BY <2>1, <2>3, <2>4, <2>5, <2>6, <2>7, <2>8 DEF Sound, t
<1>5. CASE ~(live # << >> /\ ActiveAt(live) = {})
    <2>1. t = live
        BY <1>2, <1>5
    <2>2. SomeActive(live)
        BY <1>5 DEF SomeActive
    <2>3. ASSUME AtMostOneActive(tbl)
          PROVE  AtMostOneActive(live)
        <3>1. SUFFICES ASSUME NEW j \in ActiveAt(live), NEW k \in ActiveAt(live) PROVE j = k
            BY DEF AtMostOneActive
        <3>2. PICK a \in DOMAIN tbl : live[j] = tbl[a]
            BY <1>1, <3>1 DEF ActiveAt
        <3>3. PICK b \in DOMAIN tbl : live[k] = tbl[b]
            BY <1>1, <3>1 DEF ActiveAt
        <3>4. a = b
            BY <2>3, <3>1, <3>2, <3>3 DEF ActiveAt, AtMostOneActive
        <3>5. live[j].port = live[k].port
            BY <3>2, <3>3, <3>4
        <3>6. QED BY <1>1, <3>1, <3>5 DEF DistinctPorts, ActiveAt
    <2>4. QED BY <1>1, <1>3, <2>1, <2>2, <2>3 DEF Sound, t
<1>6. QED BY <1>4, <1>5
-----------------------------------------------------------------------------
(* The order of a table, and its first port among some.                    *)

Precedes(t, p, q) == \E i, j \in DOMAIN t : i < j /\ t[i].port = p /\ t[j].port = q

First(t, S, p) == p \in S /\ \A q \in S \ {p} : Precedes(t, p, q)

(* A table that lists no port twice orders its ports strictly and totally. *)
LEMMA OrderFacts ==
    ASSUME NEW R, NEW t \in Seq(EntriesOf(R)), DistinctPorts(t)
    PROVE  /\ \A p, q : Precedes(t, p, q) => p \in PortsOf(t) /\ q \in PortsOf(t)
           /\ \A p, q : ~(Precedes(t, p, q) /\ Precedes(t, q, p))
           /\ \A p, q, r : Precedes(t, p, q) /\ Precedes(t, q, r) => Precedes(t, p, r)
           /\ \A p, q \in PortsOf(t) : p = q \/ Precedes(t, p, q) \/ Precedes(t, q, p)
<1>1. DOMAIN t = 1..Len(t) /\ Len(t) \in Nat
    BY LenProperties
<1>2. \A i, j \in DOMAIN t : t[i].port = t[j].port => i = j
    BY DEF DistinctPorts
<1>3. \A p, q : Precedes(t, p, q) => p \in PortsOf(t) /\ q \in PortsOf(t)
    BY DEF Precedes, PortsOf
<1>4. ASSUME NEW p, NEW q, Precedes(t, p, q), Precedes(t, q, p)
      PROVE  FALSE
    <2>1. PICK i, j \in 1..Len(t) : i < j /\ t[i].port = p /\ t[j].port = q
        BY <1>1, <1>4 DEF Precedes
    <2>2. PICK k, m \in 1..Len(t) : k < m /\ t[k].port = q /\ t[m].port = p
        BY <1>1, <1>4 DEF Precedes
    <2>3. j = k /\ i = m
        BY <1>1, <1>2, <2>1, <2>2
    <2>4. QED BY <1>1, <2>1, <2>2, <2>3
<1>5. ASSUME NEW p, NEW q, NEW r, Precedes(t, p, q), Precedes(t, q, r)
      PROVE  Precedes(t, p, r)
    <2>1. PICK i, j \in 1..Len(t) : i < j /\ t[i].port = p /\ t[j].port = q
        BY <1>1, <1>5 DEF Precedes
    <2>2. PICK k, m \in 1..Len(t) : k < m /\ t[k].port = q /\ t[m].port = r
        BY <1>1, <1>5 DEF Precedes
    <2>3. i < m
        BY <1>1, <1>2, <2>1, <2>2
    <2>4. QED BY <1>1, <2>1, <2>2, <2>3 DEF Precedes
<1>6. ASSUME NEW p \in PortsOf(t), NEW q \in PortsOf(t), p # q
      PROVE  Precedes(t, p, q) \/ Precedes(t, q, p)
    <2>1. PICK i \in 1..Len(t) : t[i].port = p
        BY <1>1 DEF PortsOf
    <2>2. PICK j \in 1..Len(t) : t[j].port = q
        BY <1>1 DEF PortsOf
    <2>3. i < j \/ j < i
        BY <1>1, <1>6, <2>1, <2>2
    <2>4. QED BY <1>1, <2>1, <2>2, <2>3 DEF Precedes
<1>7. QED BY <1>3, <1>4, <1>5, <1>6

(* The first entry's port is the first of all, and there is one first port *)
(* of any set at most.                                                     *)
LEMMA FirstFacts ==
    ASSUME NEW R, NEW t \in Seq(EntriesOf(R)), DistinctPorts(t)
    PROVE  /\ t # << >> => /\ 1 \in DOMAIN t
                           /\ \A p : First(t, PortsOf(t), p) <=> p = t[1].port
           /\ \A S, p, q : First(t, S, p) /\ First(t, S, q) => p = q
<1>1. DOMAIN t = 1..Len(t) /\ Len(t) \in Nat /\ (t # << >> => Len(t) # 0)
    BY LenProperties, EmptySeq
<1>2. \A S, p, q : First(t, S, p) /\ First(t, S, q) => p = q
    BY OrderFacts DEF First
<1>3. ASSUME t # << >>
      PROVE  1 \in DOMAIN t /\ First(t, PortsOf(t), t[1].port)
    <2>1. 1 \in 1..Len(t)
        BY <1>1, <1>3
    <2>2. ASSUME NEW q \in PortsOf(t) \ {t[1].port}
          PROVE  Precedes(t, t[1].port, q)
        <3>1. PICK j \in 1..Len(t) : t[j].port = q
            BY <1>1 DEF PortsOf
        <3>2. 1 < j
            BY <1>1, <2>2, <3>1
        <3>3. QED BY <1>1, <2>1, <3>1, <3>2 DEF Precedes
    <2>3. QED BY <1>1, <2>1, <2>2 DEF First, PortsOf
<1>4. QED BY <1>2, <1>3

(* AddBackend puts an unlisted port after all others, active only if there *)
(* are none.                                                               *)
LEMMA EnlistView ==
    ASSUME NEW R, NEW t \in Seq(EntriesOf(R)), NEW r \in R, r.port \notin PortsOf(t)
    PROVE  /\ \A p : IsActive(Enlist(t, r), p) <=>
                        IF t = << >> THEN p = r.port ELSE IsActive(t, p)
           /\ \A p, q : Precedes(Enlist(t, r), p, q) <=>
                           Precedes(t, p, q) \/ (p \in PortsOf(t) /\ q = r.port)
<1> DEFINE e == EntryOf(r, t = << >>)
           n == Len(t)
           u == Enlist(t, r)
<1>1. e \in EntriesOf(R) /\ e.port = r.port /\ e.active = (t = << >>)
    <2>1. (t = << >>) \in BOOLEAN
        OBVIOUS
    <2>2. QED BY <2>1, RequestEntry
<1>2. u = Append(t, e)
    BY DEF Enlist
<1> HIDE DEF e, u
<1>3. /\ n \in Nat /\ DOMAIN t = 1..n /\ DOMAIN u = 1..(n + 1)
      /\ \A i \in 1..n : u[i] = t[i]
      /\ u[n + 1] = e
      /\ t = << >> <=> n = 0
    BY <1>1, <1>2, AppendProperties, LenProperties, EmptySeq
<1> HIDE DEF n
<1>4. ASSUME NEW p
      PROVE  IsActive(u, p) <=> IF t = << >> THEN p = r.port ELSE IsActive(t, p)
    <2>1. CASE t = << >>
        <3>1. e.active
            BY <1>1, <2>1
        <3>2. n = 0
            BY <1>3, <2>1
        <3>3. DOMAIN u = {1} /\ u[1] = e
            BY <1>3, <3>2
        <3>4. QED BY <1>1, <2>1, <3>1, <3>3 DEF IsActive
    <2>2. CASE t # << >>
        <3>1. ~e.active
            BY <1>1, <2>2
        <3>2. \A i \in DOMAIN u : u[i].active => i \in DOMAIN t /\ u[i] = t[i]
            BY <1>3, <3>1
        <3>3. \A i \in DOMAIN t : i \in DOMAIN u /\ u[i] = t[i]
            BY <1>3
        <3>4. QED BY <2>2, <3>2, <3>3 DEF IsActive
    <2>3. QED BY <2>1, <2>2
<1>5. ASSUME NEW p, NEW q
      PROVE  Precedes(u, p, q) <=> Precedes(t, p, q) \/ (p \in PortsOf(t) /\ q = r.port)
    <2>1. ASSUME Precedes(u, p, q)
          PROVE  Precedes(t, p, q) \/ (p \in PortsOf(t) /\ q = r.port)
        <3>1. PICK i, j \in DOMAIN u : i < j /\ u[i].port = p /\ u[j].port = q
            BY <2>1 DEF Precedes
        <3>2. i \in DOMAIN t /\ t[i].port = p
            BY <1>3, <3>1
        <3>3. CASE j = n + 1
            BY <1>1, <1>3, <3>1, <3>2, <3>3 DEF PortsOf
        <3>4. CASE j # n + 1
            <4>1. j \in DOMAIN t /\ t[j].port = q
                BY <1>3, <3>1, <3>4
            <4>2. QED BY <3>1, <3>2, <4>1 DEF Precedes
        <3>5. QED BY <3>3, <3>4
    <2>2. ASSUME Precedes(t, p, q)
          PROVE  Precedes(u, p, q)
        <3>1. PICK i, j \in DOMAIN t : i < j /\ t[i].port = p /\ t[j].port = q
            BY <2>2 DEF Precedes
        <3>2. i \in DOMAIN u /\ j \in DOMAIN u /\ u[i] = t[i] /\ u[j] = t[j]
            BY <1>3
        <3>3. QED BY <3>1, <3>2 DEF Precedes
    <2>3. ASSUME p \in PortsOf(t), q = r.port
          PROVE  Precedes(u, p, q)
        <3>1. PICK i \in DOMAIN t : t[i].port = p
            BY <2>3 DEF PortsOf
        <3>2. i \in DOMAIN u /\ n + 1 \in DOMAIN u /\ i < n + 1 /\ u[i].port = p
            BY <1>3, <3>1
        <3>3. u[n + 1].port = q
            BY <1>1, <1>3, <2>3
        <3>4. QED BY <3>2, <3>3 DEF Precedes
    <2>4. QED BY <2>1, <2>2, <2>3
<1>6. QED BY <1>4, <1>5 DEF u

(* A promotion makes the first port active besides those that were.        *)
LEMMA PromoteView ==
    ASSUME NEW R, NEW t \in Seq(EntriesOf(R)), DistinctPorts(t), t # << >>
    PROVE  /\ PortsOf(PromoteFirst(t)) = PortsOf(t)
           /\ \A p : IsActive(PromoteFirst(t), p)
                        <=> IsActive(t, p) \/ First(t, PortsOf(t), p)
           /\ \A p, q : Precedes(PromoteFirst(t), p, q) <=> Precedes(t, p, q)
<1> DEFINE u == PromoteFirst(t)
<1>1. /\ DOMAIN u = DOMAIN t
      /\ 1 \in DOMAIN t
      /\ u[1].active
      /\ u[1].port = t[1].port
      /\ \A i \in DOMAIN t \ {1} : u[i] = t[i]
    BY PromoteFirstFacts
<1>2. \A p : First(t, PortsOf(t), p) <=> p = t[1].port
    BY FirstFacts
<1> HIDE DEF u
<1>3. \A i \in DOMAIN t : u[i].port = t[i].port
    BY <1>1
<1>4. \A i \in DOMAIN t : u[i].active <=> t[i].active \/ i = 1
    BY <1>1
<1>5. PortsOf(u) = PortsOf(t)
    BY <1>1, <1>3 DEF PortsOf
<1>6. \A p, q : Precedes(u, p, q) <=> Precedes(t, p, q)
    BY <1>1, <1>3 DEF Precedes
<1>7. \A p : IsActive(u, p) <=> IsActive(t, p) \/ p = t[1].port
    BY <1>1, <1>3, <1>4 DEF IsActive
<1>8. QED BY <1>2, <1>5, <1>6, <1>7 DEF u

(* Two tables with the same ports in the same order have the same first.   *)
LEMMA SameFirst ==
    ASSUME NEW t, NEW u, \A p, q : Precedes(t, p, q) <=> Precedes(u, p, q)
    PROVE  \A S, p : First(t, S, p) <=> First(u, S, p)
    BY DEF First

(* RemoveBackend leaves the others in their order, and active what was, or *)
(* the first of them in the place of an active one that is removed.        *)
LEMMA DelistView ==
    ASSUME NEW R, NEW t \in Seq(EntriesOf(R)), DistinctPorts(t), NEW x
    PROVE  LET u == Delist(t, x)
           IN  /\ \A p : IsActive(u, p) <=>
                           p # x /\ (IsActive(t, p) \/ (IsActive(t, x) /\ First(u, PortsOf(u), p)))
               /\ \A p, q : Precedes(u, p, q) <=> p # x /\ q # x /\ Precedes(t, p, q)
<1>1. CASE x \notin PortsOf(t)
    <2>1. Delist(t, x) = t
        BY <1>1 DEF Delist
    <2>2. ~IsActive(t, x) /\ \A p, q : Precedes(t, p, q) => p # x /\ q # x
        BY <1>1, OrderFacts DEF IsActive, PortsOf
    <2>3. QED BY <2>1, <2>2
<1>2. CASE x \in PortsOf(t)
    <2> DEFINE k == IndexOf(t, x)
               n == Len(t)
               rest == RemoveAt(t, k)
               u == Delist(t, x)
    <2>1. k \in DOMAIN t /\ t[k].port = x
        BY <1>2, IndexOfListed
    <2>2. n \in Nat /\ DOMAIN t = 1..n
        BY LenProperties
    <2>3. /\ rest \in Seq(EntriesOf(R))
          /\ DOMAIN rest = 1..(n - 1)
          /\ \A j \in 1..(n - 1) : rest[j] = t[Shift(k, j)]
        BY <2>1, RemoveAtFacts, LenProperties
    <2>4. u = IF t[k].active /\ rest # << >> THEN PromoteFirst(rest) ELSE rest
        BY <1>2 DEF Delist
    <2>5. /\ \A j \in 1..(n - 1) : Shift(k, j) \in (1..n) \ {k}
          /\ \A i, j \in 1..(n - 1) : Shift(k, i) = Shift(k, j) => i = j
          /\ \A i \in (1..n) \ {k} : \E j \in 1..(n - 1) : Shift(k, j) = i
        BY <2>1, <2>2, ShiftFacts
    <2>6. \A i, j \in 1..(n - 1) : i < j <=> Shift(k, i) < Shift(k, j)
        BY <2>1, <2>2 DEF Shift
    <2> HIDE DEF k, n, rest, u
    <2>7. \A i, j \in DOMAIN t : t[i].port = t[j].port => i = j
        BY DEF DistinctPorts
    <2>8. ASSUME NEW j \in DOMAIN rest
          PROVE  rest[j].port # x
        BY <2>1, <2>2, <2>3, <2>5, <2>7
    <2>9. ASSUME NEW i \in DOMAIN t, t[i].port # x
          PROVE  \E j \in 1..(n - 1) : Shift(k, j) = i /\ rest[j] = t[i]
        BY <2>1, <2>2, <2>3, <2>5, <2>9
    <2>10. ASSUME NEW p
           PROVE  IsActive(rest, p) <=> p # x /\ IsActive(t, p)
        <3>1. ASSUME IsActive(rest, p) PROVE p # x /\ IsActive(t, p)
            <4>1. PICK j \in DOMAIN rest : rest[j].port = p /\ rest[j].active
                BY <3>1 DEF IsActive
            <4>2. Shift(k, j) \in DOMAIN t /\ rest[j] = t[Shift(k, j)]
                BY <2>2, <2>3, <2>5
            <4>3. QED BY <2>8, <4>1, <4>2 DEF IsActive
        <3>2. ASSUME p # x, IsActive(t, p) PROVE IsActive(rest, p)
            <4>1. PICK i \in DOMAIN t : t[i].port = p /\ t[i].active
                BY <3>2 DEF IsActive
            <4>2. QED BY <2>3, <2>9, <3>2, <4>1 DEF IsActive
        <3>3. QED BY <3>1, <3>2
    <2>11. ASSUME NEW p, NEW q
           PROVE  Precedes(rest, p, q) <=> p # x /\ q # x /\ Precedes(t, p, q)
        <3>1. ASSUME Precedes(rest, p, q) PROVE p # x /\ q # x /\ Precedes(t, p, q)
            <4>1. PICK i \in 1..(n - 1), j \in 1..(n - 1) :
                     i < j /\ rest[i].port = p /\ rest[j].port = q
                BY <2>3, <3>1 DEF Precedes
            <4>2. /\ Shift(k, i) \in DOMAIN t /\ rest[i] = t[Shift(k, i)]
                  /\ Shift(k, j) \in DOMAIN t /\ rest[j] = t[Shift(k, j)]
                BY <2>2, <2>3, <2>5
            <4>3. Shift(k, i) < Shift(k, j)
                BY <2>6, <4>1
            <4>4. QED BY <2>3, <2>8, <4>1, <4>2, <4>3 DEF Precedes
        <3>2. ASSUME p # x, q # x, Precedes(t, p, q) PROVE Precedes(rest, p, q)
            <4>1. PICK a, b \in DOMAIN t : a < b /\ t[a].port = p /\ t[b].port = q
                BY <3>2 DEF Precedes
            <4>2. PICK i \in 1..(n - 1) : Shift(k, i) = a /\ rest[i] = t[a]
                BY <2>9, <3>2, <4>1
            <4>3. PICK j \in 1..(n - 1) : Shift(k, j) = b /\ rest[j] = t[b]
                BY <2>9, <3>2, <4>1
            <4>4. i < j
                BY <2>6, <4>1, <4>2, <4>3
            <4>5. QED BY <2>3, <4>1, <4>2, <4>3, <4>4 DEF Precedes
        <3>3. QED BY <3>1, <3>2
    <2>12. IsActive(t, x) <=> t[k].active
        BY <2>1, <2>7 DEF IsActive
    <2>13. DistinctPorts(rest)
        BY <2>2, <2>3, <2>5, <2>7 DEF DistinctPorts
    <2>14. CASE t[k].active /\ rest # << >>
        <3>1. u = PromoteFirst(rest)
            BY <2>4, <2>14
        <3>2. /\ PortsOf(u) = PortsOf(rest)
              /\ \A p : IsActive(u, p) <=> IsActive(rest, p) \/ First(rest, PortsOf(rest), p)
              /\ \A p, q : Precedes(u, p, q) <=> Precedes(rest, p, q)
            BY <2>3, <2>13, <2>14, <3>1, PromoteView
        <3>3. \A p : First(u, PortsOf(u), p) <=> First(rest, PortsOf(rest), p)
            BY <3>2, SameFirst
        <3>4. \A p : First(rest, PortsOf(rest), p) => p # x
            BY <2>8 DEF First, PortsOf
        <3>5. \A p : IsActive(u, p) <=>
                        p # x /\ (IsActive(t, p) \/ (IsActive(t, x) /\ First(u, PortsOf(u), p)))
            BY <2>10, <2>12, <2>14, <3>2, <3>3, <3>4
        <3>6. QED BY <2>11, <3>2, <3>5 DEF u
    <2>15. CASE ~(t[k].active /\ rest # << >>)
        <3>1. u = rest
            BY <2>4, <2>15
        <3>2. IsActive(t, x) => ~\E p : First(u, PortsOf(u), p)
            <4>1. rest = << >> => PortsOf(rest) = {}
                BY DEF PortsOf
            <4>2. QED BY <2>12, <2>15, <3>1, <4>1 DEF First
        <3>3. QED BY <2>10, <2>11, <3>1, <3>2 DEF u
    <2>16. QED BY <2>14, <2>15 DEF u
<1>3. QED BY <1>1, <1>2

(* A switch to a listed backend leaves it alone active, and the order.     *)
LEMMA ActivateView ==
    ASSUME NEW R, OneLabelEach(R), NEW t \in Seq(EntriesOf(R)), DistinctPorts(t),
           NEW k \in DOMAIN t
    PROVE  LET u == Activate(t, t[k].label)
           IN  /\ \A p : IsActive(u, p) <=> p = t[k].port
               /\ \A p, q : Precedes(u, p, q) <=> Precedes(t, p, q)
<1> DEFINE b == t[k].label
           u == Activate(t, b)
<1>1. u = [i \in DOMAIN t |-> EntryOf(t[i], t[i].label = b)]
    BY DEF Activate, LabelsOf
<1>2. DOMAIN u = DOMAIN t
    BY <1>1
<1> HIDE DEF b, u
<1>3. ASSUME NEW i \in DOMAIN t
      PROVE  /\ t[i] \in EntriesOf(R)
             /\ u[i].port = t[i].port
             /\ u[i].active <=> t[i].label = b
    <2>1. t[i] \in EntriesOf(R)
        BY LenProperties, ElementOfSeq
    <2>2. PICK a \in BOOLEAN : a = (t[i].label = b)
        OBVIOUS
    <2>3. u[i] = EntryOf(t[i], a)
        BY <1>1, <2>2
    <2>4. u[i].port = t[i].port /\ u[i].active = a
        BY <2>1, <2>3, EntryFlag
    <2>5. QED BY <2>1, <2>2, <2>4
<1>4. \A i \in DOMAIN t : t[i].label = b <=> i = k
    <2>1. SUFFICES ASSUME NEW i \in DOMAIN t, t[i].label = b PROVE i = k
        BY DEF b
    <2>2. t[i].port = t[k].port
        BY <1>3, <2>1, SameLabelSamePort DEF b
    <2>3. QED BY <2>2 DEF DistinctPorts
<1>5. \A p : IsActive(u, p) <=> p = t[k].port
    BY <1>2, <1>3, <1>4 DEF IsActive
<1>6. \A p, q : Precedes(u, p, q) <=> Precedes(t, p, q)
    BY <1>2, <1>3 DEF Precedes
<1>7. QED BY <1>5, <1>6 DEF u, b

(* CleanStalePIDs keeps the backends without a process and those whose     *)
(* process lives, in their order; active is what was, or the first of them *)
(* when none was.                                                          *)
LEMMA DropDeadView ==
    ASSUME NEW R, NEW t \in Seq(EntriesOf(R)), DistinctPorts(t), NEW noPid, NEW alive
    PROVE  LET u == DropDead(t, noPid, alive)
           IN  /\ \A p : p \in PortsOf(u) <=>
                            \E i \in DOMAIN t : t[i].port = p /\ Keeps(t[i], noPid, alive)
               /\ \A p : IsActive(u, p) <=>
                            /\ p \in PortsOf(u)
                            /\ \/ IsActive(t, p)
                               \/ /\ \A q \in PortsOf(u) : ~IsActive(t, q)
                                  /\ First(u, PortsOf(u), p)
               /\ \A p, q : Precedes(u, p, q) <=>
                               p \in PortsOf(u) /\ q \in PortsOf(u) /\ Precedes(t, p, q)
<1> DEFINE live == DropDeadOnly(t, noPid, alive)
           u == DropDead(t, noPid, alive)
           K(e) == Keeps(e, noPid, alive)
<1>1. /\ live \in Seq(EntriesOf(R))
      /\ DistinctPorts(live)
    BY DropDeadOnlyFacts
<1>2. \A j \in DOMAIN live : \E i \in DOMAIN t : live[j] = t[i] /\ K(t[i])
    BY DropDeadOnlyFacts
<1>3. \A i \in DOMAIN t : K(t[i]) => \E j \in DOMAIN live : live[j] = t[i]
    BY DropDeadOnlyFacts
<1>4. \A j, k \in DOMAIN live : j < k =>
          \E i, m \in DOMAIN t : i < m /\ live[j] = t[i] /\ live[k] = t[m]
    BY DropDeadOnlyFacts
<1>5. u = IF live # << >> /\ ActiveAt(live) = {} THEN PromoteFirst(live) ELSE live
    BY DEF DropDead
<1> HIDE DEF live, u, K
<1>6. \A i, j \in DOMAIN t : t[i].port = t[j].port => i = j
    BY DEF DistinctPorts
<1>7. ASSUME NEW p
      PROVE  p \in PortsOf(live) <=> \E i \in DOMAIN t : t[i].port = p /\ K(t[i])
    <2>1. ASSUME p \in PortsOf(live) PROVE \E i \in DOMAIN t : t[i].port = p /\ K(t[i])
        <3>1. PICK j \in DOMAIN live : live[j].port = p
            BY <2>1 DEF PortsOf
        <3>2. QED BY <1>2, <3>1
    <2>2. ASSUME NEW i \in DOMAIN t, t[i].port = p, K(t[i]) PROVE p \in PortsOf(live)
        <3>1. PICK j \in DOMAIN live : live[j] = t[i]
            BY <1>3, <2>2
        <3>2. QED BY <2>2, <3>1 DEF PortsOf
    <2>3. QED BY <2>1, <2>2
<1>8. ASSUME NEW p
      PROVE  IsActive(live, p) <=> p \in PortsOf(live) /\ IsActive(t, p)
    <2>1. ASSUME IsActive(live, p) PROVE p \in PortsOf(live) /\ IsActive(t, p)
        <3>1. PICK j \in DOMAIN live : live[j].port = p /\ live[j].active
            BY <2>1 DEF IsActive
        <3>2. QED BY <1>2, <3>1 DEF PortsOf, IsActive
    <2>2. ASSUME p \in PortsOf(live), IsActive(t, p) PROVE IsActive(live, p)
        <3>1. PICK i \in DOMAIN t : t[i].port = p /\ K(t[i])
            BY <1>7, <2>2
        <3>2. t[i].active
            BY <1>6, <2>2, <3>1 DEF IsActive
        <3>3. PICK j \in DOMAIN live : live[j] = t[i]
            BY <1>3, <3>1
        <3>4. QED BY <3>1, <3>2, <3>3 DEF IsActive
    <2>3. QED BY <2>1, <2>2
<1>9. ASSUME NEW p, NEW q
      PROVE  Precedes(live, p, q) <=>
                p \in PortsOf(live) /\ q \in PortsOf(live) /\ Precedes(t, p, q)
    <2>1. ASSUME Precedes(live, p, q)
          PROVE  p \in PortsOf(live) /\ q \in PortsOf(live) /\ Precedes(t, p, q)
        <3>1. PICK j, k \in DOMAIN live : j < k /\ live[j].port = p /\ live[k].port = q
            BY <2>1 DEF Precedes
        <3>2. PICK i, m \in DOMAIN t : i < m /\ live[j] = t[i] /\ live[k] = t[m]
            BY <1>4, <3>1
        <3>3. QED BY <3>1, <3>2 DEF Precedes, PortsOf
    <2>2. ASSUME p \in PortsOf(live), q \in PortsOf(live), Precedes(t, p, q)
          PROVE  Precedes(live, p, q)
        <3>1. p # q /\ ~Precedes(t, q, p)
            BY <2>2, OrderFacts
        <3>2. p = q \/ Precedes(live, p, q) \/ Precedes(live, q, p)
            BY <1>1, <2>2, OrderFacts
        <3>3. ASSUME Precedes(live, q, p) PROVE FALSE
            <4>1. PICK j, k \in DOMAIN live : j < k /\ live[j].port = q /\ live[k].port = p
                BY <3>3 DEF Precedes
            <4>2. PICK i, m \in DOMAIN t : i < m /\ live[j] = t[i] /\ live[k] = t[m]
                BY <1>4, <4>1
            <4>3. QED BY <3>1, <4>1, <4>2 DEF Precedes
        <3>4. QED BY <3>1, <3>2, <3>3
    <2>3. QED BY <2>1, <2>2
<1>10. CASE live # << >> /\ ActiveAt(live) = {}
    <2>1. /\ PortsOf(u) = PortsOf(live)
          /\ \A p : IsActive(u, p) <=> IsActive(live, p) \/ First(live, PortsOf(live), p)
          /\ \A p, q : Precedes(u, p, q) <=> Precedes(live, p, q)
        BY <1>1, <1>5, <1>10, PromoteView
    <2>2. \A p : First(u, PortsOf(u), p) <=> First(live, PortsOf(live), p)
        BY <2>1, SameFirst
    <2>3. \A p : ~IsActive(live, p)
        BY <1>10 DEF ActiveAt, IsActive
    <2>4. \A p : First(u, PortsOf(u), p) => p \in PortsOf(u)
        BY DEF First
    <2>5. QED BY <1>7, <1>8, <1>9, <2>1, <2>2, <2>3, <2>4 DEF u, K
<1>11. CASE ~(live # << >> /\ ActiveAt(live) = {})
    <2>1. u = live
        BY <1>5, <1>11
    <2>2. ASSUME NEW p, First(live, PortsOf(live), p)
          PROVE  \E q \in PortsOf(live) : IsActive(t, q)
        <3>1. live # << >>
            BY <2>2 DEF First, PortsOf
        <3>2. PICK j \in DOMAIN live : live[j].active
            BY <1>11, <3>1 DEF ActiveAt
        <3>3. IsActive(live, live[j].port)
            BY <3>2 DEF IsActive
        <3>4. QED BY <1>8, <3>3
    <2>3. \A p : IsActive(live, p) <=>
                    /\ p \in PortsOf(live)
                    /\ \/ IsActive(t, p)
                       \/ /\ \A q \in PortsOf(live) : ~IsActive(t, q)
                          /\ First(live, PortsOf(live), p)
        BY <1>8, <2>2
    <2>4. QED BY <1>7, <1>9, <2>1, <2>3 DEF u, K
<1>12. QED BY <1>10, <1>11
-----------------------------------------------------------------------------
(* What a table is to those who know which ports, K, belong to processes   *)
(* that live: the current port is the active one or, when that one's       *)
(* process has ended, the one that will be active once the dead are gone.  *)

Current(t, K, p) ==
    LET live == K \cap PortsOf(t)
    IN  /\ p \in live
        /\ \/ IsActive(t, p)
           \/ (\A q \in live : ~IsActive(t, q)) /\ First(t, live, p)

(* Two tables are alike when they have the same live ports in the same     *)
(* order and the same current one.                                         *)
Alike(t, s, K) ==
    /\ K \cap PortsOf(t) = K \cap PortsOf(s)
    /\ \A p, q \in K : Precedes(t, p, q) <=> Precedes(s, p, q)
    /\ \A p \in K : Current(t, K, p) <=> Current(s, K, p)

(* One entry at most is active, stated of ports.                           *)
LEMMA OneActivePort ==
    ASSUME NEW t, AtMostOneActive(t), NEW p, NEW q, IsActive(t, p), IsActive(t, q)
    PROVE  p = q
    BY DEF AtMostOneActive, ActiveAt, IsActive

(* AddBackend.                                                             *)
LEMMA EnlistCurrent ==
    ASSUME NEW R, NEW t \in Seq(EntriesOf(R)), DistinctPorts(t), NEW r \in R,
           r.port \notin PortsOf(t), NEW K, NEW p
    PROVE  Current(Enlist(t, r), K, p) <=>
              IF r.port \in K /\ K \cap PortsOf(t) = {} THEN p = r.port ELSE Current(t, K, p)
<1> DEFINE u == Enlist(t, r)
           live == K \cap PortsOf(t)
<1>1. PortsOf(u) = PortsOf(t) \cup {r.port}
    BY EnlistFacts
<1>2. /\ \A q : IsActive(u, q) <=> IF t = << >> THEN q = r.port ELSE IsActive(t, q)
      /\ \A q, z : Precedes(u, q, z) <=> Precedes(t, q, z) \/ (q \in PortsOf(t) /\ z = r.port)
    BY EnlistView
<1>3. \A q, z : Precedes(t, q, z) => q \in PortsOf(t) /\ z \in PortsOf(t)
    BY OrderFacts
<1>4. \A q : IsActive(t, q) => q \in PortsOf(t)
    BY DEF IsActive, PortsOf
<1>5. t = << >> <=> PortsOf(t) = {}
    <2>1. t # << >> => 1 \in DOMAIN t
        BY FirstFacts
    <2>2. t # << >> => t[1].port \in PortsOf(t)
        BY <2>1 DEF PortsOf
    <2>3. t = << >> => PortsOf(t) = {}
        BY DEF PortsOf
    <2>4. QED BY <2>2, <2>3
<1> HIDE DEF u
<1>6. CASE r.port \notin K
    <2>1. K \cap PortsOf(u) = live
        BY <1>1, <1>6
    <2>2. \A q \in live : IsActive(u, q) <=> IsActive(t, q)
        BY <1>2, <1>5, <1>6
    <2>3. \A q \in live : First(u, live, q) <=> First(t, live, q)
        BY <1>2, <1>6 DEF First
    <2>4. QED BY <1>6, <2>1, <2>2, <2>3 DEF Current, u
<1>7. CASE r.port \in K /\ live = {}
    <2>1. K \cap PortsOf(u) = {r.port}
        BY <1>1, <1>7
    <2>2. First(u, {r.port}, r.port)
        BY DEF First
    <2>3. QED BY <1>7, <2>1, <2>2 DEF Current, u
<1>8. CASE r.port \in K /\ live # {}
    <2>1. K \cap PortsOf(u) = live \cup {r.port}
        BY <1>1, <1>8
    <2>2. \A q : IsActive(u, q) <=> IsActive(t, q)
        BY <1>2, <1>5, <1>8
    <2>3. ~IsActive(t, r.port)
        BY <1>4
    <2>4. ~First(u, live \cup {r.port}, r.port)
        <3>1. PICK q \in live : TRUE
            BY <1>8
        <3>2. q # r.port /\ ~Precedes(u, r.port, q)
            BY <1>2, <1>3, <3>1
        <3>3. QED BY <3>1, <3>2 DEF First
    <2>5. \A q \in live : First(u, live \cup {r.port}, q) <=> First(t, live, q)
        <3>1. ASSUME NEW q \in live, First(u, live \cup {r.port}, q)
              PROVE  First(t, live, q)
            <4>1. ASSUME NEW z \in live \ {q} PROVE Precedes(t, q, z)
                <5>1. Precedes(u, q, z) /\ z # r.port
                    BY <3>1 DEF First
                <5>2. QED BY <1>2, <5>1
            <4>2. QED BY <4>1 DEF First
        <3>2. ASSUME NEW q \in live, First(t, live, q)
              PROVE  First(u, live \cup {r.port}, q)
            <4>1. ASSUME NEW z \in (live \cup {r.port}) \ {q} PROVE Precedes(u, q, z)
                BY <1>2, <3>2 DEF First
            <4>2. QED BY <4>1 DEF First
        <3>3. QED BY <3>1, <3>2
    <2>6. QED BY <1>8, <2>1, <2>2, <2>3, <2>4, <2>5 DEF Current, u
<1>9. QED BY <1>6, <1>7, <1>8

(* Removing some of the candidates leaves the first of them first, and     *)
(* makes no other one first unless the first was removed.                  *)
LEMMA FirstOfFewer ==
    ASSUME NEW R, NEW t \in Seq(EntriesOf(R)), DistinctPorts(t),
           NEW S \in SUBSET PortsOf(t), NEW x, NEW p
    PROVE  /\ First(t, S, p) /\ p # x => First(t, S \ {x}, p)
           /\ First(t, S \ {x}, p) => First(t, S, p) \/ First(t, S, x)
<1>1. First(t, S, p) /\ p # x => First(t, S \ {x}, p)
    BY DEF First
<1>2. ASSUME First(t, S \ {x}, p), ~First(t, S, p)
      PROVE  First(t, S, x)
    <2>1. p \in S /\ p # x /\ \A q \in S \ {x, p} : Precedes(t, p, q)
        BY <1>2 DEF First
    <2>2. x \in S /\ ~Precedes(t, p, x)
        BY <1>2, <2>1 DEF First
    <2>3. Precedes(t, x, p)
        BY <2>1, <2>2, OrderFacts
    <2>4. ASSUME NEW q \in S \ {x} PROVE Precedes(t, x, q)
        BY <2>1, <2>3, OrderFacts
    <2>5. QED BY <2>2, <2>4 DEF First
<1>3. QED BY <1>1, <1>2

(* RemoveBackend.                                                          *)
LEMMA DelistCurrent ==
    ASSUME NEW R, NEW t \in Seq(EntriesOf(R)), Sound(t), AtMostOneActive(t),
           NEW x, NEW K, NEW p
    PROVE  Current(Delist(t, x), K, p) <=>
              /\ p # x
              /\ \/ Current(t, K, p)
                 \/ Current(t, K, x) /\ First(t, (K \cap PortsOf(t)) \ {x}, p)
<1> DEFINE u == Delist(t, x)
           live == K \cap PortsOf(t)
           rest == live \ {x}
<1>1. DistinctPorts(t)
    BY DEF Sound
<1>2. PortsOf(u) = PortsOf(t) \ {x}
    BY DelistFacts
<1>3. /\ \A q : IsActive(u, q) <=>
                   q # x /\ (IsActive(t, q) \/ (IsActive(t, x) /\ First(u, PortsOf(u), q)))
      /\ \A q, z : Precedes(u, q, z) <=> q # x /\ z # x /\ Precedes(t, q, z)
    BY <1>1, DelistView
<1>4. \A S, q : x \notin S => (First(u, S, q) <=> First(t, S, q))
    BY <1>3 DEF First
<1>5. \A q, z : IsActive(t, q) /\ IsActive(t, z) => q = z
    BY OneActivePort
<1>6. \A q : IsActive(t, q) => q \in PortsOf(t)
    BY DEF IsActive, PortsOf
<1> HIDE DEF u
<1>7. K \cap PortsOf(u) = rest /\ rest \subseteq PortsOf(t)
    BY <1>2
<1>8. ASSUME NEW z, First(u, PortsOf(u), z)
      PROVE  /\ z \in rest => (First(t, rest, p) <=> p = z)
             /\ z \in PortsOf(u) \ {x}
    <2>1. z \in rest => First(u, rest, z)
        BY <1>7, <1>8 DEF First
    <2>2. z \in rest => First(t, rest, z)
        BY <1>4, <2>1
    <2>3. \A q : First(t, rest, q) /\ First(t, rest, z) => q = z
        BY <1>1, FirstFacts
    <2>4. z \in PortsOf(u) \ {x}
        BY <1>2, <1>8 DEF First
    <2>5. QED BY <2>2, <2>3, <2>4
<1>9. CASE IsActive(t, x)
    <2>1. \A q : IsActive(t, q) <=> q = x
        BY <1>5, <1>9
    <2>2. \A q : IsActive(u, q) <=> First(u, PortsOf(u), q)
        BY <1>2, <1>3, <2>1 DEF First
    <2>3. Current(u, K, p) <=> First(t, rest, p)
        <3>1. CASE \E z \in rest : First(u, PortsOf(u), z)
            <4>1. PICK z \in rest : First(u, PortsOf(u), z)
                BY <3>1
            <4>2. First(t, rest, p) <=> p = z
                BY <1>8, <4>1
            <4>3. p \in rest => (First(u, PortsOf(u), p) <=> p = z)
                BY <1>8, <4>1, <4>2
            <4>4. Current(u, K, p) <=> p \in rest /\ First(u, PortsOf(u), p)
                BY <1>7, <2>2, <4>1 DEF Current
            <4>5. QED BY <4>1, <4>2, <4>3, <4>4
        <3>2. CASE ~\E z \in rest : First(u, PortsOf(u), z)
            <4>1. \A q \in rest : ~IsActive(u, q)
                BY <2>2, <3>2
            <4>2. Current(u, K, p) <=> First(u, rest, p)
                BY <1>7, <4>1 DEF Current, First
            <4>3. QED BY <1>4, <4>2
        <3>3. QED BY <3>1, <3>2
    <2>4. CASE x \in K
        <3>1. \A q : Current(t, K, q) <=> q = x
            BY <1>6, <1>9, <2>1, <2>4 DEF Current
        <3>2. QED BY <2>3, <3>1 DEF u, First
    <2>5. CASE x \notin K
        <3>1. rest = live /\ \A q \in live : ~IsActive(t, q)
            BY <2>1, <2>5
        <3>2. \A q : Current(t, K, q) <=> First(t, live, q)
            BY <3>1 DEF Current, First
        <3>3. QED BY <2>3, <3>1, <3>2 DEF u, First
    <2>6. QED BY <2>4, <2>5
<1>10. CASE ~IsActive(t, x)
    <2>1. \A q : IsActive(u, q) <=> IsActive(t, q)
        BY <1>3, <1>10
    <2>2. CASE \E a \in rest : IsActive(t, a)
        <3>1. PICK a \in rest : IsActive(t, a)
            BY <2>2
        <3>2. \A q : Current(t, K, q) <=> q = a
            BY <1>5, <3>1 DEF Current
        <3>3. Current(u, K, p) <=> p = a
            BY <1>5, <1>7, <2>1, <3>1 DEF Current
        <3>4. QED BY <3>1, <3>2, <3>3 DEF u
    <2>3. CASE \A a \in rest : ~IsActive(t, a)
        <3>1. \A q \in live : ~IsActive(t, q)
            BY <1>10, <2>3
        <3>2. \A q : Current(t, K, q) <=> First(t, live, q)
            BY <3>1 DEF Current, First
        <3>3. Current(u, K, p) <=> First(t, rest, p)
            <4>1. Current(u, K, p) <=> First(u, rest, p)
                BY <1>7, <2>1, <2>3 DEF Current, First
            <4>2. QED BY <1>4, <4>1
        <3>4. First(t, rest, p) => p # x
            BY DEF First
        <3>5. /\ First(t, live, p) /\ p # x => First(t, rest, p)
              /\ First(t, rest, p) => First(t, live, p) \/ First(t, live, x)
            BY <1>1, FirstOfFewer
        <3>6. QED BY <3>2, <3>3, <3>4, <3>5 DEF u
    <2>4. QED BY <2>2, <2>3
<1>11. QED BY <1>9, <1>10

(* A switch.                                                               *)
LEMMA ActivateCurrent ==
    ASSUME NEW R, OneLabelEach(R), NEW t \in Seq(EntriesOf(R)), Sound(t),
           NEW k \in DOMAIN t, NEW K, NEW p
    PROVE  Current(Activate(t, t[k].label), K, p) <=>
              IF t[k].port \in K THEN p = t[k].port ELSE First(t, K \cap PortsOf(t), p)
<1> DEFINE u == Activate(t, t[k].label)
           x == t[k].port
           live == K \cap PortsOf(t)
<1>1. DistinctPorts(t) /\ x \in PortsOf(t)
    BY DEF Sound, PortsOf
<1>2. PortsOf(u) = PortsOf(t)
    BY ActivateFacts
<1>3. /\ \A q : IsActive(u, q) <=> q = x
      /\ \A q, z : Precedes(u, q, z) <=> Precedes(t, q, z)
    BY <1>1, ActivateView
<1>4. \A S, q : First(u, S, q) <=> First(t, S, q)
    BY <1>3, SameFirst
<1> HIDE DEF u, x
<1>5. CASE x \in K
    BY <1>1, <1>2, <1>3, <1>5 DEF Current, u, x
<1>6. CASE x \notin K
    <2>1. \A q \in live : ~IsActive(u, q)
        BY <1>3, <1>6
    <2>2. Current(u, K, p) <=> p \in live /\ First(u, live, p)
        BY <1>2, <2>1 DEF Current
    <2>3. First(t, live, p) => p \in live
        BY DEF First
    <2>4. Current(u, K, p) <=> First(t, live, p)
        BY <1>4, <2>2, <2>3
    <2>5. QED BY <1>6, <2>4 DEF u, x
<1>7. QED BY <1>5, <1>6

(* CleanStalePIDs, which knows the live ones.                              *)
LEMMA DropDeadCurrent ==
    ASSUME NEW R, NEW t \in Seq(EntriesOf(R)), Sound(t), NEW noPid, NEW alive,
           NEW K, \A i \in DOMAIN t : Keeps(t[i], noPid, alive) <=> t[i].port \in K
    PROVE  LET u == DropDead(t, noPid, alive)
           IN  /\ PortsOf(u) = K \cap PortsOf(t)
               /\ \A p, q \in K : Precedes(u, p, q) <=> Precedes(t, p, q)
               /\ \A p : Current(u, K, p) <=> Current(t, K, p)
<1> DEFINE u == DropDead(t, noPid, alive)
           live == K \cap PortsOf(t)
<1>1. DistinctPorts(t)
    BY DEF Sound
<1>2. \A p : p \in PortsOf(u) <=> \E i \in DOMAIN t : t[i].port = p /\ Keeps(t[i], noPid, alive)
    BY <1>1, DropDeadView
<1>3. \A p : IsActive(u, p) <=> /\ p \in PortsOf(u)
                               /\ \/ IsActive(t, p)
                                  \/ /\ \A q \in PortsOf(u) : ~IsActive(t, q)
                                     /\ First(u, PortsOf(u), p)
    BY <1>1, DropDeadView
<1>4. \A p, q : Precedes(u, p, q) <=>
                   p \in PortsOf(u) /\ q \in PortsOf(u) /\ Precedes(t, p, q)
    BY <1>1, DropDeadView
<1>5. u \in Seq(EntriesOf(R)) /\ Sound(u)
    BY DropDeadFacts
<1> HIDE DEF u
<1>6. PortsOf(u) = live
    BY <1>2 DEF PortsOf
<1>7. \A p, q \in K : Precedes(u, p, q) <=> Precedes(t, p, q)
    <2>1. \A p, q : Precedes(t, p, q) => p \in PortsOf(t) /\ q \in PortsOf(t)
        BY <1>1, OrderFacts
    <2>2. QED BY <1>4, <1>6, <2>1
<1>8. ASSUME NEW p
      PROVE  IsActive(u, p) <=> Current(t, K, p)
    <2>1. First(u, live, p) <=> First(t, live, p)
        BY <1>4, <1>6 DEF First
    <2>2. QED BY <1>3, <1>6, <2>1 DEF Current
<1>9. ASSUME NEW p
      PROVE  Current(u, K, p) <=> IsActive(u, p)
    <2>1. \A q : IsActive(u, q) => q \in live
        BY <1>3, <1>6
    <2>2. live # {} => \E q \in live : IsActive(u, q)
        <3>1. live # {} => u # << >>
            BY <1>6 DEF PortsOf
        <3>2. u # << >> => \E i \in DOMAIN u : u[i].active
            BY <1>5 DEF Sound, SomeActive, ActiveAt
        <3>3. QED BY <1>6, <3>1, <3>2 DEF IsActive, PortsOf
    <2>3. K \cap PortsOf(u) = live
        BY <1>6
    <2>4. QED BY <2>1, <2>2, <2>3 DEF Current
<1>10. QED BY <1>6, <1>7, <1>8, <1>9 DEF u

(* More processes end.                                                     *)
LEMMA FewerCurrent ==
    ASSUME NEW R, NEW t \in Seq(EntriesOf(R)), Sound(t), AtMostOneActive(t),
           NEW K, NEW J \in SUBSET K, NEW p
    PROVE  Current(t, J, p) <=>
              /\ p \in J
              /\ \/ Current(t, K, p)
                 \/ /\ \A q \in J : ~Current(t, K, q)
                    /\ First(t, J \cap PortsOf(t), p)
<1> DEFINE live == K \cap PortsOf(t)
           rest == J \cap PortsOf(t)
<1>1. \A q, z : IsActive(t, q) /\ IsActive(t, z) => q = z
    BY OneActivePort
<1>2. \A S, q, z : First(t, S, q) /\ First(t, S, z) => q = z
    BY FirstFacts DEF Sound
<1>3. \A q \in rest : First(t, live, q) => First(t, rest, q)
    BY DEF First
<1>4. CASE \E a \in rest : IsActive(t, a)
    <2>1. PICK a \in rest : IsActive(t, a)
        BY <1>4
    <2>2. \A q : Current(t, K, q) <=> q = a
        BY <1>1, <2>1 DEF Current
    <2>3. Current(t, J, p) <=> p = a
        BY <1>1, <2>1 DEF Current
    <2>4. QED BY <2>1, <2>2, <2>3
<1>5. CASE \A a \in rest : ~IsActive(t, a)
    <2>1. Current(t, J, p) <=> First(t, rest, p)
        BY <1>5 DEF Current, First
    <2>2. \A q \in J : Current(t, K, q) => First(t, rest, q)
        BY <1>3, <1>5 DEF Current
    <2>3. First(t, rest, p) => p \in J
        BY DEF First
    <2>4. \A q \in J : Current(t, K, q) /\ First(t, rest, p) => q = p
        BY <1>2, <2>2
    <2>5. QED BY <2>1, <2>2, <2>3, <2>4
<1>6. QED BY <1>4, <1>5
-----------------------------------------------------------------------------
(* Tables that are alike stay alike when the same is done to both.         *)

Steady(R) == {t \in Seq(EntriesOf(R)) : Sound(t) /\ AtMostOneActive(t)}

(* Alike tables have the same first among the live.                        *)
LEMMA AlikeFirst ==
    ASSUME NEW K, NEW t, NEW s, Alike(t, s, K)
    PROVE  \A S \in SUBSET K : \A p : First(t, S, p) <=> First(s, S, p)
    BY DEF Alike, First

(* Adding one whose process has ended is not noticed.                      *)
LEMMA EnlistUnseen ==
    ASSUME NEW R, NEW t \in Steady(R), NEW r \in R, NEW K, r.port \notin K
    PROVE  Alike(Enlist(t, r), t, K)
<1>1. CASE r.port \in PortsOf(t)
    BY <1>1 DEF Enlist, Alike
<1>2. CASE r.port \notin PortsOf(t)
    <2>1. t \in Seq(EntriesOf(R)) /\ DistinctPorts(t)
        BY DEF Steady, Sound
    <2>2. PortsOf(Enlist(t, r)) = PortsOf(t) \cup {r.port}
        BY <2>1, EnlistFacts
    <2>3. \A p, q \in K : Precedes(Enlist(t, r), p, q) <=> Precedes(t, p, q)
        BY <1>2, <2>1, EnlistView
    <2>4. \A p : Current(Enlist(t, r), K, p) <=> Current(t, K, p)
        BY <1>2, <2>1, EnlistCurrent
    <2>5. QED BY <2>2, <2>3, <2>4 DEF Alike
<1>3. QED BY <1>1, <1>2

(* A registration.                                                         *)
LEMMA EnlistAlike ==
    ASSUME NEW R, NEW t \in Steady(R), NEW s \in Steady(R), NEW K, Alike(t, s, K), NEW r \in R
    PROVE  Alike(Enlist(t, r), Enlist(s, r), K)
<1>1. CASE r.port \notin K
    <2>1. Alike(Enlist(t, r), t, K) /\ Alike(Enlist(s, r), s, K)
        BY <1>1, EnlistUnseen
    <2>2. QED BY <2>1 DEF Alike
<1>2. CASE r.port \in K /\ r.port \in PortsOf(t)
    <2>1. r.port \in PortsOf(s)
        BY <1>2 DEF Alike
    <2>2. QED BY <1>2, <2>1 DEF Enlist
<1>3. CASE r.port \in K /\ r.port \notin PortsOf(t)
    <2>1. r.port \notin PortsOf(s)
        BY <1>3 DEF Alike
    <2>2. /\ t \in Seq(EntriesOf(R)) /\ DistinctPorts(t)
          /\ s \in Seq(EntriesOf(R)) /\ DistinctPorts(s)
        BY DEF Steady, Sound
    <2>3. /\ PortsOf(Enlist(t, r)) = PortsOf(t) \cup {r.port}
          /\ PortsOf(Enlist(s, r)) = PortsOf(s) \cup {r.port}
        BY <2>2, EnlistFacts
    <2>4. /\ \A p, q : Precedes(Enlist(t, r), p, q) <=>
                          Precedes(t, p, q) \/ (p \in PortsOf(t) /\ q = r.port)
          /\ \A p, q : Precedes(Enlist(s, r), p, q) <=>
                          Precedes(s, p, q) \/ (p \in PortsOf(s) /\ q = r.port)
        BY <1>3, <2>1, <2>2, EnlistView
    <2>5. /\ \A p : Current(Enlist(t, r), K, p) <=>
                       IF K \cap PortsOf(t) = {} THEN p = r.port ELSE Current(t, K, p)
          /\ \A p : Current(Enlist(s, r), K, p) <=>
                       IF K \cap PortsOf(s) = {} THEN p = r.port ELSE Current(s, K, p)
        BY <1>3, <2>1, <2>2, EnlistCurrent
    <2>6. K \cap PortsOf(Enlist(t, r)) = K \cap PortsOf(Enlist(s, r))
        BY <2>3 DEF Alike
    <2>7. \A p, q \in K : Precedes(Enlist(t, r), p, q) <=> Precedes(Enlist(s, r), p, q)
        BY <2>4 DEF Alike
    <2>8. \A p \in K : Current(Enlist(t, r), K, p) <=> Current(Enlist(s, r), K, p)
        BY <2>5 DEF Alike
    <2>9. QED BY <2>6, <2>7, <2>8 DEF Alike
<1>4. QED BY <1>1, <1>2, <1>3

(* A removal of the same port.                                             *)
LEMMA DelistAlike ==
    ASSUME NEW R, NEW t \in Steady(R), NEW s \in Steady(R), NEW K, Alike(t, s, K), NEW x
    PROVE  Alike(Delist(t, x), Delist(s, x), K)
<1>1. /\ t \in Seq(EntriesOf(R)) /\ Sound(t) /\ AtMostOneActive(t) /\ DistinctPorts(t)
      /\ s \in Seq(EntriesOf(R)) /\ Sound(s) /\ AtMostOneActive(s) /\ DistinctPorts(s)
    BY DEF Steady, Sound
<1>2. PortsOf(Delist(t, x)) = PortsOf(t) \ {x} /\ PortsOf(Delist(s, x)) = PortsOf(s) \ {x}
    BY <1>1, DelistFacts
<1>3. /\ \A p, q : Precedes(Delist(t, x), p, q) <=> p # x /\ q # x /\ Precedes(t, p, q)
      /\ \A p, q : Precedes(Delist(s, x), p, q) <=> p # x /\ q # x /\ Precedes(s, p, q)
    BY <1>1, DelistView
<1>4. ASSUME NEW p \in K
      PROVE  Current(Delist(t, x), K, p) <=> Current(Delist(s, x), K, p)
    <2> DEFINE live == K \cap PortsOf(t)
    <2>1. live = K \cap PortsOf(s)
        BY DEF Alike
    <2>2. Current(Delist(t, x), K, p) <=>
             p # x /\ (Current(t, K, p) \/ (Current(t, K, x) /\ First(t, live \ {x}, p)))
        BY <1>1, DelistCurrent
    <2>3. Current(Delist(s, x), K, p) <=>
             p # x /\ (Current(s, K, p) \/ (Current(s, K, x) /\ First(s, live \ {x}, p)))
        BY <1>1, <2>1, DelistCurrent
    <2>4. First(t, live \ {x}, p) <=> First(s, live \ {x}, p)
        BY AlikeFirst
    <2>5. Current(t, K, x) <=> Current(s, K, x)
        <3>1. x \notin K => ~Current(t, K, x) /\ ~Current(s, K, x)
            BY DEF Current
        <3>2. QED BY <3>1 DEF Alike
    <2>6. Current(t, K, p) <=> Current(s, K, p)
        BY DEF Alike
    <2>7. QED BY <2>2, <2>3, <2>4, <2>5, <2>6
<1>5. K \cap PortsOf(Delist(t, x)) = K \cap PortsOf(Delist(s, x))
    BY <1>2 DEF Alike
<1>6. \A p, q \in K : Precedes(Delist(t, x), p, q) <=> Precedes(Delist(s, x), p, q)
    BY <1>3 DEF Alike
<1>7. QED BY <1>4, <1>5, <1>6 DEF Alike

(* A removal of one whose process has ended, which is not noticed.         *)
LEMMA DelistUnseen ==
    ASSUME NEW R, NEW t \in Steady(R), NEW K, NEW x, x \notin K
    PROVE  Alike(Delist(t, x), t, K)
<1>1. t \in Seq(EntriesOf(R)) /\ Sound(t) /\ AtMostOneActive(t) /\ DistinctPorts(t)
    BY DEF Steady, Sound
<1>2. PortsOf(Delist(t, x)) = PortsOf(t) \ {x}
    BY <1>1, DelistFacts
<1>3. \A p, q \in K : Precedes(Delist(t, x), p, q) <=> Precedes(t, p, q)
    BY <1>1, DelistView
<1>4. ASSUME NEW p \in K PROVE Current(Delist(t, x), K, p) <=> Current(t, K, p)
    <2>1. ~Current(t, K, x)
        BY DEF Current
    <2>2. QED BY <1>1, <2>1, DelistCurrent
<1>5. QED BY <1>2, <1>3, <1>4 DEF Alike

OnePortEach(R) == \A r, q \in R : r.port = q.port => r = q

(* When no two requests share a port, entries of one port are of one       *)
(* request, and equal when their flags are.                                *)
LEMMA SamePortSameEntry ==
    ASSUME NEW R, OnePortEach(R), NEW e \in EntriesOf(R), NEW f \in EntriesOf(R),
           e.port = f.port
    PROVE  e.label = f.label /\ e.pid = f.pid /\ (e.active = f.active => e = f)
<1>1. PICK r \in R, a \in BOOLEAN : e = EntryOf(r, a)
    BY DEF EntriesOf
<1>2. PICK q \in R, b \in BOOLEAN : f = EntryOf(q, b)
    BY DEF EntriesOf
<1>3. /\ e.port = r.port /\ e.label = r.label /\ e.pid = r.pid /\ e.active = a
      /\ f.port = q.port /\ f.label = q.label /\ f.pid = q.pid /\ f.active = b
    BY <1>1, <1>2 DEF EntryOf
<1>4. r = q
    BY <1>3 DEF OnePortEach
<1>5. QED BY <1>1, <1>2, <1>3, <1>4

(* A switch to the same backend.                                           *)
LEMMA ActivateAlike ==
    ASSUME NEW R, OneLabelEach(R), OnePortEach(R), NEW t \in Steady(R), NEW s \in Steady(R),
           NEW K, Alike(t, s, K), PortsOf(t) \subseteq PortsOf(s),
           NEW b \in LabelsOf(t)
    PROVE  Alike(Activate(t, b), Activate(s, b), K)
<1>1. /\ t \in Seq(EntriesOf(R)) /\ Sound(t) /\ AtMostOneActive(t) /\ DistinctPorts(t)
      /\ s \in Seq(EntriesOf(R)) /\ Sound(s) /\ AtMostOneActive(s) /\ DistinctPorts(s)
    BY DEF Steady, Sound
<1>2. PICK k \in DOMAIN t : t[k].label = b
    BY DEF LabelsOf
<1>3. PICK m \in DOMAIN s : s[m].port = t[k].port
    BY DEF PortsOf
<1>4. s[m].label = b
    <2>1. t[k] \in EntriesOf(R) /\ s[m] \in EntriesOf(R)
        BY <1>1, LenProperties, ElementOfSeq
    <2>2. QED BY <1>2, <1>3, <2>1, SamePortSameEntry
<1>5. PortsOf(Activate(t, b)) = PortsOf(t) /\ PortsOf(Activate(s, b)) = PortsOf(s)
    BY <1>1, ActivateFacts
<1>6. /\ \A p, q : Precedes(Activate(t, b), p, q) <=> Precedes(t, p, q)
      /\ \A p, q : Precedes(Activate(s, b), p, q) <=> Precedes(s, p, q)
    BY <1>1, <1>2, <1>4, ActivateView
<1>7. ASSUME NEW p \in K
      PROVE  Current(Activate(t, b), K, p) <=> Current(Activate(s, b), K, p)
    <2> DEFINE x == t[k].port
               live == K \cap PortsOf(t)
    <2>1. live = K \cap PortsOf(s)
        BY DEF Alike
    <2>2. Current(Activate(t, b), K, p) <=> IF x \in K THEN p = x ELSE First(t, live, p)
        BY <1>1, <1>2, ActivateCurrent
    <2>3. Current(Activate(s, b), K, p) <=> IF x \in K THEN p = x ELSE First(s, live, p)
        BY <1>1, <1>3, <1>4, <2>1, ActivateCurrent
    <2>4. First(t, live, p) <=> First(s, live, p)
        BY AlikeFirst
    <2>5. QED BY <2>2, <2>3, <2>4
<1>8. QED BY <1>5, <1>6, <1>7 DEF Alike

(* More processes end.                                                     *)
LEMMA FewerAlike ==
    ASSUME NEW R, NEW t \in Steady(R), NEW s \in Steady(R), NEW K, Alike(t, s, K),
           NEW J \in SUBSET K
    PROVE  Alike(t, s, J)
<1>1. /\ t \in Seq(EntriesOf(R)) /\ Sound(t) /\ AtMostOneActive(t)
      /\ s \in Seq(EntriesOf(R)) /\ Sound(s) /\ AtMostOneActive(s)
    BY DEF Steady
<1>2. J \cap PortsOf(t) = J \cap PortsOf(s)
    BY DEF Alike
<1>3. \A p, q \in J : Precedes(t, p, q) <=> Precedes(s, p, q)
    BY DEF Alike
<1>4. ASSUME NEW p \in J
      PROVE  Current(t, J, p) <=> Current(s, J, p)
    <2> DEFINE live == J \cap PortsOf(t)
    <2>1. live = J \cap PortsOf(s)
        BY <1>2
    <2>2. \A q \in J : Current(t, K, q) <=> Current(s, K, q)
        BY DEF Alike
    <2>3. First(t, live, p) <=> First(s, live, p)
        BY AlikeFirst
    <2>4. Current(t, J, p) <=>
             Current(t, K, p) \/ ((\A q \in J : ~Current(t, K, q)) /\ First(t, live, p))
        BY <1>1, FewerCurrent
    <2>5. Current(s, J, p) <=>
             Current(s, K, p) \/ ((\A q \in J : ~Current(s, K, q)) /\ First(s, live, p))
        BY <1>1, <2>1, FewerCurrent
    <2>6. QED BY <2>2, <2>3, <2>4, <2>5
<1>5. QED BY <1>2, <1>3, <1>4 DEF Alike

(* The state drops the dead.                                               *)
LEMMA DropDeadAlike ==
    ASSUME NEW R, NEW t, NEW s \in Steady(R), NEW noPid, NEW alive, NEW K, Alike(t, s, K),
           \A i \in DOMAIN s : Keeps(s[i], noPid, alive) <=> s[i].port \in K
    PROVE  /\ Alike(t, DropDead(s, noPid, alive), K)
           /\ PortsOf(DropDead(s, noPid, alive)) = K \cap PortsOf(s)
<1>1. s \in Seq(EntriesOf(R)) /\ Sound(s)
    BY DEF Steady
<1>2. /\ PortsOf(DropDead(s, noPid, alive)) = K \cap PortsOf(s)
      /\ \A p, q \in K : Precedes(DropDead(s, noPid, alive), p, q) <=> Precedes(s, p, q)
      /\ \A p : Current(DropDead(s, noPid, alive), K, p) <=> Current(s, K, p)
    BY <1>1, DropDeadCurrent
<1>3. QED BY <1>2 DEF Alike

(* Tables with the same ports in the same order have the same port at each *)
(* index, and the second is no shorter.                                    *)
LEMMA SameOrder ==
    ASSUME NEW R, NEW t \in Seq(EntriesOf(R)), NEW s \in Seq(EntriesOf(R)),
           DistinctPorts(t), DistinctPorts(s), PortsOf(t) = PortsOf(s),
           \A p, q : Precedes(t, p, q) <=> Precedes(s, p, q)
    PROVE  Len(t) <= Len(s) /\ \A i \in DOMAIN t : t[i].port = s[i].port
<1> DEFINE N == Len(t)
           M == Len(s)
           S == {n \in 0..N : n <= M /\ \A i \in 1..n : t[i].port = s[i].port}
<1>1. N \in Nat /\ DOMAIN t = 1..N /\ M \in Nat /\ DOMAIN s = 1..M
    BY LenProperties
<1>2. /\ \A i, j \in 1..N : t[i].port = t[j].port => i = j
      /\ \A i, j \in 1..M : s[i].port = s[j].port => i = j
    BY <1>1 DEF DistinctPorts
<1> HIDE DEF N, M
<1>3. 0 \in S
    BY <1>1
<1>4. ASSUME NEW n \in 0..N, n + 1 \in 0..N, n \in S
      PROVE  n + 1 \in S
    <2>1. n \in Nat /\ n + 1 \in 1..N /\ n <= M /\ \A i \in 1..n : t[i].port = s[i].port
        BY <1>1, <1>4
    <2>2. PICK j \in 1..M : s[j].port = t[n + 1].port
        BY <1>1, <2>1 DEF PortsOf
    <2>3. j \notin 1..n
        BY <1>1, <1>2, <2>1, <2>2
    <2>4. n + 1 \in 1..M /\ n + 1 <= j
        BY <1>1, <2>1, <2>2, <2>3
    <2>5. ASSUME j # n + 1 PROVE FALSE
        <3>1. n + 1 < j
            BY <1>1, <2>1, <2>4, <2>5
        <3>2. Precedes(s, s[n + 1].port, s[j].port)
            BY <1>1, <2>4, <3>1 DEF Precedes
        <3>3. Precedes(t, s[n + 1].port, t[n + 1].port)
            BY <2>2, <3>2
        <3>4. PICK a \in 1..N, b \in 1..N :
                 a < b /\ t[a].port = s[n + 1].port /\ t[b].port = t[n + 1].port
            BY <1>1, <3>3 DEF Precedes
        <3>5. b = n + 1
            BY <1>2, <2>1, <3>4
        <3>6. a \in 1..n
            BY <1>1, <2>1, <3>4, <3>5
        <3>7. s[a].port = s[n + 1].port /\ a \in 1..M /\ a # n + 1
            BY <1>1, <2>1, <3>4, <3>6
        <3>8. QED BY <1>2, <2>4, <3>7
    <2>6. t[n + 1].port = s[n + 1].port /\ n + 1 <= M
        BY <1>1, <2>2, <2>4, <2>5
    <2>7. \A i \in 1..(n + 1) : i \in 1..n \/ i = n + 1
        BY <2>1
    <2>8. QED BY <1>4, <2>1, <2>6, <2>7
<1>5. N \in S
    <2> HIDE DEF S
    <2>1. \A n \in 0..N : n + 1 \in 0..N /\ n \in S => n + 1 \in S
        BY <1>4
    <2>2. \A n \in 0..N : n \in S
        BY <1>1, <1>3, <2>1, UpTo
    <2>3. QED BY <1>1, <2>2
<1>6. QED BY <1>1, <1>5 DEF N, M

(* When no two requests share a port, a table is its ports, their order    *)
(* and which are active.                                                   *)
LEMMA SameTable ==
    ASSUME NEW R, OnePortEach(R), NEW t \in Seq(EntriesOf(R)), NEW s \in Seq(EntriesOf(R)),
           DistinctPorts(t), DistinctPorts(s), PortsOf(t) = PortsOf(s),
           \A p, q : Precedes(t, p, q) <=> Precedes(s, p, q),
           \A p : IsActive(t, p) <=> IsActive(s, p)
    PROVE  t = s
<1>1. \A i \in DOMAIN t : t[i].port = s[i].port
    BY SameOrder
<1>2. /\ Len(t) \in Nat /\ Len(s) \in Nat
      /\ DOMAIN t = 1..Len(t) /\ DOMAIN s = 1..Len(s)
    BY LenProperties
<1>3. Len(t) = Len(s) /\ DOMAIN t = DOMAIN s
    <2>1. Len(t) <= Len(s) /\ Len(s) <= Len(t)
        BY SameOrder
    <2>2. \A n, m \in Nat : n <= m /\ m <= n => n = m
        OBVIOUS
    <2>3. Len(t) = Len(s)
        BY <1>2, <2>1, <2>2, Zenon
    <2>4. QED BY <1>2, <2>3
<1>4. ASSUME NEW i \in DOMAIN t PROVE t[i] = s[i]
    <2>1. t[i] \in EntriesOf(R) /\ s[i] \in EntriesOf(R)
        BY <1>2, <1>3, ElementOfSeq
    <2>2. t[i].port = s[i].port
        BY <1>1
    <2>3. t[i].active \in BOOLEAN /\ s[i].active \in BOOLEAN
        BY <2>1, EntryFlag
    <2>4. t[i].active <=> IsActive(t, t[i].port)
        BY DEF IsActive, DistinctPorts
    <2>5. s[i].active <=> IsActive(s, s[i].port)
        BY <1>3 DEF IsActive, DistinctPorts
    <2>6. t[i].active = s[i].active
        BY <2>2, <2>3, <2>4, <2>5
    <2>7. QED BY <2>1, <2>2, <2>6, SamePortSameEntry
<1>5. QED BY <1>2, <1>3, <1>4, SeqEqual

(* Alike tables in which no process has ended are equal.                   *)
LEMMA AlikeEqual ==
    ASSUME NEW R, OnePortEach(R), NEW t \in Steady(R), NEW s \in Steady(R),
           NEW K, Alike(t, s, K), PortsOf(t) \subseteq K, PortsOf(s) \subseteq K
    PROVE  t = s
<1>1. /\ t \in Seq(EntriesOf(R)) /\ DistinctPorts(t)
      /\ s \in Seq(EntriesOf(R)) /\ DistinctPorts(s)
    BY DEF Steady, Sound
<1>2. PortsOf(t) = PortsOf(s)
    BY DEF Alike
<1>3. \A p, q : Precedes(t, p, q) <=> Precedes(s, p, q)
    <2>1. \A p, q : Precedes(t, p, q) => p \in K /\ q \in K
        BY <1>1, OrderFacts
    <2>2. \A p, q : Precedes(s, p, q) => p \in K /\ q \in K
        BY <1>1, OrderFacts
    <2>3. QED BY <2>1, <2>2 DEF Alike
<1>4. ASSUME NEW u \in Steady(R), PortsOf(u) \subseteq K, NEW p
      PROVE  IsActive(u, p) <=> Current(u, K, p)
    <2>1. u # << >> => \E q \in PortsOf(u) : IsActive(u, q)
        BY DEF Steady, Sound, SomeActive, ActiveAt, IsActive, PortsOf
    <2>2. PortsOf(u) # {} => u # << >>
        BY DEF PortsOf
    <2>3. IsActive(u, p) => p \in PortsOf(u)
        BY DEF IsActive, PortsOf
    <2>4. K \cap PortsOf(u) = PortsOf(u)
        BY <1>4
    <2>5. QED BY <2>1, <2>2, <2>3, <2>4 DEF Current
<1>5. \A p : IsActive(t, p) <=> IsActive(s, p)
    <2>1. \A p : IsActive(t, p) => p \in K
        BY DEF IsActive, PortsOf
    <2>2. \A p : IsActive(s, p) => p \in K
        BY DEF IsActive, PortsOf
    <2>3. QED BY <1>4, <2>1, <2>2 DEF Alike
<1>6. QED BY <1>1, <1>2, <1>3, <1>5, SameTable
=============================================================================
