----------------------------- MODULE XmlTreeProofs -----------------------------
(***************************************************************************)
(* For all sources, fragments and counters: the nodes of an XML tree are   *)
(* those of its source under ids of their own, and across an edit a node   *)
(* keeps its id, its parent, its depth and its children's order.  And none *)
(* of the editor's edits of elements is refused but for the counters: it   *)
(* leaves a source that parses, in which every node is found again.        *)
(***************************************************************************)
EXTENDS XmlTree, MarkupProofs

(* a begins inside b. *)
Inside(a, b) == b.rawBegin < a.rawBegin /\ a.rawBegin < b.rawEnd

Disjoint(a, b) == a.rawEnd <= b.rawBegin \/ b.rawEnd <= a.rawBegin

(* The elements of a source, in the order of their beginnings: ranges that *)
(* begin at its opening tags and lie apart or one in the other's value.    *)
ElementsOf(source, elements) ==
  /\ Len(elements) \in Nat
  /\ DOMAIN elements = 1..Len(elements)
  /\ \A n \in 1..Len(elements) :
       /\ elements[n].rawBegin \in Nat /\ elements[n].rawEnd \in Nat
       /\ elements[n].rawBegin < elements[n].rawEnd
       /\ elements[n].rawEnd <= Len(source)
       /\ elements[n].valueBegin = elements[n].rawBegin + 1
       /\ elements[n].valueEnd = IF elements[n].selfClosing THEN elements[n].rawEnd
                                 ELSE elements[n].rawEnd - 1
       /\ elements[n].selfClosing <=> elements[n].rawEnd = elements[n].rawBegin + 1
       /\ elements[n].rawBegin + 1 \in Starts(source)
       /\ elements[n].name = source[elements[n].rawBegin + 1].tag
  /\ \A i \in Starts(source) :
       \E n \in 1..Len(elements) : elements[n].rawBegin + 1 = i
  /\ \A m, n \in 1..Len(elements) :
       m < n <=> elements[m].rawBegin < elements[n].rawBegin
  /\ \A m, n \in 1..Len(elements) :
       \/ m = n \/ Disjoint(elements[m], elements[n])
       \/ Within(elements[m], elements[n]) \/ Within(elements[n], elements[m])

(* The ranges of a body that parses. *)
LEMMA RangesOfBody ==
  ASSUME NEW body, Len(body) \in Nat,
         \/ containsOnlyXmlMisc(body)
         \/ TagsPair(body) /\ validateNodeHierarchy(rangesOf(body))
  PROVE  ElementsOf(body, rangesOf(body))
<1> DEFINE S == Starts(body)
           N == Cardinality(S)
           ranges == rangesOf(body)
<1>1. S \subseteq 1..Len(body)
  BY DEF Starts, Positions
<1>2. /\ N \in Nat
      /\ \A n \in 1..N : startOf(body, n) \in S
      /\ \A i \in S : \E n \in 1..N : startOf(body, n) = i
      /\ \A m, n \in 1..N : m < n <=> startOf(body, m) < startOf(body, n)
  <2> HIDE DEF S
  <2>1. N \in Nat
    BY <1>1, EveryRankIsTaken
  <2>2. /\ \A n \in 1..N : nth(S, n) \in S
        /\ \A i \in S : \E n \in 1..N : nth(S, n) = i
        /\ \A m, n \in 1..N : m < n <=> nth(S, m) < nth(S, n)
    BY <1>1, NthCounts
  <2> QED BY <2>1, <2>2 DEF startOf, S
<1>3. ASSUME S # {}
      PROVE  TagsPair(body) /\ validateNodeHierarchy(ranges)
  <2>1. PICK i \in 1..Len(body) : body[i].kind \in {"open", "void"}
    BY <1>3 DEF Starts, Positions
  <2>2. ~containsOnlyXmlMisc(body)
    BY <2>1 DEF containsOnlyXmlMisc, Misc
  <2> QED BY <2>2
<1>4. /\ ranges = [n \in 1..N |-> ranges[n]]
      /\ DOMAIN ranges = 1..N /\ Len(ranges) = N
  <2>1. ranges = [n \in 1..N |-> ranges[n]]
    BY DEF rangesOf
  <2>2. DOMAIN ranges = 1..N
    BY <2>1
  <2> HIDE DEF ranges, N
  <2> QED BY <1>2, <2>1, <2>2
<1>5. ASSUME NEW n \in 1..N
      PROVE  LET s == startOf(body, n)
                 e == endOf(body, s)
             IN /\ s \in S /\ s \in 1..Len(body) /\ e \in s..Len(body)
                /\ e = s <=> body[s].kind = "void"
                /\ ranges[n] = [name |-> body[s].tag, selfClosing |-> body[s].kind = "void",
                                rawBegin |-> s - 1, valueBegin |-> s,
                                valueEnd |-> IF e = s THEN s ELSE e - 1, rawEnd |-> e]
  <2>1. startOf(body, n) \in S
    BY <1>2
  <2>2. TagsPair(body)
    BY <1>3, <2>1
  <2> QED BY <1>1, <2>1, <2>2, EndsWithinSource DEF rangesOf
<1> HIDE DEF ranges, N, S
<1>6. ASSUME NEW n \in 1..N
      PROVE  /\ ranges[n].rawBegin \in Nat /\ ranges[n].rawEnd \in Nat
             /\ ranges[n].rawBegin < ranges[n].rawEnd
             /\ ranges[n].rawEnd <= Len(body)
             /\ ranges[n].valueBegin = ranges[n].rawBegin + 1
             /\ ranges[n].valueEnd = IF ranges[n].selfClosing THEN ranges[n].rawEnd
                                     ELSE ranges[n].rawEnd - 1
             /\ ranges[n].selfClosing <=> ranges[n].rawEnd = ranges[n].rawBegin + 1
             /\ ranges[n].rawBegin + 1 \in S
             /\ ranges[n].name = body[ranges[n].rawBegin + 1].tag
             /\ ranges[n].rawBegin = startOf(body, n) - 1
             /\ startOf(body, n) \in Nat
  <2> DEFINE s == startOf(body, n)
             e == endOf(body, s)
             void == body[s].kind = "void"
  <2>1. /\ s \in S /\ s \in 1..Len(body) /\ e \in s..Len(body) /\ (e = s <=> void)
        /\ ranges[n] = [name |-> body[s].tag, selfClosing |-> void,
                        rawBegin |-> s - 1, valueBegin |-> s,
                        valueEnd |-> IF e = s THEN s ELSE e - 1, rawEnd |-> e]
    BY <1>5
  <2> HIDE DEF s, e, void
  <2>2. /\ ranges[n].selfClosing = void /\ ranges[n].rawBegin = s - 1
        /\ ranges[n].valueBegin = s /\ ranges[n].rawEnd = e
        /\ ranges[n].valueEnd = IF e = s THEN s ELSE e - 1
        /\ ranges[n].name = body[s].tag
    BY <2>1
  <2>3. s \in Nat /\ e \in Nat /\ s - 1 \in Nat /\ s - 1 < e /\ e <= Len(body)
        /\ s = (s - 1) + 1
    BY <2>1
  <2>4. ranges[n].selfClosing <=> ranges[n].rawEnd = ranges[n].rawBegin + 1
    BY <2>1, <2>2, <2>3
  <2>5. ranges[n].valueEnd = IF ranges[n].selfClosing THEN ranges[n].rawEnd
                             ELSE ranges[n].rawEnd - 1
    BY <2>1, <2>2
  <2>6. ranges[n].rawBegin + 1 \in S
    BY <2>1, <2>2, <2>3
  <2>7. /\ ranges[n].rawBegin \in Nat /\ ranges[n].rawEnd \in Nat
        /\ ranges[n].rawBegin < ranges[n].rawEnd /\ ranges[n].rawEnd <= Len(body)
        /\ ranges[n].valueBegin = ranges[n].rawBegin + 1
    BY <2>2, <2>3
  <2> QED BY <2>2, <2>3, <2>4, <2>5, <2>6, <2>7 DEF s
<1>7. ASSUME NEW i \in S
      PROVE  \E n \in 1..N : ranges[n].rawBegin + 1 = i
  <2>1. PICK n \in 1..N : startOf(body, n) = i
    BY <1>2
  <2>2. i \in Nat
    BY <1>1
  <2>3. ranges[n].rawBegin = i - 1
    BY <1>6, <2>1
  <2> QED BY <2>2, <2>3
<1>8. ASSUME NEW m \in 1..N, NEW n \in 1..N
      PROVE  m < n <=> ranges[m].rawBegin < ranges[n].rawBegin
  BY <1>2, <1>6
<1>9. ASSUME NEW m \in 1..N, NEW n \in 1..N
      PROVE  \/ m = n \/ Disjoint(ranges[m], ranges[n])
             \/ Within(ranges[m], ranges[n]) \/ Within(ranges[n], ranges[m])
  <2>1. S # {}
    BY <1>6
  <2>2. validateNodeHierarchy(ranges)
    BY <1>3, <2>1
  <2>3. ranges[m] \in Range(ranges) /\ ranges[n] \in Range(ranges)
    BY <1>4 DEF Range
  <2>4. ASSUME ranges[m] = ranges[n]
        PROVE  m = n
    <3>1. m \in Nat /\ n \in Nat /\ ranges[n].rawBegin \in Nat
      BY <1>2, <1>6
    <3> QED BY <1>8, <2>4, <3>1
  <2> QED BY <2>2, <2>3, <2>4 DEF validateNodeHierarchy, Disjoint
<1> QED BY <1>2, <1>4, <1>6, <1>7, <1>8, <1>9 DEF ElementsOf, ranges, S

(* Of two elements one begins inside the other just when it lies in its    *)
(* value.                                                                  *)
LEMMA InsideIsWithin ==
  ASSUME NEW source, NEW elements, ElementsOf(source, elements),
         NEW m \in 1..Len(elements), NEW n \in 1..Len(elements)
  PROVE  Within(elements[n], elements[m]) <=> Inside(elements[n], elements[m])
<1> DEFINE a == elements[n]
           b == elements[m]
<1>1. /\ a.rawBegin \in Nat /\ a.rawEnd \in Nat /\ a.rawBegin < a.rawEnd
      /\ b.rawBegin \in Nat /\ b.rawEnd \in Nat /\ b.rawBegin < b.rawEnd
      /\ a.valueBegin = a.rawBegin + 1 /\ b.valueBegin = b.rawBegin + 1
      /\ b.valueEnd \in {b.rawEnd, b.rawEnd - 1}
      /\ a.valueEnd \in {a.rawEnd, a.rawEnd - 1}
  BY DEF ElementsOf
<1>2. a = b \/ Disjoint(a, b) \/ Within(a, b) \/ Within(b, a)
  BY DEF ElementsOf, Disjoint
<1> HIDE DEF a, b
<1>3. Within(a, b) => Inside(a, b)
  BY <1>1 DEF Within, Inside
<1>4. Inside(a, b) => ~Disjoint(a, b) /\ a # b /\ ~Within(b, a)
  BY <1>1 DEF Within, Inside, Disjoint
<1> QED BY <1>2, <1>3, <1>4 DEF a, b

(* The prolog holds no element. *)
LEMMA PrologAndBody ==
  ASSUME NEW T, NEW xml \in Seq(T)
  PROVE  LET k == Len(prologOf(xml))
             body == SubSeq(xml, k + 1, Len(xml))
         IN /\ k \in 0..Len(xml)
            /\ Len(body) = Len(xml) - k
            /\ \A i \in 1..Len(body) : body[i] = xml[k + i]
            /\ \A i \in Starts(xml) : i - k \in Starts(body)
            /\ \A i \in Starts(body) : k + i \in Starts(xml)
<1> DEFINE k == Len(prologOf(xml))
           body == SubSeq(xml, k + 1, Len(xml))
           endsProlog(n) ==
             n = Len(xml) \/ xml[n + 1].kind \notin Misc \cup {"declaration", "doctype"}
           E == {n \in 0..Len(xml) : endsProlog(n)}
<1>1. Len(xml) \in Nat /\ \A i \in 1..Len(xml) : xml[i] \in T
  OBVIOUS
<1>2. Min(E) \in E /\ \A n \in E : Min(E) <= n
  <2>1. E \subseteq 0..Len(xml) /\ Len(xml) \in E
    BY <1>1
  <2> HIDE DEF E
  <2> QED BY <1>1, <2>1, MinBounded
<1>3. k = Min(E)
  <2>1. prologOf(xml) = SubSeq(xml, 1, Min(E))
    BY DEF prologOf
  <2>2. Min(E) \in 0..Len(xml)
    BY <1>2
  <2> HIDE DEF E
  <2>3. \A i \in 1..Min(E) : xml[i] \in T
    BY <1>1, <2>2
  <2>4. Len(SubSeq(xml, 1, Min(E))) = IF 1 <= Min(E) THEN Min(E) - 1 + 1 ELSE 0
    BY <1>1, <2>2, <2>3, SubSeqProperties
  <2> QED BY <1>1, <2>1, <2>2, <2>4
<1>4. k \in 0..Len(xml)
  BY <1>2, <1>3
<1>5. ASSUME NEW i \in 1..k
      PROVE  i \notin Starts(xml)
  <2>1. i - 1 \in 0..Len(xml) /\ i - 1 < k /\ (i - 1) + 1 = i /\ i - 1 # Len(xml)
    BY <1>1, <1>4
  <2>2. i - 1 \notin E
    BY <1>2, <1>3, <2>1
  <2>3. xml[i].kind \in Misc \cup {"declaration", "doctype"}
    BY <2>1, <2>2
  <2> QED BY <2>3 DEF Misc, Starts, Positions
<1> HIDE DEF k, E
<1>6. /\ Len(body) = Len(xml) - k
      /\ \A i \in 1..Len(xml) - k : body[i] = xml[k + i]
  <2>1. k + 1 \in Int /\ Len(xml) \in Int /\ \A i \in k + 1..Len(xml) : xml[i] \in T
    BY <1>1, <1>4
  <2>2. /\ Len(body) = IF k + 1 <= Len(xml) THEN Len(xml) - (k + 1) + 1 ELSE 0
        /\ \A i \in 1..Len(xml) - (k + 1) + 1 : body[i] = xml[(k + 1) + i - 1]
    BY <2>1, SubSeqProperties
  <2>3. Len(xml) - (k + 1) + 1 = Len(xml) - k
    BY <1>1, <1>4
  <2>4. \A i \in 1..Len(xml) - k : (k + 1) + i - 1 = k + i
    BY <1>1, <1>4
  <2>5. (IF k + 1 <= Len(xml) THEN Len(xml) - (k + 1) + 1 ELSE 0) = Len(xml) - k
    BY <1>1, <1>4
  <2> HIDE DEF body
  <2> QED BY <2>2, <2>3, <2>4, <2>5
<1> HIDE DEF body
<1>7. ASSUME NEW i \in Starts(xml)
      PROVE  i - k \in Starts(body)
  <2>1. i \in 1..Len(xml) /\ xml[i].kind \in {"open", "void"}
    BY DEF Starts, Positions
  <2>2. i - k \in 1..Len(xml) - k /\ k + (i - k) = i
    BY <1>1, <1>4, <1>5, <2>1
  <2>3. body[i - k] = xml[i]
    BY <1>6, <2>2
  <2> QED BY <1>6, <2>1, <2>2, <2>3 DEF Starts, Positions
<1>8. ASSUME NEW i \in Starts(body)
      PROVE  k + i \in Starts(xml)
  <2>1. i \in 1..Len(xml) - k /\ body[i].kind \in {"open", "void"}
    BY <1>6 DEF Starts, Positions
  <2>2. k + i \in 1..Len(xml)
    BY <1>1, <1>4, <2>1
  <2>3. xml[k + i].kind \in {"open", "void"}
    BY <1>6, <2>1
  <2> QED BY <2>2, <2>3 DEF Starts, Positions
<1> QED BY <1>4, <1>6, <1>7, <1>8 DEF k, body

(* The nodes that a node lies in, and those whose parent it is. *)
Above(nodes, n) == {m \in 1..Len(nodes) : Inside(nodes[n], nodes[m])}
Below(nodes, n) == {m \in 1..Len(nodes) : n \in nodes[m].parentId}

(* A node as the parser makes it: its parent is the innermost node around  *)
(* it, and its children are those that it is the parent of, in order.      *)
PlacedIn(nodes, n) ==
  /\ nodes[n] = [id |-> n, name |-> nodes[n].name, parentId |-> nodes[n].parentId,
                 depth |-> nodes[n].depth, childIds |-> nodes[n].childIds,
                 selfClosing |-> nodes[n].selfClosing, rawBegin |-> nodes[n].rawBegin,
                 valueBegin |-> nodes[n].valueBegin, valueEnd |-> nodes[n].valueEnd,
                 rawEnd |-> nodes[n].rawEnd]
  /\ nodes[n].parentId = IF Above(nodes, n) = {} THEN {} ELSE {Max(Above(nodes, n))}
  /\ nodes[n].depth = Cardinality(Above(nodes, n))
  /\ nodes[n].childIds = [k \in 1..Cardinality(Below(nodes, n)) |-> nth(Below(nodes, n), k)]

(* parseNodes makes elements, each placed by the ranges of the others.     *)
LEMMA ParsedNodes ==
  ASSUME NEW T, NEW xml \in Seq(T), Parses(xml, TRUE)
  PROVE  LET parsed == parseNodes(xml)
         IN /\ ElementsOf(xml, parsed)
            /\ parsed = [n \in 1..Len(parsed) |-> parsed[n]]
            /\ \A n \in 1..Len(parsed) : PlacedIn(parsed, n)
<1> DEFINE k == Len(prologOf(xml))
           body == SubSeq(xml, k + 1, Len(xml))
           ranges == rangesOf(body)
           N == Len(ranges)
           parsed == parseNodes(xml)
<1>1. Len(xml) \in Nat
  OBVIOUS
<1>2. /\ k \in 0..Len(xml) /\ Len(body) = Len(xml) - k
      /\ \A i \in Starts(xml) : i - k \in Starts(body)
      /\ \A i \in Starts(body) : k + i \in Starts(xml)
  BY PrologAndBody
<1>3. ElementsOf(body, ranges)
  <2>1. containsOnlyXmlMisc(body) \/ (TagsPair(body) /\ validateNodeHierarchy(ranges))
    BY DEF Parses
  <2>2. Len(body) \in Nat
    BY <1>1, <1>2
  <2> HIDE DEF body
  <2> QED BY <2>1, <2>2, RangesOfBody
<1>4. N \in Nat
  BY <1>3 DEF ElementsOf
<1> DEFINE over(n) == {m \in 1..n - 1 : Within(ranges[n], ranges[m])}
           parent(n) == IF over(n) = {} THEN {} ELSE {Max(over(n))}
           under(n) == {m \in 1..N : n \in parent(m)}
<1>5. ASSUME NEW n \in 1..N
      PROVE  parsed[n] =
               [id |-> n, name |-> ranges[n].name, parentId |-> parent(n),
                depth |-> Cardinality(over(n)),
                childIds |-> [i \in 1..Cardinality(under(n)) |-> nth(under(n), i)],
                selfClosing |-> ranges[n].selfClosing,
                rawBegin |-> k + ranges[n].rawBegin,
                valueBegin |-> k + ranges[n].valueBegin,
                valueEnd |-> k + ranges[n].valueEnd, rawEnd |-> k + ranges[n].rawEnd]
  <2> DEFINE above == [i \in 1..N |-> {m \in 1..i - 1 : Within(ranges[i], ranges[m])}]
             above2 == [i \in 1..N |-> IF above[i] = {} THEN {} ELSE {Max(above[i])}]
  <2>1. \A i \in 1..N : above[i] = over(i)
    OBVIOUS
  <2>2. \A i \in 1..N : above2[i] = parent(i)
    BY <2>1
  <2>3. {m \in 1..N : n \in above2[m]} = under(n)
    BY <2>2
  <2>4. parsed[n] =
               [id |-> n, name |-> ranges[n].name, parentId |-> above2[n],
                depth |-> Cardinality(above[n]),
                childIds |-> [i \in 1..Cardinality({m \in 1..N : n \in above2[m]}) |->
                               nth({m \in 1..N : n \in above2[m]}, i)],
                selfClosing |-> ranges[n].selfClosing,
                rawBegin |-> k + ranges[n].rawBegin,
                valueBegin |-> k + ranges[n].valueBegin,
                valueEnd |-> k + ranges[n].valueEnd, rawEnd |-> k + ranges[n].rawEnd]
    BY DEF parseNodes
  <2> HIDE DEF parsed, over, parent, under, above, above2, ranges, N
  <2> QED BY <2>1, <2>2, <2>3, <2>4
<1>6. parsed = [n \in 1..N |-> parsed[n]] /\ Len(parsed) = N /\ DOMAIN parsed = 1..N
  <2>1. parsed = [n \in 1..N |-> parsed[n]]
    BY DEF parseNodes
  <2>2. DOMAIN parsed = 1..N
    BY <2>1
  <2> HIDE DEF parsed, N
  <2> QED BY <1>4, <2>1, <2>2
<1> HIDE DEF k, body, ranges, N, parsed, over, parent, under
<1>7. ASSUME NEW n \in 1..N
      PROVE  /\ parsed[n].rawBegin = k + ranges[n].rawBegin
             /\ parsed[n].rawEnd = k + ranges[n].rawEnd
             /\ parsed[n].valueBegin = k + ranges[n].valueBegin
             /\ parsed[n].valueEnd = k + ranges[n].valueEnd
             /\ parsed[n].selfClosing = ranges[n].selfClosing
             /\ parsed[n].name = ranges[n].name
             /\ parsed[n].parentId = parent(n)
             /\ parsed[n].depth = Cardinality(over(n))
             /\ parsed[n].childIds = [i \in 1..Cardinality(under(n)) |-> nth(under(n), i)]
             /\ parsed[n] = [id |-> n, name |-> parsed[n].name,
                 parentId |-> parsed[n].parentId,
                 depth |-> parsed[n].depth, childIds |-> parsed[n].childIds,
                 selfClosing |-> parsed[n].selfClosing, rawBegin |-> parsed[n].rawBegin,
                 valueBegin |-> parsed[n].valueBegin, valueEnd |-> parsed[n].valueEnd,
                 rawEnd |-> parsed[n].rawEnd]
  <2> DEFINE p == parsed[n]
             childIds == [i \in 1..Cardinality(under(n)) |-> nth(under(n), i)]
             depth == Cardinality(over(n))
  <2>1. p = [id |-> n, name |-> ranges[n].name, parentId |-> parent(n),
             depth |-> depth, childIds |-> childIds,
             selfClosing |-> ranges[n].selfClosing,
             rawBegin |-> k + ranges[n].rawBegin,
             valueBegin |-> k + ranges[n].valueBegin,
             valueEnd |-> k + ranges[n].valueEnd, rawEnd |-> k + ranges[n].rawEnd]
    BY <1>5
  <2> HIDE DEF p, childIds, depth
  <2>2. /\ p.rawBegin = k + ranges[n].rawBegin /\ p.rawEnd = k + ranges[n].rawEnd
        /\ p.valueBegin = k + ranges[n].valueBegin /\ p.valueEnd = k + ranges[n].valueEnd
        /\ p.selfClosing = ranges[n].selfClosing /\ p.parentId = parent(n)
        /\ p.depth = depth /\ p.childIds = childIds /\ p.name = ranges[n].name
    BY <2>1
  <2>3. p = [id |-> n, name |-> p.name, parentId |-> p.parentId, depth |-> p.depth,
             childIds |-> p.childIds, selfClosing |-> p.selfClosing,
             rawBegin |-> p.rawBegin, valueBegin |-> p.valueBegin,
             valueEnd |-> p.valueEnd, rawEnd |-> p.rawEnd]
    BY <2>1, <2>2
  <2> QED BY <2>2, <2>3 DEF p, childIds, depth
<1>8. ASSUME NEW n \in 1..N
      PROVE  /\ ranges[n].rawBegin \in Nat /\ ranges[n].rawEnd \in Nat
             /\ ranges[n].rawBegin < ranges[n].rawEnd
             /\ ranges[n].rawEnd <= Len(body)
             /\ ranges[n].valueBegin = ranges[n].rawBegin + 1
             /\ ranges[n].valueEnd = IF ranges[n].selfClosing THEN ranges[n].rawEnd
                                     ELSE ranges[n].rawEnd - 1
             /\ ranges[n].selfClosing <=> ranges[n].rawEnd = ranges[n].rawBegin + 1
             /\ ranges[n].rawBegin + 1 \in Starts(body)
  BY <1>3, <1>4 DEF ElementsOf, N
<1>9. /\ k \in Nat /\ Len(body) + k = Len(xml)
      /\ \A n \in 1..N :
           /\ parsed[n].rawBegin = k + ranges[n].rawBegin
           /\ parsed[n].rawEnd = k + ranges[n].rawEnd
           /\ parsed[n].valueBegin = k + ranges[n].valueBegin
           /\ parsed[n].valueEnd = k + ranges[n].valueEnd
           /\ parsed[n].selfClosing = ranges[n].selfClosing
  <2>1. k \in Nat /\ Len(body) + k = Len(xml)
    BY <1>1, <1>2
  <2> QED BY <1>7, <2>1
<1>10. ASSUME NEW n \in 1..N
       PROVE  /\ parsed[n].rawBegin \in Nat /\ parsed[n].rawEnd \in Nat
              /\ parsed[n].rawBegin < parsed[n].rawEnd
              /\ parsed[n].rawEnd <= Len(xml)
              /\ parsed[n].valueBegin = parsed[n].rawBegin + 1
              /\ parsed[n].valueEnd = IF parsed[n].selfClosing THEN parsed[n].rawEnd
                                      ELSE parsed[n].rawEnd - 1
              /\ parsed[n].selfClosing <=> parsed[n].rawEnd = parsed[n].rawBegin + 1
              /\ parsed[n].rawBegin + 1 \in Starts(xml)
  <2> DEFINE p == parsed[n]
             g == ranges[n]
  <2>1. /\ k \in Nat /\ Len(body) + k = Len(xml)
        /\ p.rawBegin = k + g.rawBegin /\ p.rawEnd = k + g.rawEnd
        /\ p.valueBegin = k + g.valueBegin /\ p.valueEnd = k + g.valueEnd
        /\ p.selfClosing = g.selfClosing
    BY <1>9
  <2>2. /\ g.rawBegin \in Nat /\ g.rawEnd \in Nat /\ g.rawBegin < g.rawEnd
        /\ g.rawEnd <= Len(body) /\ g.valueBegin = g.rawBegin + 1
        /\ g.valueEnd = IF g.selfClosing THEN g.rawEnd ELSE g.rawEnd - 1
        /\ g.selfClosing <=> g.rawEnd = g.rawBegin + 1
        /\ k + (g.rawBegin + 1) \in Starts(xml)
    BY <1>2, <1>8
  <2>3. Len(body) \in Int
    BY <1>1, <2>1, <1>2
  <2> HIDE DEF p, g
  <2>4. /\ p.rawBegin \in Nat /\ p.rawEnd \in Nat /\ p.rawBegin < p.rawEnd
        /\ p.valueBegin = p.rawBegin + 1
        /\ k + (g.rawBegin + 1) = p.rawBegin + 1
    <3>1. p.rawBegin \in Nat /\ p.rawEnd \in Nat
      BY <2>1, <2>2, SMTT(30)
    <3>2. p.rawBegin < p.rawEnd
      BY <2>1, <2>2
    <3>3. p.valueBegin = p.rawBegin + 1 /\ k + (g.rawBegin + 1) = p.rawBegin + 1
      BY <2>1, <2>2
    <3> QED BY <3>1, <3>2, <3>3
  <2>5. p.rawEnd <= Len(xml)
    BY <2>1, <2>2, <2>3
  <2>6. p.valueEnd = IF p.selfClosing THEN p.rawEnd ELSE p.rawEnd - 1
    BY <2>1, <2>2
  <2>7. p.selfClosing <=> p.rawEnd = p.rawBegin + 1
    <3>1. g.rawEnd = g.rawBegin + 1 <=> p.rawEnd = p.rawBegin + 1
      BY <2>1, <2>2, SMTT(30)
    <3> QED BY <2>1, <2>2, <3>1
  <2> QED BY <2>2, <2>4, <2>5, <2>6, <2>7 DEF p
<1>11. ASSUME NEW i \in Starts(xml)
       PROVE  \E n \in 1..N : parsed[n].rawBegin + 1 = i
  <2>1. i - k \in Starts(body)
    BY <1>2
  <2>2. PICK n \in 1..N : ranges[n].rawBegin + 1 = i - k
    BY <1>3, <2>1 DEF ElementsOf, N
  <2>3. i \in Nat
    BY DEF Starts, Positions
  <2>4. /\ k \in Nat /\ ranges[n].rawBegin \in Nat
        /\ parsed[n].rawBegin = k + ranges[n].rawBegin
    BY <1>8, <1>9
  <2>5. parsed[n].rawBegin + 1 = i
    BY <2>2, <2>3, <2>4, SMTT(30)
  <2> QED BY <2>5
<1>12. ASSUME NEW c \in 1..N, NEW d \in 1..N
       PROVE  /\ Within(parsed[c], parsed[d]) <=> Within(ranges[c], ranges[d])
              /\ Disjoint(parsed[c], parsed[d]) <=> Disjoint(ranges[c], ranges[d])
              /\ parsed[c].rawBegin < parsed[d].rawBegin
                   <=> ranges[c].rawBegin < ranges[d].rawBegin
  <2> DEFINE p == parsed[c]
             q == parsed[d]
             g == ranges[c]
             h == ranges[d]
  <2>1. /\ p.rawBegin = k + g.rawBegin /\ p.rawEnd = k + g.rawEnd
        /\ q.rawBegin = k + h.rawBegin /\ q.rawEnd = k + h.rawEnd
        /\ q.valueBegin = k + h.valueBegin /\ q.valueEnd = k + h.valueEnd
    BY <1>9
  <2>2. /\ k \in Int /\ g.rawBegin \in Int /\ g.rawEnd \in Int
        /\ h.rawBegin \in Int /\ h.rawEnd \in Int
        /\ h.valueBegin \in Int /\ h.valueEnd \in Int
    <3>1. /\ g.rawBegin \in Int /\ g.rawEnd \in Int
          /\ h.rawBegin \in Int /\ h.rawEnd \in Int
          /\ h.valueBegin = h.rawBegin + 1
          /\ h.valueEnd = IF h.selfClosing THEN h.rawEnd ELSE h.rawEnd - 1
      BY <1>8
    <3> HIDE DEF h
    <3>2. h.valueBegin \in Int /\ h.valueEnd \in Int
      BY <3>1
    <3> QED BY <1>9, <3>1, <3>2
  <2> HIDE DEF p, q, g, h
  <2>3. Within(p, q) <=> Within(g, h)
    BY <2>1, <2>2, SMTT(30) DEF Within
  <2>4. Disjoint(p, q) <=> Disjoint(g, h)
    <3>1. p.rawEnd <= q.rawBegin <=> g.rawEnd <= h.rawBegin
      BY <2>1, <2>2
    <3>2. q.rawEnd <= p.rawBegin <=> h.rawEnd <= g.rawBegin
      BY <2>1, <2>2
    <3> QED BY <3>1, <3>2 DEF Disjoint
  <2>5. p.rawBegin < q.rawBegin <=> g.rawBegin < h.rawBegin
    BY <2>1, <2>2
  <2> QED BY <2>3, <2>4, <2>5 DEF p, q, g, h
<1>13. ASSUME NEW m \in 1..N, NEW n \in 1..N
       PROVE  /\ m < n <=> parsed[m].rawBegin < parsed[n].rawBegin
              /\ \/ m = n \/ Disjoint(parsed[m], parsed[n])
                 \/ Within(parsed[m], parsed[n]) \/ Within(parsed[n], parsed[m])
  <2>1. /\ m < n <=> ranges[m].rawBegin < ranges[n].rawBegin
        /\ \/ m = n \/ Disjoint(ranges[m], ranges[n])
           \/ Within(ranges[m], ranges[n]) \/ Within(ranges[n], ranges[m])
    BY <1>3 DEF ElementsOf, N
  <2> QED BY <1>12, <2>1
<1>18. ASSUME NEW n \in 1..N
       PROVE  parsed[n].name = xml[parsed[n].rawBegin + 1].tag
  <2> DEFINE g == ranges[n].rawBegin
  <2>1. /\ g \in Nat /\ g < ranges[n].rawEnd /\ ranges[n].rawEnd \in Nat
        /\ ranges[n].rawEnd <= Len(body)
        /\ ranges[n].name = body[g + 1].tag
    BY <1>3, <1>4 DEF ElementsOf, N
  <2>2. \A i \in 1..Len(body) : body[i] = xml[k + i]
    BY PrologAndBody DEF k, body
  <2>3. Len(body) \in Nat
    BY <1>1, <1>2
  <2>4. parsed[n].name = ranges[n].name /\ parsed[n].rawBegin = k + g
    BY <1>7
  <2> HIDE DEF g
  <2>5. g + 1 \in 1..Len(body) /\ (k + g) + 1 = k + (g + 1)
    <3> DEFINE z == ranges[n].rawEnd
               l == Len(body)
    <3>1. /\ g \in Nat /\ z \in Nat /\ l \in Nat /\ k \in Nat
          /\ g < z /\ z <= l
      BY <1>9, <2>1, <2>3
    <3> HIDE DEF z, l, k
    <3>2. g + 1 \in 1..l /\ (k + g) + 1 = k + (g + 1)
      BY <3>1
    <3> QED BY <3>2 DEF l
  <2> QED BY <2>1, <2>2, <2>4, <2>5
<1>14. ElementsOf(xml, parsed)
  BY <1>4, <1>6, <1>10, <1>11, <1>13, <1>18 DEF ElementsOf
<1>15. ASSUME NEW n \in 1..N
       PROVE  over(n) = Above(parsed, n)
  <2>1. \A m \in 1..N : Within(ranges[n], ranges[m]) <=> Inside(parsed[n], parsed[m])
    BY <1>6, <1>14, <1>12, InsideIsWithin
  <2>2. \A m \in 1..N : Inside(parsed[n], parsed[m]) => m < n
    BY <1>13 DEF Inside
  <2>3. \A m \in 1..N : m \in 1..n - 1 <=> m < n
    BY <1>4
  <2>4. 1..n - 1 \subseteq 1..N
    BY <1>4
  <2> QED BY <1>6, <2>1, <2>2, <2>3, <2>4 DEF over, Above
<1>16. ASSUME NEW n \in 1..N
       PROVE  under(n) = Below(parsed, n)
  BY <1>6, <1>7 DEF under, Below
<1>17. ASSUME NEW n \in 1..N
       PROVE  PlacedIn(parsed, n)
  BY <1>7, <1>15, <1>16 DEF PlacedIn, parent
<1> QED BY <1>6, <1>14, <1>17 DEF parsed
-----------------------------------------------------------------------------
(* Parsed nodes: elements that are placed by their ranges. *)
Forest(source, parsed) ==
  /\ ElementsOf(source, parsed)
  /\ parsed = [n \in 1..Len(parsed) |-> parsed[n]]
  /\ \A n \in 1..Len(parsed) : PlacedIn(parsed, n)

(* The children of a node are listed in order, each once. *)
Listed(parsed, n) ==
  LET children == parsed[n].childIds
      count == Cardinality(Below(parsed, n))
  IN /\ count \in Nat
     /\ \A i \in 1..count : children[i] \in 1..Len(parsed)
                            /\ n \in parsed[children[i]].parentId
     /\ \A m \in 1..Len(parsed) :
          n \in parsed[m].parentId => \E i \in 1..count : children[i] = m
     /\ \A i, j \in 1..count : i < j <=> children[i] < children[j]

(* The parent of a node is around it, and nothing in between.              *)
LEMMA Families ==
  ASSUME NEW source, NEW parsed, Forest(source, parsed), NEW n \in 1..Len(parsed)
  PROVE  LET children == parsed[n].childIds
             count == Cardinality(Below(parsed, n))
         IN /\ Above(parsed, n) \subseteq 1..n - 1 /\ Above(parsed, n) \subseteq 1..Len(parsed)
            /\ Above(parsed, n) = {} => parsed[n].parentId = {}
            /\ \A m \in 1..Len(parsed) :
                 m \in parsed[n].parentId <=>
                   m \in Above(parsed, n) /\ \A k \in Above(parsed, n) : k <= m
            /\ \A m, k \in parsed[n].parentId : m = k
            /\ parsed[n].parentId \subseteq 1..Len(parsed)
            /\ Above(parsed, n) # {} => parsed[n].parentId # {}
            /\ children = [i \in 1..count |-> children[i]]
            /\ Listed(parsed, n)
<1> DEFINE N == Len(parsed)
           above == Above(parsed, n)
           below == Below(parsed, n)
           count == Cardinality(below)
           children == parsed[n].childIds
<1>1. N \in Nat /\ PlacedIn(parsed, n)
  BY DEF Forest, ElementsOf
<1>2. above \subseteq 1..n - 1 /\ above \subseteq 1..N
  <2>1. \A m \in 1..N : Inside(parsed[n], parsed[m]) => m < n
    BY DEF Forest, ElementsOf, Inside
  <2>2. \A m \in 1..N : m < n => m \in 1..n - 1
    BY <1>1
  <2> QED BY <2>1, <2>2 DEF Above
<1>3. above # {} => Max(above) \in above /\ \A k \in above : k <= Max(above)
  <2>1. above \subseteq 0..N
    BY <1>2
  <2> HIDE DEF above
  <2> QED BY <1>1, <2>1, MaxBounded
<1>4. parsed[n].parentId = IF above = {} THEN {} ELSE {Max(above)}
  BY <1>1 DEF PlacedIn
<1>5. ASSUME NEW m \in 1..N
      PROVE  m \in parsed[n].parentId <=> m \in above /\ \A k \in above : k <= m
  <2> HIDE DEF above
  <2>1. CASE above = {}
    BY <1>4, <2>1
  <2>2. CASE above # {}
    <3>1. ASSUME m \in above, \A k \in above : k <= m
          PROVE  m = Max(above)
      <4>1. m <= Max(above) /\ Max(above) <= m
        BY <1>3, <2>2, <3>1
      <4>2. Max(above) \in above /\ above \subseteq 1..N
        BY <1>2, <1>3, <2>2
      <4>3. Max(above) \in 1..N
        BY <4>2
      <4> QED BY <1>1, <4>1, <4>3
    <3> QED BY <1>3, <1>4, <2>2, <3>1
  <2> QED BY <2>1, <2>2
<1>6. /\ parsed[n].parentId \subseteq 1..N /\ \A m, k \in parsed[n].parentId : m = k
      /\ above = {} => parsed[n].parentId = {}
      /\ above # {} => parsed[n].parentId # {}
  <2> HIDE DEF above
  <2> QED BY <1>2, <1>3, <1>4
<1>7. children = [i \in 1..count |-> nth(below, i)]
  BY <1>1 DEF PlacedIn
<1>8. /\ below \subseteq 1..N
      /\ \A m \in 1..N : n \in parsed[m].parentId <=> m \in below
  BY DEF Below
<1> HIDE DEF below
<1>9. /\ count \in Nat
      /\ \A i \in 1..count : nth(below, i) \in below
      /\ \A m \in below : \E i \in 1..count : nth(below, i) = m
      /\ \A i, j \in 1..count : i < j <=> nth(below, i) < nth(below, j)
  BY <1>1, <1>8, EveryRankIsTaken, NthCounts
<1> HIDE DEF count, children
<1>10. \A i \in 1..count : children[i] = nth(below, i)
  BY <1>7
<1>11. Len(children) = count /\ children = [i \in 1..count |-> children[i]]
  <2>1. DOMAIN children = 1..count
    BY <1>7
  <2> QED BY <1>7, <1>9, <2>1
<1>12. /\ \A i \in 1..count : children[i] \in 1..N /\ n \in parsed[children[i]].parentId
       /\ \A m \in 1..N : n \in parsed[m].parentId => \E i \in 1..count : children[i] = m
       /\ \A i, j \in 1..count : i < j <=> children[i] < children[j]
  <2>1. \A i \in 1..count : children[i] \in 1..N /\ n \in parsed[children[i]].parentId
    BY <1>8, <1>9, <1>10
  <2>2. ASSUME NEW m \in 1..N, n \in parsed[m].parentId
        PROVE  \E i \in 1..count : children[i] = m
    <3>1. m \in below
      BY <1>8, <2>2
    <3> QED BY <1>9, <1>10, <3>1
  <2>3. \A i, j \in 1..count : i < j <=> children[i] < children[j]
    BY <1>9, <1>10
  <2> QED BY <2>1, <2>2, <2>3
<1>13. Listed(parsed, n)
  BY <1>9, <1>12 DEF Listed, count, children, below
<1> QED BY <1>2, <1>5, <1>6, <1>11, <1>13 DEF count, children, below

(* A node lists as many children as it has. *)
LEMMA ChildrenAreCounted ==
  ASSUME NEW source, NEW parsed, Forest(source, parsed), NEW n \in 1..Len(parsed)
  PROVE  Len(parsed[n].childIds) = Cardinality(Below(parsed, n))
<1> DEFINE count == Cardinality(Below(parsed, n))
           children == parsed[n].childIds
<1>1. children = [k \in 1..count |-> nth(Below(parsed, n), k)]
  BY DEF Forest, PlacedIn
<1>2. count \in Nat
  BY Families DEF Listed
<1> HIDE DEF count, children
<1>3. DOMAIN children = 1..count
  BY <1>1
<1> QED BY <1>1, <1>2, <1>3 DEF count, children

(* A parsed node under another id, its parent's and its children's. *)
Under(parsed, n, f, node) ==
  node = [id |-> f[n], name |-> parsed[n].name,
          parentId |-> {f[m] : m \in parsed[n].parentId},
          depth |-> parsed[n].depth,
          childIds |-> [i \in 1..Cardinality(Below(parsed, n)) |->
                          f[parsed[n].childIds[i]]],
          selfClosing |-> parsed[n].selfClosing,
          rawBegin |-> parsed[n].rawBegin, valueBegin |-> parsed[n].valueBegin,
          valueEnd |-> parsed[n].valueEnd, rawEnd |-> parsed[n].rawEnd]

(* What remapped makes of a parsed node. *)
LEMMA RemappedNode ==
  ASSUME NEW source, NEW parsed, Forest(source, parsed), NEW n \in 1..Len(parsed),
         NEW f, NEW node, node = remapped(parsed, f)[n]
  PROVE  Under(parsed, n, f, node)
<1>1. Len(parsed[n].childIds) = Cardinality(Below(parsed, n))
  BY ChildrenAreCounted
<1> DEFINE p == parsed[n]
<1>2. p = [id |-> n, name |-> p.name, parentId |-> p.parentId, depth |-> p.depth,
           childIds |-> p.childIds, selfClosing |-> p.selfClosing,
           rawBegin |-> p.rawBegin, valueBegin |-> p.valueBegin,
           valueEnd |-> p.valueEnd, rawEnd |-> p.rawEnd]
  BY DEF Forest, PlacedIn
<1>3. node = [p EXCEPT !.id = f[n], !.parentId = {f[m] : m \in @},
                       !.childIds = [i \in 1..Len(@) |-> f[@[i]]]]
  BY DEF remapped
<1> HIDE DEF p
<1> DEFINE parents == {f[m] : m \in p.parentId}
           children == [i \in 1..Len(p.childIds) |-> f[p.childIds[i]]]
<1>4. node = [p EXCEPT !.id = f[n], !.parentId = parents, !.childIds = children]
  BY <1>3
<1> HIDE DEF parents, children
<1>5. node = [id |-> f[n], name |-> p.name, parentId |-> parents, depth |-> p.depth,
              childIds |-> children, selfClosing |-> p.selfClosing,
              rawBegin |-> p.rawBegin, valueBegin |-> p.valueBegin,
              valueEnd |-> p.valueEnd, rawEnd |-> p.rawEnd]
  BY <1>2, <1>4
<1> QED BY <1>1, <1>5 DEF p, parents, children, Under

(* A parsed source has the ids that it was counted under. *)
LEMMA ParsedIds ==
  ASSUME NEW source, NEW parsed, Forest(source, parsed)
  PROVE  /\ \A n \in 1..Len(parsed) : parsed[n].id = n
         /\ parsed = remapped(parsed, [n \in 1..Len(parsed) |-> parsed[n].id])
<1> DEFINE N == Len(parsed)
           f == [n \in 1..N |-> parsed[n].id]
<1>1. /\ parsed = [n \in 1..N |-> parsed[n]]
      /\ \A n \in 1..N : PlacedIn(parsed, n)
  BY DEF Forest
<1>2. \A n \in 1..N : parsed[n].id = n
  <2>1. ASSUME NEW n \in 1..N
        PROVE  parsed[n].id = n
    <3> DEFINE p == parsed[n]
    <3>1. p = [id |-> n, name |-> p.name, parentId |-> p.parentId, depth |-> p.depth,
               childIds |-> p.childIds, selfClosing |-> p.selfClosing,
               rawBegin |-> p.rawBegin, valueBegin |-> p.valueBegin,
               valueEnd |-> p.valueEnd, rawEnd |-> p.rawEnd]
      BY <1>1 DEF PlacedIn
    <3> HIDE DEF p
    <3>2. p.id = n
      BY <3>1
    <3> QED BY <3>2 DEF p
  <2> QED BY <2>1
<1>3. ASSUME NEW n \in 1..N
      PROVE  remapped(parsed, f)[n] = parsed[n]
  <2> DEFINE p == parsed[n]
             count == Cardinality(Below(parsed, n))
             parents == {f[m] : m \in p.parentId}
             children == [i \in 1..count |-> f[p.childIds[i]]]
             node == remapped(parsed, f)[n]
  <2>1. node = [id |-> f[n], name |-> p.name, parentId |-> parents, depth |-> p.depth,
                childIds |-> children, selfClosing |-> p.selfClosing,
                rawBegin |-> p.rawBegin, valueBegin |-> p.valueBegin,
                valueEnd |-> p.valueEnd, rawEnd |-> p.rawEnd]
    <3>1. Under(parsed, n, f, node)
      <4> HIDE DEF f, node
      <4> QED BY RemappedNode DEF node
    <3> QED BY <3>1 DEF Under
  <2>2. p = [id |-> n, name |-> p.name, parentId |-> p.parentId, depth |-> p.depth,
             childIds |-> p.childIds, selfClosing |-> p.selfClosing,
             rawBegin |-> p.rawBegin, valueBegin |-> p.valueBegin,
             valueEnd |-> p.valueEnd, rawEnd |-> p.rawEnd]
    BY <1>1 DEF PlacedIn
  <2>3. \A m \in 1..N : f[m] = m
    BY <1>2
  <2>4. /\ p.parentId \subseteq 1..N
        /\ p.childIds = [i \in 1..count |-> p.childIds[i]]
        /\ \A i \in 1..count : p.childIds[i] \in 1..N
    <3>1. Listed(parsed, n)
      BY Families
    <3>2. \A i \in 1..count : p.childIds[i] \in 1..N
      BY <3>1 DEF Listed
    <3> QED BY <3>2, Families
  <2> HIDE DEF f, p, count, node
  <2>5. parents = p.parentId
    BY <2>3, <2>4
  <2>6. children = p.childIds
    BY <2>3, <2>4
  <2> HIDE DEF parents, children
  <2>7. node = p
    BY <2>1, <2>2, <2>3, <2>5, <2>6
  <2> QED BY <2>7 DEF node, p
<1>4. remapped(parsed, f) = [n \in 1..N |-> remapped(parsed, f)[n]]
  BY DEF remapped
<1>5. remapped(parsed, f) = parsed
  <2> HIDE DEF f
  <2> QED BY <1>1, <1>3, <1>4
<1> QED BY <1>2, <1>5

(* Under other ids, everything of the nodes but the ids stays.             *)
SamePlaces(nodes, parsed) ==
  /\ Len(nodes) = Len(parsed) /\ DOMAIN nodes = 1..Len(parsed)
  /\ \A n \in 1..Len(parsed) :
       /\ nodes[n].name = parsed[n].name
       /\ nodes[n].depth = parsed[n].depth
       /\ nodes[n].selfClosing = parsed[n].selfClosing
       /\ nodes[n].rawBegin = parsed[n].rawBegin
       /\ nodes[n].valueBegin = parsed[n].valueBegin
       /\ nodes[n].valueEnd = parsed[n].valueEnd
       /\ nodes[n].rawEnd = parsed[n].rawEnd

Relabelled(nodes, parsed, idOf) ==
  \A n \in 1..Len(parsed) :
    /\ nodes[n].id = idOf[n]
    /\ nodes[n].parentId = {idOf[m] : m \in parsed[n].parentId}
    /\ nodes[n].childIds =
         [i \in 1..Cardinality(Below(parsed, n)) |-> idOf[parsed[n].childIds[i]]]

(* Relabelling moves no node, and only the new ids tell how.               *)
LEMMA RemappedNodes ==
  ASSUME NEW source, NEW parsed, Forest(source, parsed), NEW idOf,
         NEW nodes, nodes = remapped(parsed, idOf)
  PROVE  /\ SamePlaces(nodes, parsed) /\ Relabelled(nodes, parsed, idOf)
         /\ nodes = remapped(parsed, [n \in 1..Len(nodes) |-> nodes[n].id])
<1> DEFINE N == Len(parsed)
           id2 == [n \in 1..N |-> nodes[n].id]
<1>1. N \in Nat
  BY DEF Forest, ElementsOf
<1>2. DOMAIN nodes = 1..N /\ nodes = [n \in 1..N |-> nodes[n]]
  BY DEF remapped
<1>3. Len(nodes) = N
  <2> HIDE DEF N
  <2> QED BY <1>1, <1>2
<1>4. ASSUME NEW n \in 1..N, NEW f, NEW node, node = remapped(parsed, f)[n]
      PROVE  node = [id |-> f[n], name |-> parsed[n].name,
                     parentId |-> {f[m] : m \in parsed[n].parentId},
                     depth |-> parsed[n].depth,
                     childIds |-> [i \in 1..Cardinality(Below(parsed, n)) |->
                                     f[parsed[n].childIds[i]]],
                     selfClosing |-> parsed[n].selfClosing,
                     rawBegin |-> parsed[n].rawBegin, valueBegin |-> parsed[n].valueBegin,
                     valueEnd |-> parsed[n].valueEnd, rawEnd |-> parsed[n].rawEnd]
  <2>1. Under(parsed, n, f, node)
    BY <1>4, RemappedNode
  <2> QED BY <2>1 DEF Under
<1>5. ASSUME NEW n \in 1..N
      PROVE  /\ nodes[n].id = idOf[n]
             /\ nodes[n].name = parsed[n].name
             /\ nodes[n].parentId = {idOf[m] : m \in parsed[n].parentId}
             /\ nodes[n].depth = parsed[n].depth
             /\ nodes[n].childIds = [i \in 1..Cardinality(Below(parsed, n)) |->
                                        idOf[parsed[n].childIds[i]]]
             /\ nodes[n].selfClosing = parsed[n].selfClosing
             /\ nodes[n].rawBegin = parsed[n].rawBegin
             /\ nodes[n].valueBegin = parsed[n].valueBegin
             /\ nodes[n].valueEnd = parsed[n].valueEnd
             /\ nodes[n].rawEnd = parsed[n].rawEnd
  <2> DEFINE parents == {idOf[m] : m \in parsed[n].parentId}
             children == [i \in 1..Cardinality(Below(parsed, n)) |->
                            idOf[parsed[n].childIds[i]]]
  <2>1. nodes[n] = [id |-> idOf[n], name |-> parsed[n].name, parentId |-> parents,
                     depth |-> parsed[n].depth, childIds |-> children,
                     selfClosing |-> parsed[n].selfClosing,
                     rawBegin |-> parsed[n].rawBegin, valueBegin |-> parsed[n].valueBegin,
                     valueEnd |-> parsed[n].valueEnd, rawEnd |-> parsed[n].rawEnd]
    BY <1>4
  <2> HIDE DEF parents, children
  <2>2. /\ nodes[n].id = idOf[n] /\ nodes[n].name = parsed[n].name
        /\ nodes[n].parentId = parents /\ nodes[n].depth = parsed[n].depth
        /\ nodes[n].childIds = children /\ nodes[n].selfClosing = parsed[n].selfClosing
        /\ nodes[n].rawBegin = parsed[n].rawBegin
        /\ nodes[n].valueBegin = parsed[n].valueBegin
        /\ nodes[n].valueEnd = parsed[n].valueEnd /\ nodes[n].rawEnd = parsed[n].rawEnd
    BY <2>1
  <2> QED BY <2>2 DEF parents, children
<1>6. ASSUME NEW n \in 1..N
      PROVE  nodes[n] = remapped(parsed, id2)[n]
  <2>1. \A m \in 1..N : id2[m] = idOf[m]
    BY <1>5
  <2>2. /\ parsed[n].parentId \subseteq 1..N
        /\ \A i \in 1..Cardinality(Below(parsed, n)) : parsed[n].childIds[i] \in 1..N
    <3>1. Listed(parsed, n)
      BY Families
    <3>2. \A i \in 1..Cardinality(Below(parsed, n)) : parsed[n].childIds[i] \in 1..N
      BY <3>1 DEF Listed
    <3> QED BY <3>2, Families
  <2> HIDE DEF id2
  <2>3. {id2[m] : m \in parsed[n].parentId} = {idOf[m] : m \in parsed[n].parentId}
    BY <2>1, <2>2
  <2>4. [i \in 1..Cardinality(Below(parsed, n)) |-> id2[parsed[n].childIds[i]]]
          = [i \in 1..Cardinality(Below(parsed, n)) |-> idOf[parsed[n].childIds[i]]]
    BY <2>1, <2>2
  <2> DEFINE node(f) ==
               [id |-> f[n], name |-> parsed[n].name,
                parentId |-> {f[m] : m \in parsed[n].parentId},
                depth |-> parsed[n].depth,
                childIds |-> [i \in 1..Cardinality(Below(parsed, n)) |->
                                f[parsed[n].childIds[i]]],
                selfClosing |-> parsed[n].selfClosing,
                rawBegin |-> parsed[n].rawBegin, valueBegin |-> parsed[n].valueBegin,
                valueEnd |-> parsed[n].valueEnd, rawEnd |-> parsed[n].rawEnd]
  <2>5. node(id2) = node(idOf)
    BY <2>1, <2>3, <2>4
  <2>6. remapped(parsed, id2)[n] = node(id2)
    BY <1>4
  <2>7. nodes[n] = node(idOf)
    BY <1>4
  <2> HIDE DEF node
  <2> QED BY <2>5, <2>6, <2>7
<1>7. remapped(parsed, id2) = [n \in 1..N |-> remapped(parsed, id2)[n]]
  BY DEF remapped
<1>8. nodes = remapped(parsed, id2)
  BY <1>2, <1>6, <1>7
<1>10. SamePlaces(nodes, parsed)
  BY <1>2, <1>3, <1>5 DEF SamePlaces
<1>11. Relabelled(nodes, parsed, idOf)
  BY <1>5 DEF Relabelled
<1> QED BY <1>3, <1>8, <1>10, <1>11
-----------------------------------------------------------------------------
(* The innermost of the nodes around a node, and the nodes that it is the  *)
(* innermost around.                                                       *)
Innermost(nodes, n) == {m \in Above(nodes, n) : \A k \in Above(nodes, n) : k <= m}
Children(nodes, n) == {m \in 1..Len(nodes) : n \in Innermost(nodes, m)}

(* The nodes of a document: the elements of its source under different     *)
(* ids, with parents and children named by them.                           *)
Family(source, nodes) ==
  /\ ElementsOf(source, nodes)
  /\ \A m, n \in 1..Len(nodes) : nodes[m].id = nodes[n].id => m = n
  /\ \A n \in 1..Len(nodes) :
       /\ nodes[n].depth = Cardinality(Above(nodes, n))
       /\ nodes[n].parentId = {nodes[m].id : m \in Innermost(nodes, n)}
       /\ Range(nodes[n].childIds) = {nodes[m].id : m \in Children(nodes, n)}
       /\ \A k, m \in Children(nodes, n) :
            nodes[k].id \in InFront(nodes[n].childIds, nodes[m].id) <=> k < m

(* Parsed nodes under different ids are a family.                          *)
LEMMA FamilyOfForest ==
  ASSUME NEW source, NEW parsed, Forest(source, parsed), NEW idOf,
         \A m, n \in 1..Len(parsed) : idOf[m] = idOf[n] => m = n,
         NEW nodes, nodes = remapped(parsed, idOf)
  PROVE  Family(source, nodes)
<1> DEFINE N == Len(parsed)
<1>1. SamePlaces(nodes, parsed) /\ Relabelled(nodes, parsed, idOf)
  BY RemappedNodes
<1>7. /\ Len(nodes) = N /\ DOMAIN nodes = 1..N
      /\ \A n \in 1..N : nodes[n].id = idOf[n]
  BY <1>1 DEF SamePlaces, Relabelled
<1>8. \A n \in 1..N :
        /\ nodes[n].rawBegin = parsed[n].rawBegin
        /\ nodes[n].valueBegin = parsed[n].valueBegin
        /\ nodes[n].valueEnd = parsed[n].valueEnd
        /\ nodes[n].rawEnd = parsed[n].rawEnd
  BY <1>1 DEF SamePlaces
<1>2. ElementsOf(source, parsed)
  BY DEF Forest
<1>3. ElementsOf(source, nodes)
  <2>1. \A m, n \in 1..N :
          /\ Disjoint(nodes[m], nodes[n]) <=> Disjoint(parsed[m], parsed[n])
          /\ Within(nodes[m], nodes[n]) <=> Within(parsed[m], parsed[n])
    BY <1>8 DEF Disjoint, Within
  <2>2. \A n \in 1..N : /\ nodes[n].name = parsed[n].name
                       /\ nodes[n].selfClosing = parsed[n].selfClosing
    BY <1>1 DEF SamePlaces
  <2>3. N \in Nat
    BY <1>2 DEF ElementsOf
  <2>4. ASSUME NEW n \in 1..N
        PROVE  /\ nodes[n].rawBegin \in Nat /\ nodes[n].rawEnd \in Nat
               /\ nodes[n].rawBegin < nodes[n].rawEnd
               /\ nodes[n].rawEnd <= Len(source)
               /\ nodes[n].valueBegin = nodes[n].rawBegin + 1
               /\ nodes[n].valueEnd = IF nodes[n].selfClosing THEN nodes[n].rawEnd
                                      ELSE nodes[n].rawEnd - 1
               /\ nodes[n].selfClosing <=> nodes[n].rawEnd = nodes[n].rawBegin + 1
               /\ nodes[n].rawBegin + 1 \in Starts(source)
               /\ nodes[n].name = source[nodes[n].rawBegin + 1].tag
    <3>1. /\ parsed[n].rawBegin \in Nat /\ parsed[n].rawEnd \in Nat
          /\ parsed[n].rawBegin < parsed[n].rawEnd
          /\ parsed[n].rawEnd <= Len(source)
          /\ parsed[n].valueBegin = parsed[n].rawBegin + 1
          /\ parsed[n].rawBegin + 1 \in Starts(source)
          /\ parsed[n].name = source[parsed[n].rawBegin + 1].tag
      BY <1>2 DEF ElementsOf
    <3>2. parsed[n].valueEnd = IF parsed[n].selfClosing THEN parsed[n].rawEnd
                               ELSE parsed[n].rawEnd - 1
      BY <1>2 DEF ElementsOf
    <3>3. parsed[n].selfClosing <=> parsed[n].rawEnd = parsed[n].rawBegin + 1
      BY <1>2 DEF ElementsOf
    <3>4. nodes[n].valueEnd = IF nodes[n].selfClosing THEN nodes[n].rawEnd
                              ELSE nodes[n].rawEnd - 1
      BY <1>8, <2>2, <3>2
    <3>5. nodes[n].selfClosing <=> nodes[n].rawEnd = nodes[n].rawBegin + 1
      BY <1>8, <2>2, <3>3
    <3> QED BY <1>8, <2>2, <3>1, <3>4, <3>5
  <2>5. \A i \in Starts(source) : \E n \in 1..N : nodes[n].rawBegin + 1 = i
    BY <1>2, <1>8 DEF ElementsOf
  <2>6. \A m, n \in 1..N :
          /\ m < n <=> nodes[m].rawBegin < nodes[n].rawBegin
          /\ \/ m = n \/ Disjoint(nodes[m], nodes[n])
             \/ Within(nodes[m], nodes[n]) \/ Within(nodes[n], nodes[m])
    BY <1>2, <1>8, <2>1 DEF ElementsOf
  <2> QED BY <1>7, <2>3, <2>4, <2>5, <2>6 DEF ElementsOf
<1>4. ASSUME NEW n \in 1..N
      PROVE  /\ Above(nodes, n) = Above(parsed, n)
             /\ Innermost(nodes, n) = parsed[n].parentId
  <2>1. Above(nodes, n) = Above(parsed, n)
    BY <1>7, <1>8 DEF Above, Inside
  <2>2. parsed[n].parentId \subseteq 1..N /\ Above(parsed, n) \subseteq 1..N
    BY Families
  <2>3. \A m \in 1..N : m \in parsed[n].parentId <=>
                          m \in Above(parsed, n) /\ \A k \in Above(parsed, n) : k <= m
    BY Families
  <2> QED BY <2>1, <2>2, <2>3 DEF Innermost
<1>5. ASSUME NEW n \in 1..N
      PROVE  /\ nodes[n].depth = Cardinality(Above(nodes, n))
             /\ nodes[n].parentId = {nodes[m].id : m \in Innermost(nodes, n)}
  <2>1. nodes[n].depth = Cardinality(Above(nodes, n))
    <3>1. nodes[n].depth = parsed[n].depth
      BY <1>1 DEF SamePlaces
    <3>2. parsed[n].depth = Cardinality(Above(parsed, n))
      BY DEF Forest, PlacedIn
    <3> QED BY <1>4, <3>1, <3>2
  <2>2. parsed[n].parentId \subseteq 1..N
    BY Families
  <2>3. nodes[n].parentId = {idOf[m] : m \in parsed[n].parentId}
    BY <1>1 DEF Relabelled
  <2>4. {idOf[m] : m \in parsed[n].parentId} = {nodes[m].id : m \in parsed[n].parentId}
    BY <1>7, <2>2
  <2> QED BY <1>4, <2>1, <2>3, <2>4
<1>6. ASSUME NEW n \in 1..N
      PROVE  /\ Range(nodes[n].childIds) = {nodes[m].id : m \in Children(nodes, n)}
             /\ \A k, m \in Children(nodes, n) :
                  nodes[k].id \in InFront(nodes[n].childIds, nodes[m].id) <=> k < m
  <2> DEFINE count == Cardinality(Below(parsed, n))
             child == parsed[n].childIds
             list == nodes[n].childIds
  <2>1. /\ count \in Nat
        /\ \A i \in 1..count : child[i] \in 1..N /\ n \in parsed[child[i]].parentId
        /\ \A m \in 1..N :
             n \in parsed[m].parentId => \E i \in 1..count : child[i] = m
        /\ \A i, j \in 1..count : i < j <=> child[i] < child[j]
    <3>1. Listed(parsed, n)
      BY Families
    <3> QED BY <3>1 DEF Listed
  <2>2. \A m \in 1..N : m \in Children(nodes, n) <=> n \in parsed[m].parentId
    BY <1>4, <1>7 DEF Children
  <2>3. /\ DOMAIN list = 1..count
        /\ \A i \in 1..count : list[i] = idOf[child[i]]
    <3>1. list = [i \in 1..count |-> idOf[child[i]]]
      BY <1>1 DEF Relabelled
    <3> HIDE DEF list, count
    <3> QED BY <3>1
  <2>4. Children(nodes, n) \subseteq 1..N
    BY <1>7 DEF Children
  <2> HIDE DEF count, child, list
  <2>5. Range(list) = {nodes[m].id : m \in Children(nodes, n)}
    <3>1. Range(list) = {list[i] : i \in 1..count}
      BY <2>3 DEF Range
    <3>2. ASSUME NEW i \in 1..count
          PROVE  \E m \in Children(nodes, n) : list[i] = nodes[m].id
      <4>1. child[i] \in Children(nodes, n)
        BY <2>1, <2>2
      <4>2. list[i] = nodes[child[i]].id
        BY <1>7, <2>1, <2>3
      <4> QED BY <4>1, <4>2
    <3>3. ASSUME NEW m \in Children(nodes, n)
          PROVE  \E i \in 1..count : list[i] = nodes[m].id
      <4>1. PICK i \in 1..count : child[i] = m
        BY <2>1, <2>2, <2>4
      <4>2. list[i] = nodes[m].id
        BY <1>7, <2>3, <2>4, <4>1
      <4> QED BY <4>2
    <3> QED BY <3>1, <3>2, <3>3
  <2>6. ASSUME NEW k \in Children(nodes, n), NEW m \in Children(nodes, n)
        PROVE  nodes[k].id \in InFront(list, nodes[m].id) <=> k < m
    <3>1. PICK i \in 1..count : child[i] = k
      BY <2>1, <2>2, <2>4
    <3>2. PICK j \in 1..count : child[j] = m
      BY <2>1, <2>2, <2>4
    <3>3. nodes[k].id = list[i] /\ nodes[m].id = list[j]
      BY <1>7, <2>3, <2>4, <3>1, <3>2
    <3>4. ASSUME NEW p \in 1..count, NEW q \in 1..count, list[p] = list[q]
          PROVE  p = q
      <4>1. child[p] = child[q]
        BY <2>1, <2>3, <3>4
      <4>2. child[p] \in Nat
        BY <1>2, <2>1
      <4>3. ~(p < q) /\ ~(q < p)
        BY <2>1, <4>1, <4>2
      <4> QED BY <2>1, <4>3
    <3>5. nodes[k].id \in InFront(list, nodes[m].id) <=> i < j
      <4>1. nodes[k].id \in InFront(list, nodes[m].id) <=>
              \E p, q \in 1..count : p < q /\ list[q] = list[j] /\ list[p] = list[i]
        BY <2>3, <3>3 DEF InFront
      <4> QED BY <3>4, <4>1
    <3> QED BY <2>1, <3>1, <3>2, <3>5
  <2> QED BY <2>5, <2>6 DEF list
<1>9. \A m, n \in 1..Len(nodes) : nodes[m].id = nodes[n].id => m = n
  BY <1>7
<1> QED BY <1>3, <1>5, <1>6, <1>7, <1>9 DEF Family
-----------------------------------------------------------------------------
(* c is what an edit makes of b: its tags, moved, or the replacement of it *)
(* that has its id.                                                        *)
Replaces(edit, b, c) ==
  /\ b.rawBegin = edit.begin /\ b.rawEnd = edit.end
  /\ c.rawBegin = edit.begin /\ c.rawEnd = edit.begin + Len(edit.replacement)
  /\ Len(edit.replacement) > 0

Succeeds(edit, b, c) == MovedTo(edit, b, c) \/ Replaces(edit, b, c)

(* Where the edit puts a tag that begins an element, or ends one. *)
BeginMoves(a, z, r, q, p) ==
  Moved(a, z, r, q, p) \/ (a < z /\ r > 0 /\ q = a + 1 /\ p = a + 1)

EndMoves(a, z, r, q, p) ==
  Moved(a, z, r, q, p) \/ (a < z /\ r > 0 /\ q = z /\ p = a + r)

(* Where the edit is, as far as its nodes are concerned.                   *)
IsRange(edit, source) ==
  /\ edit.begin \in Nat /\ edit.end \in Nat /\ Len(edit.replacement) \in Nat
  /\ edit.begin <= edit.end /\ edit.end <= Len(source)

HasPlace(b) == b.rawBegin \in Nat /\ b.rawEnd \in Nat /\ b.rawBegin < b.rawEnd

(* Successors lie to each other as what they succeed.                      *)
LEMMA SuccessorsKeepOrder ==
  ASSUME NEW edit, NEW source, IsRange(edit, source), NEW b, NEW c, NEW d, NEW e,
         HasPlace(b), HasPlace(c), HasPlace(d), HasPlace(e),
         Succeeds(edit, b, c), Succeeds(edit, d, e)
  PROVE  /\ b.rawBegin < d.rawBegin <=> c.rawBegin < e.rawBegin
         /\ Inside(b, d) <=> Inside(c, e)
<1> DEFINE a == edit.begin
           z == edit.end
           r == Len(edit.replacement)
<1>1. a \in Nat /\ z \in Nat /\ r \in Nat /\ a <= z
  BY DEF IsRange
<1>2. ASSUME NEW x, NEW y, HasPlace(x), HasPlace(y), Succeeds(edit, x, y)
      PROVE  /\ BeginMoves(a, z, r, x.rawBegin + 1, y.rawBegin + 1)
             /\ EndMoves(a, z, r, x.rawEnd, y.rawEnd)
             /\ x.rawBegin + 1 \in Nat /\ y.rawBegin + 1 \in Nat
             /\ x.rawEnd \in Nat /\ y.rawEnd \in Nat
             /\ x.rawBegin \in Nat /\ y.rawBegin \in Nat
  <2>1. CASE MovedTo(edit, x, y)
    BY <1>2, <2>1, SMTT(30) DEF MovedTo, HasPlace, BeginMoves, EndMoves
  <2>2. CASE Replaces(edit, x, y)
    <3>1. a < z /\ x.rawBegin = a /\ x.rawEnd = z /\ y.rawBegin = a /\ y.rawEnd = a + r
          /\ r > 0
      BY <1>2, <2>2 DEF Replaces, HasPlace
    <3> QED BY <1>2, <3>1 DEF HasPlace, BeginMoves, EndMoves
  <2> QED BY <1>2, <2>1, <2>2 DEF Succeeds
<1> DEFINE q == b.rawBegin + 1
           p == c.rawBegin + 1
           s == d.rawBegin + 1
           t == e.rawBegin + 1
           k == d.rawEnd
           l == e.rawEnd
<1>3. /\ BeginMoves(a, z, r, q, p) /\ EndMoves(a, z, r, b.rawEnd, c.rawEnd)
      /\ q \in Nat /\ p \in Nat /\ b.rawEnd \in Nat /\ c.rawEnd \in Nat
      /\ b.rawBegin \in Nat /\ c.rawBegin \in Nat
  BY <1>2
<1>4. /\ BeginMoves(a, z, r, s, t) /\ EndMoves(a, z, r, k, l)
      /\ s \in Nat /\ t \in Nat /\ k \in Nat /\ l \in Nat
      /\ d.rawBegin \in Nat /\ e.rawBegin \in Nat
  BY <1>2
<1>5. /\ b.rawBegin < d.rawBegin <=> q < s
      /\ d.rawBegin < b.rawBegin <=> s < q
      /\ b.rawBegin < d.rawEnd <=> q <= k
  BY <1>3, <1>4
<1>6. /\ c.rawBegin < e.rawBegin <=> p < t
      /\ e.rawBegin < c.rawBegin <=> t < p
      /\ c.rawBegin < e.rawEnd <=> p <= l
  BY <1>3, <1>4
<1> HIDE DEF a, z, r, q, p, s, t, k, l
<1>7. q < s <=> p < t
  BY <1>1, <1>3, <1>4 DEF BeginMoves, Moved
<1>8. s < q <=> t < p
  BY <1>1, <1>3, <1>4 DEF BeginMoves, Moved
<1>9. q <= k <=> p <= l
  <2>1. CASE Moved(a, z, r, q, p)
    BY <1>1, <1>3, <1>4, <2>1 DEF EndMoves, Moved
  <2>2. CASE a < z /\ r > 0 /\ q = a + 1 /\ p = a + 1
    BY <1>1, <1>3, <1>4, <2>2 DEF EndMoves, Moved
  <2> QED BY <1>3, <2>1, <2>2 DEF BeginMoves
<1> QED BY <1>5, <1>6, <1>7, <1>8, <1>9 DEF Inside

(* What an edit makes of the nodes of a source.  Elements come from those  *)
(* of the source or from the replacement; a node has the id of what it     *)
(* succeeds, and the nodes outside the edit have successors.  The edit     *)
(* takes the place of one node, or is at the end of the content of one.    *)
Carries(edit, source, old, newSource, new) ==
  LET a == edit.begin
      z == edit.end
      r == Len(edit.replacement)
  IN /\ IsRange(edit, source) /\ Family(source, old) /\ Family(newSource, new)
     /\ \A p \in Starts(newSource) :
          \/ \E q \in Starts(source) : Moved(a, z, r, q, p)
          \/ a < p /\ p <= a + r
     /\ \A m \in 1..Len(old), n \in 1..Len(new) :
          old[m].id = new[n].id <=> Succeeds(edit, old[m], new[n])
     /\ \A m \in 1..Len(old) :
          \/ \E n \in 1..Len(new) : MovedTo(edit, old[m], new[n])
          \/ a <= old[m].rawBegin /\ old[m].rawEnd <= z
     /\ r > 0 => \E n \in 1..Len(new) : new[n].rawBegin = a /\ new[n].rawEnd = a + r
     /\ a < z => \E m \in 1..Len(old) : old[m].rawBegin = a /\ old[m].rawEnd = z
     /\ a = z => \/ Len(old) = 0
                 \/ \E m \in 1..Len(old) : ~old[m].selfClosing /\ old[m].valueEnd = a

(* The nodes of a family, one at each place and in order.                  *)
LEMMA ElementsHavePlaces ==
  ASSUME NEW source, NEW nodes, Family(source, nodes)
  PROVE  /\ Len(nodes) \in Nat
         /\ \A n \in 1..Len(nodes) : HasPlace(nodes[n])
         /\ \A m, n \in 1..Len(nodes) : m < n <=> nodes[m].rawBegin < nodes[n].rawBegin
         /\ \A m, n \in 1..Len(nodes) : nodes[m].rawBegin = nodes[n].rawBegin => m = n
<1>1. ElementsOf(source, nodes)
  BY DEF Family
<1>2. /\ Len(nodes) \in Nat
      /\ \A n \in 1..Len(nodes) : HasPlace(nodes[n])
      /\ \A m, n \in 1..Len(nodes) : m < n <=> nodes[m].rawBegin < nodes[n].rawBegin
  BY <1>1 DEF ElementsOf, HasPlace
<1>3. ASSUME NEW m \in 1..Len(nodes), NEW n \in 1..Len(nodes),
             nodes[m].rawBegin = nodes[n].rawBegin
      PROVE  m = n
  <2>1. ~(m < n) /\ ~(n < m)
    BY <1>2, <1>3 DEF HasPlace
  <2> QED BY <1>2, <2>1
<1> QED BY <1>2, <1>3

(* Nothing that begins within the range of the edit has a successor, and   *)
(* nothing that begins within the replacement is one.                      *)
LEMMA NoneSucceedsInside ==
  ASSUME NEW edit, NEW source, IsRange(edit, source), NEW b, NEW c,
         HasPlace(b), HasPlace(c), Succeeds(edit, b, c)
  PROVE  /\ ~(edit.begin < b.rawBegin /\ b.rawBegin < edit.end)
         /\ ~(edit.begin < c.rawBegin
              /\ c.rawBegin < edit.begin + Len(edit.replacement))
         /\ edit.begin <= c.rawBegin =>
              \/ Replaces(edit, b, c)
              \/ edit.begin + Len(edit.replacement) <= c.rawBegin
<1>1. CASE MovedTo(edit, b, c)
  <2> DEFINE a == edit.begin
             z == edit.end
             r == Len(edit.replacement)
             q == b.rawBegin
             p == c.rawBegin
  <2>1. /\ a \in Nat /\ z \in Nat /\ r \in Nat /\ a <= z /\ q \in Nat /\ p \in Nat
        /\ (q + 1 <= a /\ p + 1 = q + 1) \/ (q + 1 > z /\ p + 1 = a + r + ((q + 1) - z))
    BY <1>1 DEF MovedTo, Moved, IsRange, HasPlace
  <2> HIDE DEF a, z, r, q, p
  <2>2. ~(a < q /\ q < z) /\ ~(a < p /\ p < a + r) /\ (a <= p => a + r <= p)
    <3>1. CASE q + 1 <= a /\ p + 1 = q + 1
      BY <2>1, <3>1
    <3>2. CASE q + 1 > z /\ p + 1 = a + r + ((q + 1) - z)
      BY <2>1, <3>2
    <3> QED BY <2>1, <3>1, <3>2
  <2> QED BY <2>2 DEF a, z, r, q, p
<1>2. CASE Replaces(edit, b, c)
  BY <1>2 DEF Replaces, IsRange, HasPlace
<1> QED BY <1>1, <1>2 DEF Succeeds

(* The nodes around one that has a successor have successors around it.    *)
LEMMA AroundStays ==
  ASSUME NEW edit, NEW source, NEW old, NEW newSource, NEW new,
         Carries(edit, source, old, newSource, new),
         NEW m \in 1..Len(old), NEW n \in 1..Len(new), Succeeds(edit, old[m], new[n]),
         NEW k \in 1..Len(old), Inside(old[m], old[k])
  PROVE  \E l \in 1..Len(new) : Succeeds(edit, old[k], new[l]) /\ Inside(new[n], new[l])
<1>1. IsRange(edit, source) /\ Family(source, old) /\ Family(newSource, new)
  BY DEF Carries
<1>2. /\ HasPlace(old[m]) /\ HasPlace(old[k])
      /\ \A l \in 1..Len(new) : HasPlace(new[l])
  BY <1>1, ElementsHavePlaces
<1>3. CASE edit.begin <= old[k].rawBegin /\ old[k].rawEnd <= edit.end
  <2>1. edit.begin < old[m].rawBegin /\ old[m].rawBegin < edit.end
    BY <1>1, <1>2, <1>3, SMTT(30) DEF Inside, HasPlace, IsRange
  <2> QED BY <1>1, <1>2, <2>1, NoneSucceedsInside
<1>4. CASE \E l \in 1..Len(new) : MovedTo(edit, old[k], new[l])
  <2>1. PICK l \in 1..Len(new) : Succeeds(edit, old[k], new[l])
    BY <1>4 DEF Succeeds
  <2>2. Inside(new[n], new[l])
    BY <1>1, <1>2, <2>1, SuccessorsKeepOrder
  <2> QED BY <2>1, <2>2
<1> QED BY <1>3, <1>4 DEF Carries

(* A node that begins at a tag of the source succeeds one.                 *)
LEMMA MovedTagsSucceed ==
  ASSUME NEW edit, NEW source, NEW old, NEW newSource, NEW new,
         Carries(edit, source, old, newSource, new), NEW l \in 1..Len(new),
         NEW q \in Starts(source),
         Moved(edit.begin, edit.end, Len(edit.replacement), q, new[l].rawBegin + 1)
  PROVE  \E k \in 1..Len(old) : Succeeds(edit, old[k], new[l])
<1> DEFINE a == edit.begin
           z == edit.end
           r == Len(edit.replacement)
           p == new[l].rawBegin + 1
<1>1. /\ IsRange(edit, source) /\ Family(source, old) /\ Family(newSource, new)
      /\ ElementsOf(source, old) /\ ElementsOf(newSource, new)
  BY DEF Carries, Family
<1>2. /\ \A k \in 1..Len(old) : HasPlace(old[k])
      /\ \A i \in 1..Len(new) : HasPlace(new[i])
      /\ \A i, j \in 1..Len(new) : new[i].rawBegin = new[j].rawBegin => i = j
  BY <1>1, ElementsHavePlaces
<1>3. a \in Nat /\ z \in Nat /\ r \in Nat /\ a <= z
  BY <1>1 DEF IsRange
<1>4. PICK k \in 1..Len(old) : old[k].rawBegin + 1 = q
  BY <1>1 DEF ElementsOf
<1>5. /\ old[k].rawBegin \in Nat /\ old[k].rawEnd \in Nat
      /\ old[k].rawBegin < old[k].rawEnd
  BY <1>2 DEF HasPlace
<1>6. ~(a <= old[k].rawBegin /\ old[k].rawEnd <= z)
  BY <1>3, <1>4, <1>5 DEF Moved
<1>7. PICK j \in 1..Len(new) : MovedTo(edit, old[k], new[j])
  BY <1>6 DEF Carries
<1>8. Moved(a, z, r, q, new[j].rawBegin + 1) /\ Moved(a, z, r, q, new[l].rawBegin + 1)
  BY <1>4, <1>7 DEF MovedTo
<1>9. new[j].rawBegin = new[l].rawBegin
  <2>1. new[j].rawBegin \in Nat /\ new[l].rawBegin \in Nat
    BY <1>2 DEF HasPlace
  <2>2. q \in Nat
    BY <1>4, <1>5
  <2> HIDE DEF a, z, r
  <2> QED BY <1>3, <1>8, <2>1, <2>2, SMTT(30) DEF Moved
<1>10. j = l
  BY <1>2, <1>9
<1> QED BY <1>7, <1>10 DEF Succeeds

(* And only successors are around a successor.                             *)
LEMMA AroundStayed ==
  ASSUME NEW edit, NEW source, NEW old, NEW newSource, NEW new,
         Carries(edit, source, old, newSource, new),
         NEW m \in 1..Len(old), NEW n \in 1..Len(new), Succeeds(edit, old[m], new[n]),
         NEW l \in 1..Len(new), Inside(new[n], new[l])
  PROVE  \E k \in 1..Len(old) : Succeeds(edit, old[k], new[l]) /\ Inside(old[m], old[k])
<1> DEFINE a == edit.begin
           z == edit.end
           r == Len(edit.replacement)
           p == new[l].rawBegin + 1
<1>1. /\ IsRange(edit, source) /\ Family(source, old) /\ Family(newSource, new)
      /\ ElementsOf(source, old) /\ ElementsOf(newSource, new)
  BY DEF Carries, Family
<1>2. /\ \A k \in 1..Len(old) : HasPlace(old[k])
      /\ \A i \in 1..Len(new) : HasPlace(new[i])
      /\ \A i, j \in 1..Len(new) : new[i].rawBegin = new[j].rawBegin => i = j
  BY <1>1, ElementsHavePlaces
<1>3. a \in Nat /\ z \in Nat /\ r \in Nat /\ a <= z
  BY <1>1 DEF IsRange
<1>4. /\ new[l].rawBegin \in Nat /\ new[l].rawEnd \in Nat
      /\ new[l].rawBegin < new[l].rawEnd
      /\ new[n].rawBegin \in Nat
      /\ new[l].rawBegin < new[n].rawBegin /\ new[n].rawBegin < new[l].rawEnd
  BY <1>2 DEF HasPlace, Inside
<1>5. p \in Starts(newSource)
  BY <1>1 DEF ElementsOf
<1>6. CASE a < p /\ p <= a + r
  <2>1. r > 0
    BY <1>3, <1>4, <1>6
  <2>2. PICK d \in 1..Len(new) : new[d].rawBegin = a /\ new[d].rawEnd = a + r
    BY <2>1 DEF Carries
  <2>3. new[l].rawEnd <= a + r
    <3>1. CASE new[l].rawBegin = a
      <4>1. l = d
        BY <1>2, <2>2, <3>1
      <4> QED BY <1>3, <2>2, <4>1
    <3>2. CASE new[l].rawBegin # a
      <4>1. a < new[l].rawBegin /\ new[l].rawBegin < a + r
        BY <1>3, <1>4, <1>6, <3>2, SMTT(30)
      <4>2. Within(new[l], new[d])
        BY <1>1, <2>2, <4>1, InsideIsWithin DEF Inside
      <4>5. new[d].valueEnd \in {new[d].rawEnd, new[d].rawEnd - 1}
        BY <1>1 DEF ElementsOf
      <4>3. /\ new[d].valueEnd \in Int /\ new[d].valueEnd <= new[d].rawEnd
            /\ new[d].rawEnd \in Nat
        BY <1>2, <4>5 DEF HasPlace
      <4>4. new[l].rawEnd <= new[d].valueEnd
        BY <4>2 DEF Within
      <4>6. new[l].rawEnd <= new[d].rawEnd
        BY <1>4, <4>3, <4>4
      <4> QED BY <2>2, <4>6
    <3> QED BY <3>1, <3>2
  <2>4. a < new[n].rawBegin /\ new[n].rawBegin < a + r
    <3> DEFINE f == new[l].rawBegin
               g == new[l].rawEnd
               h == new[n].rawBegin
    <3>1. /\ f \in Nat /\ g \in Nat /\ h \in Nat /\ f < h /\ h < g
          /\ a < f + 1 /\ g <= a + r
      BY <1>4, <1>6, <2>3
    <3> HIDE DEF a, r, f, g, h
    <3>2. a < h /\ h < a + r
      BY <1>3, <3>1
    <3> QED BY <3>2 DEF h
  <2> QED BY <1>1, <1>2, <2>4, NoneSucceedsInside
<1>7. CASE \E q \in Starts(source) : Moved(a, z, r, q, p)
  <2>1. PICK k \in 1..Len(old) : Succeeds(edit, old[k], new[l])
    BY <1>7, MovedTagsSucceed
  <2>2. Inside(old[m], old[k])
    BY <1>1, <1>2, <2>1, SuccessorsKeepOrder
  <2> QED BY <2>1, <2>2
<1> QED BY <1>5, <1>6, <1>7 DEF Carries

(* Successors are in the order of the nodes they succeed, and have their   *)
(* ids, which differ.                                                      *)
LEMMA SuccessorsAreMatched ==
  ASSUME NEW edit, NEW source, NEW old, NEW newSource, NEW new,
         Carries(edit, source, old, newSource, new),
         NEW m \in 1..Len(old), NEW n \in 1..Len(new), Succeeds(edit, old[m], new[n]),
         NEW k \in 1..Len(old), NEW l \in 1..Len(new), Succeeds(edit, old[k], new[l])
  PROVE  /\ m < k <=> n < l
         /\ m = k <=> n = l
         /\ Inside(old[m], old[k]) <=> Inside(new[n], new[l])
         /\ old[m].id = new[n].id
<1>1. IsRange(edit, source) /\ Family(source, old) /\ Family(newSource, new)
  BY DEF Carries
<1>2. /\ HasPlace(old[m]) /\ HasPlace(old[k]) /\ HasPlace(new[n]) /\ HasPlace(new[l])
      /\ m < k <=> old[m].rawBegin < old[k].rawBegin
      /\ n < l <=> new[n].rawBegin < new[l].rawBegin
  BY <1>1, ElementsHavePlaces
<1>3. old[m].id = new[n].id /\ old[k].id = new[l].id
  BY DEF Carries
<1>4. m = k <=> n = l
  BY <1>1, <1>3 DEF Family
<1>5. /\ old[m].rawBegin < old[k].rawBegin <=> new[n].rawBegin < new[l].rawBegin
      /\ Inside(old[m], old[k]) <=> Inside(new[n], new[l])
  BY <1>1, <1>2, SuccessorsKeepOrder
<1> QED BY <1>2, <1>3, <1>4, <1>5

(* A successor is as deep as what it succeeds, under the same parent.      *)
LEMMA PlacesStay ==
  ASSUME NEW edit, NEW source, NEW old, NEW newSource, NEW new,
         Carries(edit, source, old, newSource, new),
         NEW m \in 1..Len(old), NEW n \in 1..Len(new), Succeeds(edit, old[m], new[n])
  PROVE  new[n].depth = old[m].depth /\ new[n].parentId = old[m].parentId
<1> DEFINE A == Above(old, m)
           B == Above(new, n)
           follows(k, l) == Succeeds(edit, old[k], new[l])
<1>1. Family(source, old) /\ Family(newSource, new)
  BY DEF Carries
<1>2. A \subseteq 1..Len(old) /\ B \subseteq 1..Len(new)
      /\ Len(old) \in Nat /\ Len(new) \in Nat
  BY <1>1, ElementsHavePlaces DEF Above
<1>3. \A k \in A : \E l \in B : follows(k, l)
  BY <1>2, AroundStays DEF Above
<1>4. \A l \in B : \E k \in A : follows(k, l)
  BY <1>2, AroundStayed DEF Above
<1>5. \A k, j \in A, l, i \in B :
        follows(k, l) /\ follows(j, i) =>
          /\ k < j <=> l < i
          /\ k = j <=> l = i
          /\ old[k].id = new[l].id
  <2>1. ASSUME NEW k \in A, NEW j \in A, NEW l \in B, NEW i \in B,
               follows(k, l), follows(j, i)
        PROVE  (k < j <=> l < i) /\ (k = j <=> l = i) /\ old[k].id = new[l].id
    <3>1. k \in 1..Len(old) /\ j \in 1..Len(old) /\ l \in 1..Len(new) /\ i \in 1..Len(new)
      BY <1>2
    <3> QED BY <2>1, <3>1, SuccessorsAreMatched
  <2> HIDE DEF A, B, follows
  <2> QED BY <2>1
<1> HIDE DEF A, B, follows
<1>6. Cardinality(A) = Cardinality(B)
  <2> DEFINE f == [k \in A |-> CHOOSE l \in B : follows(k, l)]
  <2>1. \A k \in A : f[k] \in B /\ follows(k, f[k])
    BY <1>3
  <2>2. f \in [A -> B]
    BY <2>1
  <2> HIDE DEF f
  <2>3. f \in Injection(A, B)
    BY <1>5, <2>1, <2>2 DEF Injection, IsInjective
  <2>4. f \in Surjection(A, B)
    <3>1. ASSUME NEW l \in B
          PROVE  \E k \in A : f[k] = l
      BY <1>4, <1>5, <2>1
    <3> QED BY <2>2, <3>1 DEF Surjection
  <2>5. IsFiniteSet(A)
    <3>1. IsFiniteSet(1..Len(old))
      BY <1>2, FS_Interval
    <3> QED BY <1>2, <3>1, FS_Subset
  <2> QED BY <2>3, <2>4, <2>5, FS_Surjection
<1> DEFINE S == Innermost(old, m)
           T == Innermost(new, n)
<1>7. /\ \A k \in A : k \in S <=> \A j \in A : j <= k
      /\ \A l \in B : l \in T <=> \A i \in B : i <= l
      /\ S \subseteq A /\ T \subseteq B
  BY DEF Innermost, A, B
<1> HIDE DEF S, T
<1>8. \A k \in A, l \in B : follows(k, l) => (k \in S <=> l \in T)
  <2> SUFFICES ASSUME NEW k \in A, NEW l \in B, follows(k, l)
               PROVE  k \in S <=> l \in T
    OBVIOUS
  <2>1. A \subseteq Int /\ B \subseteq Int
    BY <1>2
  <2>2. ASSUME k \in S, NEW i \in B
        PROVE  i <= l
    <3>1. PICK j \in A : follows(j, i)
      BY <1>4, <2>2
    <3>2. j <= k
      BY <1>7, <2>2
    <3>3. ~(l < i)
      BY <1>5, <2>1, <3>1, <3>2
    <3> QED BY <2>1, <3>3
  <2>3. ASSUME l \in T, NEW j \in A
        PROVE  j <= k
    <3>1. PICK i \in B : follows(j, i)
      BY <1>3, <2>3
    <3>2. i <= l
      BY <1>7, <2>3
    <3>3. ~(k < j)
      BY <1>5, <2>1, <3>1, <3>2
    <3> QED BY <2>1, <3>3
  <2> QED BY <1>7, <2>2, <2>3
<1>9. {old[k].id : k \in S} = {new[l].id : l \in T}
  <2>1. \A k \in S : \E l \in T : old[k].id = new[l].id
    BY <1>3, <1>5, <1>7, <1>8
  <2>2. \A l \in T : \E k \in S : old[k].id = new[l].id
    BY <1>4, <1>5, <1>7, <1>8
  <2> QED BY <2>1, <2>2
<1> QED BY <1>1, <1>6, <1>9 DEF Family, A, B, S, T

(* What is inside a node is inside the nodes around that.                *)
LEMMA InsideIsTransitive ==
  ASSUME NEW source, NEW nodes, ElementsOf(source, nodes),
         NEW m \in 1..Len(nodes), NEW n \in 1..Len(nodes), NEW k \in 1..Len(nodes),
         Inside(nodes[m], nodes[n]), Inside(nodes[n], nodes[k])
  PROVE  Inside(nodes[m], nodes[k])
<1> DEFINE mb == nodes[m].rawBegin
           nb == nodes[n].rawBegin
           ne == nodes[n].rawEnd
           kb == nodes[k].rawBegin
           ke == nodes[k].rawEnd
           kv == nodes[k].valueEnd
<1>1. /\ mb \in Nat /\ nb \in Nat /\ ne \in Nat /\ kb \in Nat /\ ke \in Nat
      /\ kv \in {ke, ke - 1}
  BY DEF ElementsOf
<1>2. ne <= kv
  BY InsideIsWithin DEF Within
<1>3. nb < mb /\ mb < ne /\ kb < nb
  BY DEF Inside
<1> HIDE DEF mb, nb, ne, kb, ke, kv
<1>4. kv \in Int /\ kv <= ke
  BY <1>1
<1>5. kb < mb /\ mb < ke
  BY <1>1, <1>2, <1>3, <1>4
<1> QED BY <1>5 DEF Inside, mb, kb, ke

(* Children that are successors come before those that are not: only a     *)
(* creation makes a child that is none, at the end of its parent.          *)
LEMMA NewChildrenComeLast ==
  ASSUME NEW edit, NEW source, NEW old, NEW newSource, NEW new,
         Carries(edit, source, old, newSource, new),
         NEW m \in 1..Len(old), NEW n \in 1..Len(new), Succeeds(edit, old[m], new[n]),
         NEW k \in 1..Len(old), NEW l \in Children(new, n), Succeeds(edit, old[k], new[l]),
         NEW i \in Children(new, n), i < l
  PROVE  \E j \in 1..Len(old) : Succeeds(edit, old[j], new[i])
<1> DEFINE a == edit.begin
           z == edit.end
           r == Len(edit.replacement)
           p == new[i].rawBegin + 1
<1>1. /\ IsRange(edit, source) /\ Family(source, old) /\ Family(newSource, new)
      /\ ElementsOf(source, old) /\ ElementsOf(newSource, new)
  BY DEF Carries, Family
<1>2. /\ \A j \in 1..Len(old) : HasPlace(old[j])
      /\ \A j \in 1..Len(new) : HasPlace(new[j])
      /\ \A j, g \in 1..Len(new) : j < g <=> new[j].rawBegin < new[g].rawBegin
      /\ \A j, g \in 1..Len(new) : new[j].rawBegin = new[g].rawBegin => j = g
      /\ Len(new) \in Nat
  BY <1>1, ElementsHavePlaces
<1>3. a \in Nat /\ z \in Nat /\ r \in Nat /\ a <= z
  BY <1>1 DEF IsRange
<1>4. /\ i \in 1..Len(new) /\ l \in 1..Len(new)
      /\ Inside(new[i], new[n]) /\ Inside(new[l], new[n])
      /\ \A g \in 1..Len(new) : Inside(new[i], new[g]) => g <= n
  BY DEF Children, Innermost, Above
<1>5. p \in Starts(newSource)
  BY <1>1, <1>4 DEF ElementsOf
<1>6. CASE \E q \in Starts(source) : Moved(a, z, r, q, p)
  BY <1>4, <1>6, MovedTagsSucceed
<1>7. CASE a < p /\ p <= a + r
  <2>1. /\ r > 0 /\ new[i].rawBegin \in Nat
        /\ a <= new[i].rawBegin /\ new[i].rawBegin < a + r
    <3>1. new[i].rawBegin \in Nat
      BY <1>2, <1>4 DEF HasPlace
    <3> HIDE DEF a, r
    <3> QED BY <1>3, <1>7, <3>1
  <2>2. PICK d \in 1..Len(new) : new[d].rawBegin = a /\ new[d].rawEnd = a + r
    BY <2>1 DEF Carries
  <2>3. HasPlace(new[n]) /\ HasPlace(new[l]) /\ HasPlace(old[k]) /\ HasPlace(old[m])
    BY <1>2, <1>4
  <2>4. CASE new[i].rawBegin # a
    <3>1. Inside(new[i], new[d])
      BY <1>3, <2>1, <2>2, <2>4 DEF Inside
    <3>2. d <= n
      BY <1>4, <3>1
    <3>3. a <= new[n].rawBegin
      <4>1. ~(new[n].rawBegin < new[d].rawBegin)
        BY <1>2, <3>2
      <4> QED BY <1>3, <2>2, <2>3, <4>1, SMTT(30) DEF HasPlace
    <3>4. new[n].rawBegin < new[i].rawBegin
      BY <1>4 DEF Inside
    <3>5. Replaces(edit, old[m], new[n])
      <4> DEFINE nb == new[n].rawBegin
                 ib == new[i].rawBegin
      <4>2. nb \in Nat /\ ib \in Nat /\ nb < ib /\ ib < a + r
        BY <2>1, <2>3, <3>4 DEF HasPlace
      <4>1. ~(a + r <= nb)
        <5> HIDE DEF a, r, nb, ib
        <5> QED BY <1>3, <4>2
      <4> QED BY <1>1, <2>3, <3>3, <4>1, NoneSucceedsInside
    <3>6. a < new[l].rawBegin /\ new[l].rawBegin < a + r
      BY <1>4, <3>5 DEF Replaces, Inside
    <3> QED BY <1>1, <2>3, <3>6, NoneSucceedsInside
  <2>5. CASE new[i].rawBegin = a
    <3>1. i = d
      BY <1>2, <1>4, <2>2, <2>5
    <3>2. CASE a < z
      <4>1. PICK j \in 1..Len(old) : old[j].rawBegin = a /\ old[j].rawEnd = z
        BY <3>2 DEF Carries
      <4>2. Replaces(edit, old[j], new[i])
        BY <2>1, <2>2, <3>1, <4>1 DEF Replaces
      <4> QED BY <4>1, <4>2 DEF Succeeds
    <3>3. CASE a = z
      <4>1. PICK j \in 1..Len(old) : ~old[j].selfClosing /\ old[j].valueEnd = a
        BY <3>3 DEF Carries
      <4>2. old[j].rawBegin < a /\ old[j].rawEnd = a + 1 /\ old[j].rawBegin \in Nat
        <5> DEFINE b == old[j]
        <5>1. /\ b.rawBegin \in Nat /\ b.rawEnd \in Nat /\ b.rawBegin < b.rawEnd
              /\ ~b.selfClosing /\ b.valueEnd = a
              /\ b.valueEnd = IF b.selfClosing THEN b.rawEnd ELSE b.rawEnd - 1
              /\ b.selfClosing <=> b.rawEnd = b.rawBegin + 1
          BY <1>1, <4>1 DEF ElementsOf
        <5> HIDE DEF b, a
        <5>2. a = b.rawEnd - 1 /\ b.rawEnd # b.rawBegin + 1
          BY <5>1
        <5>3. b.rawBegin < a /\ b.rawEnd = a + 1
          BY <1>3, <5>1, <5>2, SMTT(30)
        <5> QED BY <5>1, <5>3 DEF b
      <4>3. PICK c \in 1..Len(new) : MovedTo(edit, old[j], new[c])
        <5>1. ~(a <= old[j].rawBegin)
          BY <1>3, <4>2
        <5> QED BY <5>1 DEF Carries
      <4>4. new[c].rawBegin < a /\ new[c].rawEnd > a
        <5>1. Moved(a, z, r, old[j].rawBegin + 1, new[c].rawBegin + 1)
          BY <4>3 DEF MovedTo
        <5>2. Moved(a, z, r, old[j].rawEnd, new[c].rawEnd)
          BY <4>3 DEF MovedTo
        <5>3. new[c].rawBegin \in Nat /\ new[c].rawEnd \in Nat
          BY <1>2 DEF HasPlace
        <5> HIDE DEF a, z, r
        <5>4. new[c].rawBegin < a
          BY <1>3, <3>3, <4>2, <5>1, <5>3, SMTT(30) DEF Moved
        <5>5. new[c].rawEnd > a
          BY <1>3, <3>3, <4>2, <5>2, <5>3 DEF Moved
        <5> QED BY <5>4, <5>5
      <4>5. Inside(new[i], new[c])
        BY <2>5, <4>4 DEF Inside
      <4>6. Inside(new[l], new[c])
        <5>1. CASE n = c
          BY <1>4, <5>1
        <5>2. CASE n # c
          <6>1. c < n
            BY <1>2, <1>4, <4>5, <5>2
          <6>2. new[c].rawBegin < new[n].rawBegin
            BY <1>2, <6>1
          <6>3. new[n].rawBegin < new[c].rawEnd
            <7> DEFINE nb == new[n].rawBegin
                       ce == new[c].rawEnd
            <7>1. nb \in Nat /\ ce \in Nat /\ nb < a /\ a < ce
              BY <1>2, <1>4, <2>3, <2>5, <4>4 DEF Inside, HasPlace
            <7> HIDE DEF a, nb, ce
            <7>2. nb < ce
              BY <1>3, <7>1
            <7> QED BY <7>2 DEF nb, ce
          <6>4. Inside(new[n], new[c])
            BY <6>2, <6>3 DEF Inside
          <6> QED BY <1>1, <1>4, <6>4, InsideIsTransitive
        <5> QED BY <5>1, <5>2
      <4>7. Succeeds(edit, old[j], new[c])
        BY <4>3 DEF Succeeds
      <4>8. Inside(old[k], old[j])
        BY <1>4, <4>6, <4>7, SuccessorsAreMatched
      <4>9. old[k].rawEnd <= a
        BY <1>1, <4>1, <4>8, InsideIsWithin DEF Within
      <4>10. new[l].rawBegin > a
        BY <1>2, <1>4, <2>5
      <4>11. ~Replaces(edit, old[k], new[l])
        BY <1>3, <4>10 DEF Replaces
      <4>12. Moved(a, z, r, old[k].rawBegin + 1, new[l].rawBegin + 1)
        BY <4>11 DEF Succeeds, MovedTo
      <4>13. /\ old[k].rawBegin \in Nat /\ old[k].rawEnd \in Nat
             /\ old[k].rawBegin < old[k].rawEnd /\ new[l].rawBegin \in Nat
        BY <2>3 DEF HasPlace
      <4> DEFINE kb == old[k].rawBegin
                 ke == old[k].rawEnd
                 lb == new[l].rawBegin
      <4>14. /\ kb \in Nat /\ ke \in Nat /\ kb < ke /\ lb \in Nat
             /\ ke <= a /\ lb > a /\ Moved(a, a, r, kb + 1, lb + 1)
        BY <3>3, <4>9, <4>10, <4>12, <4>13
      <4> HIDE DEF a, z, r, kb, ke, lb
      <4> QED BY <1>3, <4>14 DEF Moved
    <3> QED BY <1>3, <3>2, <3>3
  <2> QED BY <2>4, <2>5
<1> QED BY <1>5, <1>6, <1>7 DEF Carries

(* Successors are the children of the successors of their parents.         *)
LEMMA ChildrenAreMatched ==
  ASSUME NEW edit, NEW source, NEW old, NEW newSource, NEW new,
         Carries(edit, source, old, newSource, new),
         NEW m \in 1..Len(old), NEW n \in 1..Len(new), Succeeds(edit, old[m], new[n]),
         NEW k \in 1..Len(old), NEW l \in 1..Len(new), Succeeds(edit, old[k], new[l])
  PROVE  k \in Children(old, m) <=> l \in Children(new, n)
<1>1. Family(source, old) /\ Family(newSource, new)
  BY DEF Carries
<1>2. old[m].id = new[n].id /\ new[l].parentId = old[k].parentId
  BY PlacesStay DEF Carries
<1>3. /\ old[k].parentId = {old[j].id : j \in Innermost(old, k)}
      /\ new[l].parentId = {new[j].id : j \in Innermost(new, l)}
      /\ \A i, j \in 1..Len(old) : old[i].id = old[j].id => i = j
      /\ \A i, j \in 1..Len(new) : new[i].id = new[j].id => i = j
  BY <1>1 DEF Family
<1>4. Innermost(old, k) \subseteq 1..Len(old) /\ Innermost(new, l) \subseteq 1..Len(new)
  BY DEF Innermost, Above
<1>5. m \in Innermost(old, k) <=> old[m].id \in old[k].parentId
  BY <1>3, <1>4
<1>6. n \in Innermost(new, l) <=> new[n].id \in new[l].parentId
  BY <1>3, <1>4
<1> QED BY <1>2, <1>5, <1>6 DEF Children

(* c lists the children of b that are still there, in their order and in   *)
(* front of those whose ids come from next on.                             *)
ChildrenKept(b, c, next, nodes) ==
  LET kept == Range(b.childIds) \cap ids(nodes)
  IN /\ {id \in Range(c.childIds) : id < next} = kept
     /\ \A id \in kept : InFront(c.childIds, id) \subseteq InFront(b.childIds, id)

(* A successor keeps the children that have successors.                    *)
LEMMA ChildrenStay ==
  ASSUME NEW edit, NEW source, NEW old, NEW newSource, NEW new,
         Carries(edit, source, old, newSource, new),
         NEW m \in 1..Len(old), NEW n \in 1..Len(new), Succeeds(edit, old[m], new[n]),
         NEW next,
         \A k \in 1..Len(old) : old[k].id < next,
         \A l \in 1..Len(new) :
           new[l].id < next => \E k \in 1..Len(old) : old[k].id = new[l].id
  PROVE  ChildrenKept(old[m], new[n], next, new)
<1> DEFINE kept == Range(old[m].childIds) \cap ids(new)
<1>1. Family(source, old) /\ Family(newSource, new)
  BY DEF Carries
<1>2. /\ Range(old[m].childIds) = {old[k].id : k \in Children(old, m)}
      /\ Range(new[n].childIds) = {new[l].id : l \in Children(new, n)}
      /\ Children(old, m) \subseteq 1..Len(old) /\ Children(new, n) \subseteq 1..Len(new)
  BY <1>1 DEF Family, Children
<1>3. \A k \in 1..Len(old), l \in 1..Len(new) :
        old[k].id = new[l].id <=> Succeeds(edit, old[k], new[l])
  BY DEF Carries
<1>4. ids(new) = {new[l].id : l \in 1..Len(new)}
  <2>1. DOMAIN new = 1..Len(new)
    BY <1>1 DEF Family, ElementsOf
  <2> QED BY <2>1 DEF ids, Range
<1>5. ASSUME NEW k \in 1..Len(old), NEW l \in 1..Len(new), old[k].id = new[l].id
      PROVE  k \in Children(old, m) <=> l \in Children(new, n)
  BY <1>3, <1>5, ChildrenAreMatched
<1>6. ASSUME NEW id \in Range(new[n].childIds), id < next
      PROVE  id \in kept
  <2>1. PICK l \in Children(new, n) : id = new[l].id
    BY <1>2
  <2>2. PICK k \in 1..Len(old) : old[k].id = new[l].id
    BY <1>2, <1>6, <2>1
  <2>3. k \in Children(old, m)
    BY <1>2, <1>5, <2>2
  <2> QED BY <1>2, <1>4, <2>1, <2>2, <2>3
<1>7. ASSUME NEW id \in kept
      PROVE  \E k \in Children(old, m), l \in Children(new, n) :
               id = old[k].id /\ id = new[l].id
  <2>1. PICK k \in Children(old, m) : id = old[k].id
    BY <1>2
  <2>2. PICK l \in 1..Len(new) : id = new[l].id
    BY <1>4
  <2>3. l \in Children(new, n)
    BY <1>2, <1>5, <2>1, <2>2
  <2> QED BY <2>1, <2>2, <2>3
<1> HIDE DEF kept
<1>8. {id \in Range(new[n].childIds) : id < next} = kept
  <2>1. ASSUME NEW id \in kept
        PROVE  id \in Range(new[n].childIds) /\ id < next
    BY <1>2, <1>7
  <2> QED BY <1>6, <2>1
<1>9. ASSUME NEW id \in kept, NEW x \in InFront(new[n].childIds, id)
      PROVE  x \in InFront(old[m].childIds, id)
  <2>1. PICK k \in Children(old, m), l \in Children(new, n) :
          id = old[k].id /\ id = new[l].id
    BY <1>7
  <2>2. x \in Range(new[n].childIds)
    BY DEF InFront, Range
  <2>3. PICK i \in Children(new, n) : x = new[i].id
    BY <1>2, <2>2
  <2>4. i < l
    BY <1>1, <2>1, <2>3 DEF Family
  <2>5. Succeeds(edit, old[k], new[l])
    BY <1>2, <1>3, <2>1
  <2>6. PICK j \in 1..Len(old) : Succeeds(edit, old[j], new[i])
    BY <1>2, <2>4, <2>5, NewChildrenComeLast
  <2>7. old[j].id = new[i].id /\ j \in Children(old, m)
    BY <1>2, <1>3, <1>5, <2>6
  <2>8. j < k
    BY <1>2, <2>4, <2>5, <2>6, SuccessorsAreMatched
  <2>9. old[j].id \in InFront(old[m].childIds, old[k].id)
    <3>1. \A g, h \in Children(old, m) :
            old[g].id \in InFront(old[m].childIds, old[h].id) <=> g < h
      BY <1>1 DEF Family
    <3> QED BY <2>7, <2>8, <3>1
  <2>10. x = old[j].id /\ id = old[k].id
    BY <2>1, <2>3, <2>7
  <2> QED BY <2>9, <2>10
<1> QED BY <1>8, <1>9 DEF kept, ChildrenKept
-----------------------------------------------------------------------------
(* A document: its nodes are those of its source, under ids that differ    *)
(* and that the counter has passed.                                        *)
TreeSound(doc) ==
  /\ doc.xml \in Seq(TreeToken) /\ Parses(doc.xml, TRUE)
  /\ Len(doc.nodes) = Len(parseNodes(doc.xml))
  /\ doc.nodes =
       remapped(parseNodes(doc.xml), [n \in 1..Len(doc.nodes) |-> doc.nodes[n].id])
  /\ \A m, n \in 1..Len(doc.nodes) : doc.nodes[m].id = doc.nodes[n].id => m = n
  /\ \A n \in 1..Len(doc.nodes) : doc.nodes[n].id \in 1..doc.nextId - 1
  /\ doc.nextId \in 1..MaxId /\ doc.revision \in 0..MaxRevision
  /\ doc.changes = doc.revision

(* A source that parses has a forest.                                      *)
LEMMA ParsedForest ==
  ASSUME NEW T, NEW xml \in Seq(T), Parses(xml, TRUE)
  PROVE  Forest(xml, parseNodes(xml))
  BY ParsedNodes DEF Forest

(* The nodes of a sound document.                                          *)
LEMMA DocumentNodes ==
  ASSUME XmlAssumption, NEW doc, TreeSound(doc)
  PROVE  /\ Family(doc.xml, doc.nodes)
         /\ Len(doc.xml) \in Nat /\ doc.nextId \in Nat /\ Len(doc.nodes) \in Nat
         /\ DOMAIN doc.nodes = 1..Len(doc.nodes)
         /\ Range(doc.nodes) = {doc.nodes[n] : n \in 1..Len(doc.nodes)}
         /\ ids(doc.nodes) = {doc.nodes[n].id : n \in 1..Len(doc.nodes)}
         /\ \A n \in 1..Len(doc.nodes) : HasPlace(doc.nodes[n])
         /\ \A m, n \in 1..Len(doc.nodes) :
              \/ doc.nodes[m].id = doc.nodes[n].id
              \/ doc.nodes[m].rawBegin = doc.nodes[n].rawBegin
              => m = n
<1> DEFINE nodes == doc.nodes
           parsed == parseNodes(doc.xml)
           idOf == [n \in 1..Len(doc.nodes) |-> doc.nodes[n].id]
<1>1. Len(doc.xml) \in Nat /\ doc.nextId \in Nat
  BY DEF TreeSound, XmlAssumption
<1>2. Forest(doc.xml, parsed)
  BY ParsedForest DEF TreeSound
<1>3. /\ Len(nodes) = Len(parsed) /\ nodes = remapped(parsed, idOf)
      /\ \A m, n \in 1..Len(nodes) : nodes[m].id = nodes[n].id => m = n
  BY DEF TreeSound
<1>4. \A m, n \in 1..Len(parsed) : idOf[m] = idOf[n] => m = n
  BY <1>3
<1> HIDE DEF nodes, parsed, idOf
<1>5. Family(doc.xml, nodes)
  BY <1>2, <1>3, <1>4, FamilyOfForest
<1>6. DOMAIN nodes = 1..Len(nodes)
  BY <1>5 DEF Family, ElementsOf
<1>7. /\ Range(nodes) = {nodes[n] : n \in 1..Len(nodes)}
      /\ ids(nodes) = {nodes[n].id : n \in 1..Len(nodes)}
  BY <1>6 DEF ids, Range
<1>8. /\ Len(nodes) \in Nat
      /\ \A n \in 1..Len(nodes) : HasPlace(nodes[n])
      /\ \A m, n \in 1..Len(nodes) : nodes[m].rawBegin = nodes[n].rawBegin => m = n
  BY <1>5, ElementsHavePlaces
<1> QED BY <1>1, <1>3, <1>5, <1>6, <1>7, <1>8 DEF nodes

(* An edit of the editor's operations.  It takes the place of a node or is *)
(* at the end of the content of one, or of a document without any; an      *)
(* element of its replacement is bound to the id of the node it replaces   *)
(* or to the one that the counter gives out next.                          *)
EditFits(doc, edit) ==
  LET a == edit.begin
      z == edit.end
      r == Len(edit.replacement)
      bindings == Range(edit.bindings)
      At(b, begin, end) == b.begin = begin /\ b.end = end
      InPlace(m) == doc.nodes[m].rawBegin = a /\ doc.nodes[m].rawEnd = z
  IN /\ IsRange(edit, doc.xml)
     /\ edit.replacement \in Seq(TreeToken)
     /\ nextXml(doc, edit) # doc.xml
     /\ Allocated(edit) \in Nat
     /\ \A b \in bindings : b.allocate => b.id = doc.nextId /\ Allocated(edit) >= 1
     /\ \A b \in bindings :
          ~b.allocate => /\ a < z /\ At(b, a, a + r)
                         /\ \E m \in 1..Len(doc.nodes) : InPlace(m) /\ doc.nodes[m].id = b.id
     /\ \A b, c \in bindings : At(b, c.begin, c.end) \/ b.id = c.id => b = c
     /\ r > 0 => \E b \in bindings : At(b, a, a + r) /\ (a < z => ~b.allocate)
     /\ a < z => \E m \in 1..Len(doc.nodes) : InPlace(m)
     /\ a = z => \/ Len(doc.nodes) = 0
                 \/ \E m \in 1..Len(doc.nodes) :
                      ~doc.nodes[m].selfClosing /\ doc.nodes[m].valueEnd = a

(* The id that replaced gives to the n-th parsed node. *)
idGiven(doc, edit, n) ==
  LET parsed == parseNodes(nextXml(doc, edit))
      fresh == Fresh(doc, edit, parsed)
  IN IF n \in fresh
       THEN doc.nextId + Allocated(edit) + Cardinality(fresh \cap 1..n - 1)
       ELSE CHOOSE id \in boundIds(edit, parsed[n])
                            \cup carriedIds(doc, edit, parsed[n]) : TRUE

(* An old node is expected where the edit moves its tags to.               *)
LEMMA ExpectedIsMoved ==
  ASSUME NEW edit, NEW source, IsRange(edit, source), NEW b, NEW c,
         HasPlace(b), HasPlace(c)
  PROVE  /\ MovedTo(edit, b, c) => Apart(edit, b)
         /\ Apart(edit, b) =>
              (MovedTo(edit, b, c) <=> expectedRange(b, edit) = <<c.rawBegin, c.rawEnd>>)
<1> DEFINE a == edit.begin
           z == edit.end
           r == Len(edit.replacement)
           f == b.rawBegin
           g == b.rawEnd
           h == c.rawBegin
           i == c.rawEnd
           back(q) == a + r + (q - z)
           around(q) == q - (z - a) + r
           isMoved == MovedTo(edit, b, c)
           apart == Apart(edit, b)
           expected == expectedRange(b, edit) = <<h, i>>
           moved(q, p) == (q <= a /\ p = q) \/ (q > z /\ p = a + r + (q - z))
<1>1. /\ a \in Nat /\ z \in Nat /\ r \in Nat /\ a <= z /\ f \in Nat /\ g \in Nat
      /\ h \in Nat /\ i \in Nat /\ f < g /\ h < i
  BY DEF IsRange, HasPlace
<1>2. isMoved <=> moved(f + 1, h + 1) /\ moved(g, i)
  BY DEF MovedTo, Moved
<1>3. apart <=> (f # a \/ g # z) /\ (g <= a \/ f >= z \/ (f < a /\ g > z))
  BY DEF Apart
<1>4. expected <=>
        IF g <= a THEN h = f /\ i = g
        ELSE IF f >= z THEN h = back(f) /\ i = back(g)
             ELSE h = f /\ i = around(g)
  BY DEF expectedRange, shiftedAfterEdit, expandedAncestorEnd
<1> HIDE DEF a, z, r, f, g, h, i, isMoved, apart, expected
<1> DEFINE claim == (isMoved => apart) /\ (apart => (isMoved <=> expected))
<1>5. moved(f + 1, h + 1) /\ moved(g, i) =>
        (f # a \/ g # z) /\ (g <= a \/ f >= z \/ (f < a /\ g > z))
  BY <1>1
<1>6. ASSUME g <= a
      PROVE  claim
  <2>1. moved(f + 1, h + 1) /\ moved(g, i) <=> h = f /\ i = g
    BY <1>1, <1>6
  <2> QED BY <1>2, <1>3, <1>4, <1>5, <1>6, <2>1
<1>7. ASSUME ~(g <= a), f >= z
      PROVE  claim
  <2>1. moved(f + 1, h + 1) <=> h = back(f)
    BY <1>1, <1>7
  <2>2. moved(g, i) <=> i = back(g)
    BY <1>1, <1>7
  <2> QED BY <1>2, <1>3, <1>4, <1>5, <1>7, <2>1, <2>2
<1>8. ASSUME ~(g <= a), ~(f >= z)
      PROVE  claim
  <2>1. ASSUME f < a, g > z
        PROVE  moved(f + 1, h + 1) /\ moved(g, i) <=> h = f /\ i = around(g)
    <3>1. moved(f + 1, h + 1) <=> h = f
      BY <1>1, <2>1
    <3>2. moved(g, i) <=> i = around(g)
      BY <1>1, <2>1
    <3> QED BY <3>1, <3>2
  <2> QED BY <1>2, <1>3, <1>4, <1>5, <1>8, <2>1
<1>9. claim
  BY <1>6, <1>7, <1>8
<1> QED BY <1>9 DEF isMoved, apart, expected, h, i

(* The old nodes outside the edit are found where their tags went, and     *)
(* only they; those ids are bound to no other.                             *)
LEMMA FoundNodes ==
  ASSUME XmlAssumption, NEW doc, TreeSound(doc), NEW edit, EditFits(doc, edit),
         NEW source, NEW parsed, ElementsOf(source, parsed), AllFound(doc, edit, parsed)
  PROVE  /\ \A m \in 1..Len(doc.nodes) :
              Apart(edit, doc.nodes[m]) =>
                \E n \in 1..Len(parsed) : MovedTo(edit, doc.nodes[m], parsed[n])
         /\ \A m \in 1..Len(doc.nodes), n \in 1..Len(parsed) :
              MovedTo(edit, doc.nodes[m], parsed[n]) =>
                /\ boundIds(edit, parsed[n]) = {}
                /\ doc.nodes[m].id \in carriedIds(doc, edit, parsed[n])
                /\ \A id \in carriedIds(doc, edit, parsed[n]) : id = doc.nodes[m].id
         /\ \A n \in 1..Len(parsed) : \A id \in carriedIds(doc, edit, parsed[n]) :
              \E m \in 1..Len(doc.nodes) :
                id = doc.nodes[m].id /\ MovedTo(edit, doc.nodes[m], parsed[n])
<1> DEFINE old == doc.nodes
           carried(node) == carriedIds(doc, edit, node)
<1>1. /\ Range(old) = {old[m] : m \in 1..Len(old)}
      /\ \A m \in 1..Len(old) : HasPlace(old[m])
      /\ \A m, n \in 1..Len(old) : old[m].id = old[n].id => m = n
      /\ \A m \in 1..Len(old) : old[m].id \in 1..doc.nextId - 1
      /\ doc.nextId \in Nat
  <2>1. \A m, n \in 1..Len(old) : old[m].id = old[n].id => m = n
    BY DEF TreeSound
  <2>2. \A m \in 1..Len(old) : old[m].id \in 1..doc.nextId - 1
    BY DEF TreeSound
  <2> QED BY <2>1, <2>2, DocumentNodes
<1>2. IsRange(edit, doc.xml)
  BY DEF EditFits
<1>3. /\ Range(parsed) = {parsed[n] : n \in 1..Len(parsed)}
      /\ \A n \in 1..Len(parsed) : HasPlace(parsed[n])
      /\ Len(parsed) \in Nat
  BY DEF ElementsOf, Range, HasPlace
<1>4. ASSUME NEW m \in 1..Len(parsed), NEW n \in 1..Len(parsed),
             parsed[m].rawBegin = parsed[n].rawBegin
      PROVE  m = n
  <2>1. m < n <=> parsed[m].rawBegin < parsed[n].rawBegin
    BY DEF ElementsOf
  <2>2. n < m <=> parsed[n].rawBegin < parsed[m].rawBegin
    BY DEF ElementsOf
  <2>3. parsed[m].rawBegin \in Nat /\ parsed[n].rawBegin \in Nat
    BY <1>3 DEF HasPlace
  <2> QED BY <1>3, <1>4, <2>1, <2>2, <2>3
<1>5. Preserved(doc, edit) = {b \in Range(old) : Apart(edit, b)}
  BY DEF Preserved, Apart
<1>6. \A m \in 1..Len(old), n \in 1..Len(parsed) :
        /\ MovedTo(edit, old[m], parsed[n]) => Apart(edit, old[m])
        /\ Apart(edit, old[m]) =>
             (MovedTo(edit, old[m], parsed[n])
               <=> expectedRange(old[m], edit) = <<parsed[n].rawBegin, parsed[n].rawEnd>>)
  BY <1>1, <1>2, <1>3, ExpectedIsMoved
<1>7. ASSUME NEW n \in 1..Len(parsed), NEW id \in carried(parsed[n])
      PROVE  \E m \in 1..Len(old) : id = old[m].id /\ MovedTo(edit, old[m], parsed[n])
  <2>1. PICK b \in Preserved(doc, edit) :
          id = b.id /\ expectedRange(b, edit) = <<parsed[n].rawBegin, parsed[n].rawEnd>>
    BY DEF carriedIds
  <2>2. PICK m \in 1..Len(old) : b = old[m]
    BY <1>1, <1>5, <2>1
  <2>3. Apart(edit, old[m])
    BY <1>5, <2>1, <2>2
  <2> QED BY <1>6, <2>1, <2>2, <2>3
<1>8. ASSUME NEW m \in 1..Len(old), Apart(edit, old[m])
      PROVE  \E n \in 1..Len(parsed) :
               /\ MovedTo(edit, old[m], parsed[n])
               /\ boundIds(edit, parsed[n]) = {}
               /\ carried(parsed[n]) = {old[m].id}
  <2>1. old[m] \in Preserved(doc, edit)
    BY <1>1, <1>5, <1>8
  <2>2. PICK node \in Range(parsed) :
          /\ old[m].id \in carried(node) /\ boundIds(edit, node) = {}
          /\ Cardinality(carried(node)) = 1
    BY <2>1 DEF AllFound
  <2>3. PICK n \in 1..Len(parsed) : node = parsed[n]
    BY <1>3
  <2> HIDE DEF carried
  <2>4. MovedTo(edit, old[m], parsed[n])
    <3>1. PICK k \in 1..Len(old) :
            old[m].id = old[k].id /\ MovedTo(edit, old[k], parsed[n])
      BY <1>7, <2>2, <2>3
    <3> QED BY <1>1, <3>1
  <2>5. carried(node) = {old[m].id}
    <3>1. carried(node) \subseteq 1..doc.nextId - 1
      <4>1. ASSUME NEW id \in carried(node)
            PROVE  id \in 1..doc.nextId - 1
        <5>1. PICK k \in 1..Len(old) : id = old[k].id
          BY <1>7, <2>3
        <5> QED BY <1>1, <5>1
      <4> QED BY <4>1
    <3>2. IsFiniteSet(carried(node))
      <4>1. IsFiniteSet(1..doc.nextId - 1)
        BY <1>1, FS_Interval
      <4> QED BY <3>1, <4>1, FS_Subset
    <3>3. PICK x : carried(node) = {x}
      BY <2>2, <3>2, FS_Singleton
    <3> QED BY <2>2, <3>3
  <2> QED BY <2>2, <2>3, <2>4, <2>5
<1>9. ASSUME NEW m \in 1..Len(old), NEW n \in 1..Len(parsed),
             MovedTo(edit, old[m], parsed[n])
      PROVE  boundIds(edit, parsed[n]) = {} /\ carried(parsed[n]) = {old[m].id}
  <2>1. Apart(edit, old[m])
    BY <1>6, <1>9
  <2>2. PICK k \in 1..Len(parsed) :
          /\ MovedTo(edit, old[m], parsed[k])
          /\ boundIds(edit, parsed[k]) = {} /\ carried(parsed[k]) = {old[m].id}
    BY <1>8, <2>1
  <2>3. <<parsed[n].rawBegin, parsed[n].rawEnd>> = <<parsed[k].rawBegin, parsed[k].rawEnd>>
    BY <1>6, <1>9, <2>1, <2>2
  <2>4. k = n
    BY <1>4, <2>3
  <2> QED BY <2>2, <2>4
<1>10. \A m \in 1..Len(old) :
         Apart(edit, old[m]) => \E n \in 1..Len(parsed) : MovedTo(edit, old[m], parsed[n])
  BY <1>8
<1>11. \A m \in 1..Len(old), n \in 1..Len(parsed) :
         MovedTo(edit, old[m], parsed[n]) =>
           /\ boundIds(edit, parsed[n]) = {}
           /\ old[m].id \in carried(parsed[n])
           /\ \A id \in carried(parsed[n]) : id = old[m].id
  BY <1>9
<1> QED BY <1>7, <1>10, <1>11

(* The ids of an edited document: those of the nodes that its nodes        *)
(* succeed, and new ones, no two the same.                                 *)
LEMMA GivenIds ==
  ASSUME XmlAssumption, NEW doc, TreeSound(doc), NEW edit, EditFits(doc, edit),
         NEW parsed, parsed = parseNodes(nextXml(doc, edit)),
         ElementsOf(nextXml(doc, edit), parsed), AllFound(doc, edit, parsed),
         NEW taken, taken = Cardinality(Fresh(doc, edit, parsed))
  PROVE  LET old == doc.nodes
             N == 1..Len(parsed)
             given(n) == idGiven(doc, edit, n)
         IN /\ taken \in Nat
            /\ \A n \in N : given(n) \in Nat /\ given(n) >= 1
                            /\ given(n) < doc.nextId + Allocated(edit) + taken
            /\ \A n \in N : given(n) < doc.nextId => \E m \in 1..Len(old) : old[m].id = given(n)
            /\ \A m \in 1..Len(old), n \in N :
                 old[m].id = given(n) <=> Succeeds(edit, old[m], parsed[n])
            /\ \A m, n \in N : given(m) = given(n) => m = n
<1>0. /\ \A m \in 1..Len(doc.nodes), n \in 1..Len(parsed) :
           MovedTo(edit, doc.nodes[m], parsed[n]) =>
             /\ boundIds(edit, parsed[n]) = {}
             /\ carriedIds(doc, edit, parsed[n]) = {doc.nodes[m].id}
      /\ \A n \in 1..Len(parsed) : \A id \in carriedIds(doc, edit, parsed[n]) :
           \E m \in 1..Len(doc.nodes) :
             id = doc.nodes[m].id /\ MovedTo(edit, doc.nodes[m], parsed[n])
  <2> DEFINE source == nextXml(doc, edit)
             found == parsed
  <2>1. ElementsOf(source, found) /\ AllFound(doc, edit, found)
    OBVIOUS
  <2> HIDE DEF source, found
  <2>2. \A i \in 1..Len(doc.nodes), j \in 1..Len(found) :
          MovedTo(edit, doc.nodes[i], found[j]) =>
            /\ boundIds(edit, found[j]) = {}
            /\ carriedIds(doc, edit, found[j]) = {doc.nodes[i].id}
    <3> SUFFICES ASSUME NEW i \in 1..Len(doc.nodes), NEW j \in 1..Len(found),
                        MovedTo(edit, doc.nodes[i], found[j])
                 PROVE  /\ boundIds(edit, found[j]) = {}
                        /\ carriedIds(doc, edit, found[j]) = {doc.nodes[i].id}
      OBVIOUS
    <3>1. boundIds(edit, found[j]) = {}
      BY <2>1, FoundNodes
    <3>2. doc.nodes[i].id \in carriedIds(doc, edit, found[j])
      BY <2>1, FoundNodes
    <3>3. \A id \in carriedIds(doc, edit, found[j]) : id = doc.nodes[i].id
      BY <2>1, FoundNodes
    <3> QED BY <3>1, <3>2, <3>3
  <2>3. \A j \in 1..Len(found) : \A id \in carriedIds(doc, edit, found[j]) :
          \E i \in 1..Len(doc.nodes) :
            id = doc.nodes[i].id /\ MovedTo(edit, doc.nodes[i], found[j])
    BY <2>1, FoundNodes
  <2> QED BY <2>2, <2>3 DEF found
<1> DEFINE old == doc.nodes
           N == 1..Len(parsed)
           fresh == Fresh(doc, edit, parsed)
           given(n) == idGiven(doc, edit, n)
           next == doc.nextId
           first == doc.nextId + Allocated(edit)
           a == edit.begin
           z == edit.end
           r == Len(edit.replacement)
           bound(n) == boundIds(edit, parsed[n])
           carried(n) == carriedIds(doc, edit, parsed[n])
           bindings == Range(edit.bindings)
           at(b, n) == b.begin = parsed[n].rawBegin /\ b.end = parsed[n].rawEnd
           inPlace(m) == old[m].rawBegin = a /\ old[m].rawEnd = z
           moved(m, n) == MovedTo(edit, old[m], parsed[n])
           replaces(m, n) == Replaces(edit, old[m], parsed[n])
<1>1. /\ \A m \in 1..Len(old) : HasPlace(old[m])
      /\ \A m, n \in 1..Len(old) :
           old[m].id = old[n].id \/ old[m].rawBegin = old[n].rawBegin => m = n
      /\ next \in Nat /\ Len(old) \in Nat
  BY DocumentNodes
<1>2. /\ \A m \in 1..Len(old) : old[m].id \in 1..next - 1
      /\ next >= 1
  BY DEF TreeSound, XmlAssumption
<1>3. IsRange(edit, doc.xml)
  BY DEF EditFits
<1>4. /\ \A n \in N : HasPlace(parsed[n])
      /\ Len(parsed) \in Nat
      /\ \A m, n \in N : m < n <=> parsed[m].rawBegin < parsed[n].rawBegin
  BY DEF ElementsOf, HasPlace
<1>5. \A m, n \in N : parsed[m].rawBegin = parsed[n].rawBegin => m = n
  <2>1. ASSUME NEW m \in N, NEW n \in N, parsed[m].rawBegin = parsed[n].rawBegin
        PROVE  m = n
    <3>1. ~(m < n) /\ ~(n < m)
      BY <1>4, <2>1 DEF HasPlace
    <3> QED BY <1>4, <3>1
  <2> QED BY <2>1
<1>6. /\ \A m \in 1..Len(old), n \in N :
           moved(m, n) => bound(n) = {} /\ carried(n) = {old[m].id}
      /\ \A n \in N : \A id \in carried(n) :
           \E m \in 1..Len(old) : id = old[m].id /\ moved(m, n)
  BY <1>0
<1>7. \A n \in N : \A id : id \in bound(n) <=> \E b \in bindings : at(b, n) /\ id = b.id
  BY DEF boundIds
<1>8. /\ Allocated(edit) \in Nat
      /\ \A b \in bindings : b.allocate => b.id = next /\ Allocated(edit) >= 1
      /\ \A b \in bindings :
           ~b.allocate => /\ a < z /\ b.begin = a /\ b.end = a + r
                          /\ \E m \in 1..Len(old) : inPlace(m) /\ old[m].id = b.id
  BY DEF EditFits
<1>9. /\ \A b, c \in bindings : b.id = c.id => b = c
      /\ \A b, c \in bindings : b.begin = c.begin /\ b.end = c.end => b = c
      /\ r > 0 => \E b \in bindings : b.begin = a /\ b.end = a + r /\ (a < z => ~b.allocate)
  BY DEF EditFits
<1>10. /\ \A n \in N : n \in fresh <=> bound(n) \cup carried(n) = {}
       /\ fresh \subseteq N
  BY DEF Fresh
<1>11. /\ taken \in Nat
       /\ \A n \in fresh : Cardinality(fresh \cap 1..n - 1) \in 0..taken - 1
       /\ \A m, n \in fresh : m < n =>
            Cardinality(fresh \cap 1..m - 1) # Cardinality(fresh \cap 1..n - 1)
  <2>1. fresh \subseteq 1..Len(parsed)
    BY <1>10
  <2>2. taken = Cardinality(fresh)
    OBVIOUS
  <2> DEFINE length == Len(parsed)
             before(n) == Cardinality(fresh \cap 1..n - 1)
  <2>3. length \in Nat
    BY <1>4
  <2> HIDE DEF fresh, length
  <2>4. fresh \in SUBSET (1..length)
    BY <2>1 DEF length
  <2>5. Cardinality(fresh) \in Nat
    BY <2>3, <2>4, EveryRankIsTaken
  <2>6. \A n \in fresh : before(n) \in 0..Cardinality(fresh) - 1
    BY <2>3, <2>4, CountInFrontDiffers
  <2>7. \A m, n \in fresh : m < n => before(m) # before(n)
    BY <2>3, <2>4, CountInFrontDiffers
  <2> QED BY <2>2, <2>5, <2>6, <2>7
<1> DEFINE count(n) == Cardinality(fresh \cap 1..n - 1)
<1>12. \A n \in fresh : given(n) = first + count(n)
  BY DEF idGiven
<1>13. \A n \in N : n \notin fresh => given(n) \in bound(n) \cup carried(n)
  <2> SUFFICES ASSUME NEW n \in N, n \notin fresh
               PROVE  given(n) \in bound(n) \cup carried(n)
    OBVIOUS
  <2>1. given(n) = CHOOSE id \in bound(n) \cup carried(n) : TRUE
    BY DEF idGiven
  <2>2. bound(n) \cup carried(n) # {}
    BY <1>10
  <2> HIDE DEF given, bound, carried
  <2> QED BY <2>1, <2>2
<1> HIDE DEF fresh, given, bound, carried, count, N, old, a, z, r, next
<1>14. first \in Nat /\ first >= next
  BY <1>1, <1>8 DEF next
<1> HIDE DEF first
(* What a new id is, and that it is none of the old ones. *)
<1>15. ASSUME NEW n \in N, n \in fresh
       PROVE  given(n) \in Nat /\ given(n) >= next /\ given(n) < first + taken
  <2>1. count(n) \in 0..taken - 1 /\ given(n) = first + count(n)
    BY <1>11, <1>12, <1>15 DEF count
  <2>2. taken \in Nat /\ first \in Nat /\ next \in Nat /\ first >= next
    BY <1>1, <1>11, <1>14
  <2>3. count(n) \in Nat /\ count(n) < taken
    BY <2>1, <2>2
  <2> QED BY <2>1, <2>2, <2>3
<1>16. ASSUME NEW n \in N, NEW b \in bindings, at(b, n), given(n) = b.id
       PROVE  /\ b.allocate => given(n) = next /\ next < first
              /\ ~b.allocate => \E m \in 1..Len(old) :
                                  old[m].id = given(n) /\ replaces(m, n)
  <2>1. ASSUME b.allocate
        PROVE  given(n) = next /\ next < first
    BY <1>1, <1>8, <1>16, <2>1 DEF first, next
  <2>2. ASSUME ~b.allocate
        PROVE  \E m \in 1..Len(old) : old[m].id = given(n) /\ replaces(m, n)
    <3>1. PICK m \in 1..Len(old) : inPlace(m) /\ old[m].id = b.id
      BY <1>8, <2>2
    <3>2. parsed[n].rawBegin = a /\ parsed[n].rawEnd = a + r
      BY <1>8, <1>16, <2>2
    <3>3. r > 0
      <4>1. a \in Nat /\ r \in Nat /\ a < a + r
        BY <1>3, <1>4, <3>2 DEF HasPlace, IsRange, a, r
      <4> QED BY <4>1
    <3>4. replaces(m, n)
      BY <3>1, <3>2, <3>3 DEF Replaces, a, z, r
    <3> QED BY <1>16, <3>1, <3>4
  <2> QED BY <2>1, <2>2
<1>17. ASSUME NEW n \in N, n \notin fresh
       PROVE  \/ \E m \in 1..Len(old) :
                   old[m].id = given(n) /\ (moved(m, n) \/ replaces(m, n))
              \/ /\ given(n) = next /\ next < first
                 /\ \E b \in bindings : at(b, n) /\ b.allocate /\ given(n) = b.id
  <2>1. CASE given(n) \in carried(n)
    BY <1>6, <2>1
  <2>2. CASE given(n) \in bound(n)
    <3>1. PICK b \in bindings : at(b, n) /\ given(n) = b.id
      BY <1>7, <2>2
    <3> HIDE DEF at, replaces
    <3> QED BY <1>16, <3>1
  <2> QED BY <1>13, <1>17, <2>1, <2>2
<1>18. ASSUME NEW m \in 1..Len(old), NEW n \in N, old[m].id = given(n)
       PROVE  moved(m, n) \/ replaces(m, n)
  <2>1. old[m].id \in Nat /\ old[m].id < next
    BY <1>1, <1>2
  <2>2. n \notin fresh
    BY <1>1, <1>15, <1>18, <2>1
  <2>3. given(n) # next
    BY <1>1, <1>18, <2>1
  <2>4. PICK k \in 1..Len(old) : old[k].id = given(n) /\ (moved(k, n) \/ replaces(k, n))
    BY <1>17, <2>2, <2>3
  <2>5. k = m
    BY <1>1, <1>18, <2>4
  <2> QED BY <2>4, <2>5
<1>19. ASSUME NEW m \in 1..Len(old), NEW n \in N, moved(m, n)
       PROVE  old[m].id = given(n)
  <2>1. bound(n) = {} /\ carried(n) = {old[m].id}
    BY <1>6, <1>19
  <2>2. n \notin fresh
    BY <1>10, <2>1
  <2> QED BY <1>13, <2>1, <2>2
<1>20. ASSUME NEW m \in 1..Len(old), NEW n \in N, replaces(m, n)
       PROVE  old[m].id = given(n)
  <2>1. /\ old[m].rawBegin = a /\ old[m].rawEnd = z /\ r > 0 /\ a < z
        /\ parsed[n].rawBegin = a /\ parsed[n].rawEnd = a + r
    <3>1. HasPlace(old[m])
      BY <1>1
    <3> QED BY <1>20, <3>1 DEF Replaces, a, z, r, HasPlace
  <2>2. PICK b \in bindings : b.begin = a /\ b.end = a + r /\ ~b.allocate
    BY <1>9, <2>1
  <2>3. at(b, n)
    BY <2>1, <2>2
  <2>4. PICK k \in 1..Len(old) : inPlace(k) /\ old[k].id = b.id
    BY <1>8, <2>2
  <2>5. k = m
    BY <1>1, <2>1, <2>4
  <2>6. b.id \in bound(n)
    BY <1>7, <2>3
  <2>7. n \notin fresh
    BY <1>10, <2>6
  <2>8. carried(n) = {}
    BY <1>6, <2>6
  <2>9. PICK c \in bindings : at(c, n) /\ given(n) = c.id
    BY <1>7, <1>13, <2>7, <2>8
  <2>10. c = b
    BY <1>9, <2>3, <2>9
  <2> QED BY <2>4, <2>5, <2>9, <2>10
<1>21. ASSUME NEW m \in 1..Len(old), NEW n \in N
       PROVE  old[m].id = given(n) <=> Succeeds(edit, old[m], parsed[n])
  BY <1>18, <1>19, <1>20 DEF Succeeds
<1>22. ASSUME NEW n \in N
       PROVE  /\ given(n) \in Nat /\ given(n) >= 1 /\ given(n) < first + taken
              /\ given(n) < next => \E m \in 1..Len(old) : old[m].id = given(n)
  <2>1. CASE n \in fresh
    BY <1>1, <1>2, <1>15, <2>1
  <2>2. CASE \E m \in 1..Len(old) : old[m].id = given(n)
    <3>1. given(n) \in 1..next - 1
      BY <1>2, <2>2
    <3> QED BY <1>1, <1>11, <1>14, <2>2, <3>1
  <2>3. CASE given(n) = next /\ next < first
    BY <1>1, <1>2, <1>11, <1>14, <2>3
  <2> QED BY <1>17, <2>1, <2>2, <2>3
<1>23. ASSUME NEW m \in N, NEW n \in N, given(m) = given(n)
       PROVE  m = n
  <2>1. CASE m \in fresh /\ n \in fresh
    <3>1. count(m) \in Nat /\ count(n) \in Nat /\ first + count(m) = first + count(n)
      BY <1>11, <1>12, <1>23, <2>1 DEF count
    <3>2. count(m) = count(n)
      BY <1>14, <3>1
    <3>3. ~(m < n) /\ ~(n < m)
      BY <1>11, <2>1, <3>2 DEF count
    <3> QED BY <1>4, <3>3 DEF N
  <2>2. ASSUME NEW k \in N, k \in fresh, NEW l \in N, l \notin fresh
        PROVE  given(k) # given(l)
    <3>1. given(k) \in Nat /\ given(k) >= first
      <4>1. count(k) \in 0..taken - 1 /\ given(k) = first + count(k)
        BY <1>11, <1>12, <2>2 DEF count
      <4>2. taken \in Nat /\ first \in Nat
        BY <1>11, <1>14
      <4>3. count(k) \in Nat
        BY <4>1, <4>2
      <4> QED BY <4>1, <4>2, <4>3
    <3>2. given(l) \in Nat /\ given(l) < first
      <4>1. CASE \E i \in 1..Len(old) : old[i].id = given(l)
        <5>1. given(l) \in 1..next - 1
          BY <1>2, <4>1
        <5> QED BY <1>1, <1>14, <5>1
      <4>2. CASE given(l) = next /\ next < first
        BY <1>1, <4>2
      <4> QED BY <1>17, <2>2, <4>1, <4>2
    <3> QED BY <1>14, <3>1, <3>2
  <2>3. ASSUME NEW i \in 1..Len(old), old[i].id = given(m)
        PROVE  m = n
    <3>1. Succeeds(edit, old[i], parsed[m]) /\ Succeeds(edit, old[i], parsed[n])
      BY <1>21, <1>23, <2>3
    <3>2. /\ ~(parsed[m].rawBegin < parsed[n].rawBegin)
          /\ ~(parsed[n].rawBegin < parsed[m].rawBegin)
      <4>1. ~(old[i].rawBegin < old[i].rawBegin)
        BY <1>1 DEF HasPlace
      <4> QED BY <1>1, <1>3, <1>4, <3>1, <4>1, SuccessorsKeepOrder
    <3> QED BY <1>4, <3>2 DEF N
  <2>4. CASE m \notin fresh /\ n \notin fresh
    <3>1. CASE \E i \in 1..Len(old) : old[i].id = given(m)
      BY <2>3, <3>1
    <3>2. CASE ~\E i \in 1..Len(old) : old[i].id = given(m)
      <4>1. PICK b \in bindings : at(b, m) /\ given(m) = b.id
        BY <1>17, <2>4, <3>2
      <4>2. PICK c \in bindings : at(c, n) /\ given(n) = c.id
        BY <1>17, <1>23, <2>4, <3>2
      <4>3. b = c
        BY <1>9, <1>23, <4>1, <4>2
      <4> QED BY <1>5, <4>1, <4>2, <4>3
    <3> QED BY <3>1, <3>2
  <2> QED BY <1>23, <2>1, <2>2, <2>4
<1> QED BY <1>11, <1>21, <1>22, <1>23 DEF old, N, given, next, first

(* An opening tag of the edited source is one of the source, moved, or is  *)
(* in the replacement.                                                     *)
LEMMA StartsMove ==
  ASSUME NEW T, NEW t, NEW s \in Seq(T), NEW R \in Seq(T), NEW a \in Nat, NEW z \in Nat,
         a <= z, z <= Len(s), IsSplice(T, t, s, a, z, R), NEW p \in Starts(t)
  PROVE  \/ \E q \in Starts(s) : Moved(a, z, Len(R), q, p)
         \/ a < p /\ p <= a + Len(R)
<1> DEFINE r == Len(R)
           l == Len(s)
           opens(token) == token.kind \in {"open", "void"}
<1>1. /\ p \in 1..Len(t) /\ opens(t[p])
      /\ \A q \in 1..l : opens(s[q]) => q \in Starts(s)
  BY DEF Starts, Positions
<1>2. r \in Nat /\ l \in Nat
  OBVIOUS
<1>3. /\ Len(t) = a + r + (l - z)
      /\ \A q \in 1..a : t[q] = s[q]
      /\ \A q \in z + 1..l : t[a + r + (q - z)] = s[q]
  BY DEF IsSplice
<1> HIDE DEF r, l, opens
<1>4. p \in Nat /\ p >= 1 /\ p <= a + r + (l - z) /\ z <= l
  BY <1>1, <1>2, <1>3 DEF l
<1>5. CASE p <= a
  <2>1. p \in 1..a /\ p \in 1..l
    BY <1>2, <1>4, <1>5
  <2>2. p \in Starts(s)
    BY <1>1, <1>3, <2>1
  <2> QED BY <1>5, <2>2 DEF Moved
<1>6. CASE a < p /\ p <= a + r
  BY <1>6 DEF r
<1>7. CASE p > a + r
  <2> DEFINE q == p - (a + r) + z
  <2>1. q \in z + 1..l /\ q \in 1..l /\ a + r + (q - z) = p /\ q > z
    BY <1>2, <1>4, <1>7
  <2> HIDE DEF q
  <2>2. q \in Starts(s)
    BY <1>1, <1>3, <2>1
  <2>3. Moved(a, z, r, q, p)
    BY <2>1 DEF Moved
  <2> QED BY <2>2, <2>3 DEF r
<1> QED BY <1>2, <1>4, <1>5, <1>6, <1>7

(* What an accepted edit makes of a document: a sound one, that carries    *)
(* its nodes over and gives ids that were not given out before.            *)
Edited(doc, edit, after) ==
  /\ after.xml = nextXml(doc, edit)
  /\ IsSplice(TreeToken, after.xml, doc.xml, edit.begin, edit.end, edit.replacement)
  /\ after.revision = doc.revision + 1
  /\ TreeSound(after)
  /\ Carries(edit, doc.xml, doc.nodes, after.xml, after.nodes)
  /\ \A n \in 1..Len(after.nodes) :
       after.nodes[n].id < doc.nextId =>
         \E m \in 1..Len(doc.nodes) : doc.nodes[m].id = after.nodes[n].id

(* replaceRange keeps the document sound. *)
LEMMA ReplacedIsEdited ==
  ASSUME XmlAssumption, NEW doc, TreeSound(doc), NEW edit, EditFits(doc, edit),
         CanReplace(doc, edit)
  PROVE  Edited(doc, edit, replaced(doc, edit))
<1> DEFINE old == doc.nodes
           source == nextXml(doc, edit)
           parsed == parseNodes(source)
           N == Len(parsed)
           fresh == Fresh(doc, edit, parsed)
           taken == Cardinality(fresh)
           first == doc.nextId + Allocated(edit)
           given(n) == idGiven(doc, edit, n)
           idOf == [n \in 1..N |-> given(n)]
           new == remapped(parsed, idOf)
           after == replaced(doc, edit)
           a == edit.begin
           z == edit.end
           R == edit.replacement
           r == Len(R)
<1>1. /\ doc.revision < MaxRevision
      /\ Parses(source, TRUE) /\ CutsNoNode(doc, edit) /\ AllFound(doc, edit, parsed)
      /\ Allocated(edit) + taken > 0 => doc.nextId + (Allocated(edit) + taken) <= MaxId
  BY DEF CanReplace
<1>2. /\ IsRange(edit, doc.xml) /\ R \in Seq(TreeToken) /\ source # doc.xml
      /\ Allocated(edit) \in Nat
  BY DEF EditFits
<1>3. /\ doc.xml \in Seq(TreeToken) /\ doc.nextId \in 1..MaxId
      /\ doc.revision \in 0..MaxRevision /\ doc.changes = doc.revision
      /\ \A m \in 1..Len(old) : old[m].id \in 1..doc.nextId - 1
      /\ MaxId \in Nat /\ MaxRevision \in Nat
  BY DEF TreeSound, XmlAssumption
<1>4. IsSplice(TreeToken, source, doc.xml, a, z, R)
  BY <1>2, <1>3, SplicedParts DEF nextXml, Spliced, IsRange
<1>5. source \in Seq(TreeToken)
  BY <1>4 DEF IsSplice
<1>6. Forest(source, parsed)
  BY <1>1, <1>5, ParsedForest
<1>7. ElementsOf(source, parsed) /\ N \in Nat
  BY <1>6 DEF Forest, ElementsOf
<1>8. after = [xml |-> source, nodes |-> new, nextId |-> first + taken,
               revision |-> doc.revision + 1, changes |-> doc.changes + 1]
  BY <1>2 DEF replaced, idGiven
<1>9. /\ taken \in Nat
      /\ \A n \in 1..N : given(n) \in Nat /\ given(n) >= 1 /\ given(n) < first + taken
      /\ \A n \in 1..N : given(n) < doc.nextId => \E m \in 1..Len(old) : old[m].id = given(n)
      /\ \A m \in 1..Len(old), n \in 1..N :
           old[m].id = given(n) <=> Succeeds(edit, old[m], parsed[n])
      /\ \A m, n \in 1..N : given(m) = given(n) => m = n
  <2>1. /\ parsed = parseNodes(nextXml(doc, edit))
        /\ ElementsOf(nextXml(doc, edit), parsed) /\ AllFound(doc, edit, parsed)
        /\ taken = Cardinality(Fresh(doc, edit, parsed))
    BY <1>1, <1>7
  <2> HIDE DEF source, parsed, fresh, taken
  <2>2. taken \in Nat
    BY <2>1, GivenIds
  <2>3. \A n \in 1..N : given(n) \in Nat /\ given(n) >= 1 /\ given(n) < first + taken
    BY <2>1, GivenIds
  <2>4. \A n \in 1..N :
          given(n) < doc.nextId => \E m \in 1..Len(old) : old[m].id = given(n)
    BY <2>1, GivenIds, SMTT(30)
  <2>5. \A m \in 1..Len(old), n \in 1..N :
          old[m].id = given(n) <=> Succeeds(edit, old[m], parsed[n])
    BY <2>1, GivenIds
  <2>6. \A m, n \in 1..N : given(m) = given(n) => m = n
    BY <2>1, GivenIds
  <2> QED BY <2>2, <2>3, <2>4, <2>5, <2>6
<1>10. /\ \A m \in 1..Len(old) :
            Apart(edit, old[m]) => \E n \in 1..N : MovedTo(edit, old[m], parsed[n])
       /\ \A m \in 1..Len(old) :
            Apart(edit, old[m]) \/ (a <= old[m].rawBegin /\ old[m].rawEnd <= z)
  <2>1. \A m \in 1..Len(old) :
            Apart(edit, old[m]) => \E n \in 1..N : MovedTo(edit, old[m], parsed[n])
    <3> HIDE DEF source, parsed
    <3> QED BY <1>1, <1>7, FoundNodes
  <2>2. ASSUME NEW m \in 1..Len(old), ~Apart(edit, old[m])
        PROVE  a <= old[m].rawBegin /\ old[m].rawEnd <= z
    <3>1. old[m] \in Range(old) \ Preserved(doc, edit)
      <4>1. old[m] \in Range(old)
        BY DocumentNodes
      <4> QED BY <2>2, <4>1 DEF Preserved, Apart
    <3> QED BY <1>1, <3>1 DEF CutsNoNode
  <2> QED BY <2>1, <2>2
<1>11. \A p \in Starts(source) :
         (\E q \in Starts(doc.xml) : Moved(a, z, r, q, p)) \/ (a < p /\ p <= a + r)
  <2> HIDE DEF source
  <2> QED BY <1>2, <1>3, <1>4, StartsMove DEF IsRange
<1>12. \A m, n \in 1..N : idOf[m] = idOf[n] => m = n
  BY <1>9
<1> HIDE DEF source, parsed, idOf, new, first, taken, given
<1>13. SamePlaces(new, parsed) /\ Relabelled(new, parsed, idOf)
       /\ new = remapped(parsed, [n \in 1..Len(new) |-> new[n].id])
  BY <1>6, RemappedNodes DEF new
<1>14. Family(source, new)
  BY <1>6, <1>12, FamilyOfForest DEF new
<1>15. /\ Len(new) = N
       /\ \A n \in 1..N : new[n].id = given(n)
       /\ \A n \in 1..N : /\ new[n].rawBegin = parsed[n].rawBegin
                          /\ new[n].rawEnd = parsed[n].rawEnd
  BY <1>13 DEF SamePlaces, Relabelled, idOf
<1>16. ASSUME NEW n \in 1..N, NEW b
       PROVE  /\ MovedTo(edit, b, new[n]) <=> MovedTo(edit, b, parsed[n])
              /\ Succeeds(edit, b, new[n]) <=> Succeeds(edit, b, parsed[n])
  BY <1>15 DEF MovedTo, Succeeds, Replaces
<1>17. Carries(edit, doc.xml, old, source, new)
  <2>1. Family(doc.xml, old)
    BY DocumentNodes
  <2>2. \A m \in 1..Len(old), n \in 1..Len(new) :
          old[m].id = new[n].id <=> Succeeds(edit, old[m], new[n])
    BY <1>9, <1>15, <1>16
  <2>3. \A m \in 1..Len(old) :
          \/ \E n \in 1..Len(new) : MovedTo(edit, old[m], new[n])
          \/ a <= old[m].rawBegin /\ old[m].rawEnd <= z
    BY <1>10, <1>15, <1>16
  <2>4. ASSUME r > 0
        PROVE  \E n \in 1..Len(new) : new[n].rawBegin = a /\ new[n].rawEnd = a + r
    <3>1. PICK b \in Range(edit.bindings) : b.begin = a /\ b.end = a + r
      BY <2>4 DEF EditFits
    <3>2. PICK node \in Range(parsed) : b.begin = node.rawBegin /\ b.end = node.rawEnd
      BY <1>1 DEF AllFound
    <3>3. PICK n \in 1..N : node = parsed[n]
      BY <1>7 DEF ElementsOf, Range
    <3> QED BY <1>15, <3>1, <3>2, <3>3
  <2>5. a < z => \E m \in 1..Len(old) : old[m].rawBegin = a /\ old[m].rawEnd = z
    BY DEF EditFits
  <2>6. a = z => \/ Len(old) = 0
                 \/ \E m \in 1..Len(old) : ~old[m].selfClosing /\ old[m].valueEnd = a
    BY DEF EditFits
  <2> QED BY <1>2, <1>11, <1>14, <2>1, <2>2, <2>3, <2>4, <2>5, <2>6 DEF Carries
<1>18. first + taken \in 1..MaxId
  <2>1. first + taken = doc.nextId + (Allocated(edit) + taken) /\ first + taken \in Nat
    BY <1>2, <1>3, <1>9 DEF first
  <2>2. CASE Allocated(edit) + taken > 0
    BY <1>1, <1>3, <2>1, <2>2, <1>2, <1>9
  <2>3. CASE ~(Allocated(edit) + taken > 0)
    <3>1. Allocated(edit) + taken = 0
      BY <1>2, <1>9, <2>3
    <3> QED BY <1>3, <2>1, <3>1
  <2> QED BY <2>2, <2>3
<1>19. \A n \in 1..N : given(n) \in 1..(first + taken) - 1
  BY <1>3, <1>9, <1>18
<1> DEFINE last == first + taken
<1>20. /\ last \in 1..MaxId
       /\ \A n \in 1..N : given(n) \in 1..last - 1
       /\ after = [xml |-> source, nodes |-> new, nextId |-> last,
               revision |-> doc.revision + 1, changes |-> doc.changes + 1]
  BY <1>8, <1>18, <1>19
<1> HIDE DEF last, after
<1>21. TreeSound(after)
  <2>1. /\ after.xml = source /\ after.nodes = new /\ after.nextId = last
        /\ after.revision = doc.revision + 1 /\ after.changes = doc.changes + 1
    BY <1>20
  <2>2. after.revision \in 0..MaxRevision /\ after.changes = after.revision
    BY <1>1, <1>3, <2>1
  <2>3. parseNodes(after.xml) = parsed
    BY <2>1 DEF parsed
  <2>4. \A m, n \in 1..Len(new) : new[m].id = new[n].id => m = n
    BY <1>9, <1>15
  <2>5. \A n \in 1..Len(new) : new[n].id \in 1..last - 1
    BY <1>15, <1>20
  <2> QED BY <1>1, <1>5, <1>13, <1>15, <1>20, <2>1, <2>2, <2>3, <2>4, <2>5 DEF TreeSound
<1>22. \A n \in 1..Len(new) :
         new[n].id < doc.nextId => \E m \in 1..Len(old) : old[m].id = new[n].id
  <2>1. ASSUME NEW n \in 1..N, new[n].id < doc.nextId
        PROVE  \E m \in 1..Len(old) : old[m].id = new[n].id
    <3>1. new[n].id = given(n)
      BY <1>15
    <3>2. \E m \in 1..Len(old) : old[m].id = given(n)
      BY <1>9, <2>1, <3>1
    <3> QED BY <3>1, <3>2
  <2> QED BY <1>15, <2>1
<1> QED BY <1>4, <1>17, <1>20, <1>21, <1>22 DEF Edited, source, after
-----------------------------------------------------------------------------
(* What is written into a document: a fragment without its white space is  *)
(* not empty.                                                              *)
LEMMA FragmentIsTokens ==
  ASSUME XmlAssumption, NEW fragment \in Fragment, isSingleNode(fragment)
  PROVE  trimmed(fragment) \in Seq(TreeToken) /\ Len(trimmed(fragment)) > 0
<1> DEFINE s == trimmed(fragment)
           S == Spaces(fragment)
           l == Len(fragment)
<1>1. fragment \in Seq(Token)
  BY DEF XmlAssumption
<1>2. fragment \in Seq(TreeToken) /\ l \in Nat
  <2>1. Token \subseteq TreeToken
    BY DEF TreeToken
  <2> QED BY <1>1, <2>1
<1>3. s \in Seq(TreeToken)
  <2>1. CASE S = {}
    BY <2>1 DEF trimmed
  <2>2. CASE S # {}
    <3>1. S \in SUBSET (0..l)
      BY <1>2 DEF Spaces
    <3> HIDE DEF S, l
    <3>2. Min(S) \in S /\ Max(S) \in S
      BY <1>2, <2>2, <3>1, MinBounded, MaxBounded
    <3>3. Min(S) \in 1..Len(fragment) /\ Max(S) \in 1..Len(fragment)
      BY <3>2 DEF S, Spaces
    <3> DEFINE f == Min(S)
               g == Max(S)
    <3>4. s = SubSeq(fragment, f, g)
      BY <2>2 DEF trimmed, S
    <3>5. f \in Int /\ g \in Int /\ \A i \in f..g : i \in 1..Len(fragment)
      BY <1>2, <3>3 DEF l
    <3> HIDE DEF f, g, s
    <3>6. \A i \in f..g : fragment[i] \in TreeToken
      BY <1>2, <3>5, ElementOfSeq
    <3> QED BY <3>4, <3>5, <3>6, SubSeqProperties
  <2> QED BY <2>1, <2>2
<1>4. Parses(s, FALSE)
  BY DEF isSingleNode
<1> HIDE DEF s
<1>5. Len(s) # 0
  <2> SUFFICES ASSUME Len(s) = 0
               PROVE  FALSE
    OBVIOUS
  <2> DEFINE body == SubSeq(s, Len(prologOf(s)) + 1, Len(s))
  <2>1. Len(prologOf(s)) \in 0..Len(s) /\ Len(body) = Len(s) - Len(prologOf(s))
    BY <1>3, PrologAndBody
  <2>2. Len(body) = 0
    BY <2>1
  <2>3. containsOnlyXmlMisc(body)
    <3> HIDE DEF body
    <3> QED BY <2>2 DEF containsOnlyXmlMisc
  <2> QED BY <1>4, <2>3 DEF Parses
<1>6. Len(s) \in Nat
  BY <1>3
<1> QED BY <1>3, <1>5, <1>6 DEF s

(* Where a node of a document is, and its name.                            *)
LEMMA NodeOfDocument ==
  ASSUME XmlAssumption, NEW doc, TreeSound(doc), NEW node \in Range(doc.nodes)
  PROVE  /\ \E m \in 1..Len(doc.nodes) : doc.nodes[m] = node
         /\ node.rawBegin \in Nat /\ node.rawEnd \in Nat /\ node.valueEnd \in Nat
         /\ node.rawBegin < node.rawEnd /\ node.rawEnd <= Len(doc.xml)
         /\ node.valueEnd <= node.rawEnd
         /\ node.selfClosing => node.rawEnd = node.rawBegin + 1
         /\ node.id \in Nat /\ node.id < doc.nextId
         /\ node.name \in {token.tag : token \in Token}
<1>1. PICK m \in 1..Len(doc.nodes) : doc.nodes[m] = node
  BY DocumentNodes, SMTT(30)
<1>2. ElementsOf(doc.xml, doc.nodes)
  BY DocumentNodes DEF Family
<1>3. /\ node.rawBegin \in Nat /\ node.rawEnd \in Nat
      /\ node.rawBegin < node.rawEnd /\ node.rawEnd <= Len(doc.xml)
      /\ node.selfClosing => node.rawEnd = node.rawBegin + 1
      /\ node.valueEnd = IF node.selfClosing THEN node.rawEnd ELSE node.rawEnd - 1
      /\ node.rawBegin + 1 \in Starts(doc.xml)
      /\ node.name = doc.xml[node.rawBegin + 1].tag
  BY <1>1, <1>2 DEF ElementsOf
<1>4. node.valueEnd \in Nat /\ node.valueEnd <= node.rawEnd
  BY <1>3
<1>5. node.id \in 1..doc.nextId - 1 /\ doc.nextId \in Nat
  BY <1>1 DEF TreeSound, XmlAssumption
<1>6. node.id \in Nat /\ node.id < doc.nextId
  BY <1>5
<1>7. node.name \in {token.tag : token \in Token}
  <2> DEFINE tags == {token.tag : token \in Token}
  <2>1. doc.xml[node.rawBegin + 1] \in TreeToken
    BY <1>3 DEF TreeSound, Starts, Positions
  <2>2. CASE doc.xml[node.rawBegin + 1] \in Token
    BY <1>3, <2>2
  <2>3. CASE doc.xml[node.rawBegin + 1] \in [kind : {"open", "close"}, tag : tags]
    <3> HIDE DEF tags
    <3>1. doc.xml[node.rawBegin + 1].tag \in tags
      BY <2>3
    <3> QED BY <1>3, <3>1 DEF tags
  <2> QED BY <2>1, <2>2, <2>3 DEF TreeToken
<1> QED BY <1>1, <1>3, <1>4, <1>6, <1>7

(* What the edited source is made of. *)
LEMMA NextXmlIsSplice ==
  ASSUME NEW doc, doc.xml \in Seq(TreeToken), NEW edit, IsRange(edit, doc.xml),
         edit.replacement \in Seq(TreeToken)
  PROVE  IsSplice(TreeToken, nextXml(doc, edit), doc.xml, edit.begin, edit.end,
                  edit.replacement)
  BY SplicedParts DEF nextXml, Spliced, IsRange

(* A source changes that gets another length. *)
LEMMA LengthTells ==
  ASSUME NEW doc, doc.xml \in Seq(TreeToken), NEW edit, IsRange(edit, doc.xml),
         edit.replacement \in Seq(TreeToken),
         Len(edit.replacement) # edit.end - edit.begin
  PROVE  nextXml(doc, edit) # doc.xml
<1>1. Len(nextXml(doc, edit)) = edit.begin + Len(edit.replacement) + (Len(doc.xml) - edit.end)
  BY NextXmlIsSplice DEF IsSplice
<1>2. /\ Len(doc.xml) \in Nat /\ edit.begin \in Nat /\ edit.end \in Nat
      /\ Len(edit.replacement) \in Nat
  BY DEF IsRange
<1> DEFINE l == Len(doc.xml)
           a == edit.begin
           z == edit.end
           r == Len(edit.replacement)
<1>3. r # z - a /\ Len(nextXml(doc, edit)) = a + r + (l - z)
  BY <1>1
<1> SUFFICES ASSUME nextXml(doc, edit) = doc.xml
             PROVE  FALSE
  OBVIOUS
<1>4. l = a + r + (l - z)
  BY <1>3
<1>5. l \in Nat /\ a \in Nat /\ z \in Nat /\ r \in Nat
  BY <1>2
<1> HIDE DEF l, a, z, r
<1> QED BY <1>3, <1>4, <1>5

(* An element written where nothing is taken away. *)
LEMMA CreationFits ==
  ASSUME XmlAssumption, NEW doc, TreeSound(doc), NEW s \in Seq(TreeToken), Len(s) > 0,
         NEW at \in Nat, at <= Len(doc.xml),
         \/ Len(doc.nodes) = 0
         \/ \E m \in 1..Len(doc.nodes) :
              ~doc.nodes[m].selfClosing /\ doc.nodes[m].valueEnd = at
  PROVE  EditFits(doc, EditOf(at, at, s, <<Binding(doc.nextId, at, at + Len(s), TRUE)>>))
<1> DEFINE binding == Binding(doc.nextId, at, at + Len(s), TRUE)
           edit == EditOf(at, at, s, <<binding>>)
<1>1. /\ edit.begin = at /\ edit.end = at /\ edit.replacement = s
      /\ edit.bindings = <<binding>>
      /\ binding.id = doc.nextId /\ binding.begin = at /\ binding.end = at + Len(s)
      /\ binding.allocate
  BY DEF EditOf, Binding
<1>2. Len(s) \in Nat /\ Len(doc.xml) \in Nat /\ doc.xml \in Seq(TreeToken)
  BY DEF TreeSound
<1> HIDE DEF binding, edit
<1>3. Range(edit.bindings) = {binding}
  BY <1>1 DEF Range
<1>4. IsRange(edit, doc.xml)
  BY <1>1, <1>2 DEF IsRange
<1>5. nextXml(doc, edit) # doc.xml
  <2>1. Len(edit.replacement) # edit.end - edit.begin
    BY <1>1, <1>2
  <2> QED BY <1>1, <1>2, <1>4, <2>1, LengthTells
<1>6. Allocated(edit) = 1
  <2>1. {b \in Range(edit.bindings) : b.allocate} = {binding}
    BY <1>1, <1>3
  <2> QED BY <2>1, FS_Singleton DEF Allocated
<1>7. EditFits(doc, edit)
  <2>1. ~(edit.begin < edit.end)
    BY <1>1
  <2>2. \A b \in Range(edit.bindings) : b = binding
    BY <1>3
  <2> QED BY <1>1, <1>3, <1>4, <1>5, <1>6, <2>1, <2>2 DEF EditFits
<1> QED BY <1>7 DEF edit, binding

(* A node replaced by an element that is bound to its id. *)
LEMMA UpdateFits ==
  ASSUME XmlAssumption, NEW doc, TreeSound(doc), NEW s \in Seq(TreeToken), Len(s) > 0,
         NEW node \in Range(doc.nodes),
         s # SubSeq(doc.xml, node.rawBegin + 1, node.rawEnd)
  PROVE  EditFits(doc, updateOf(node, s))
<1> DEFINE binding == Binding(node.id, node.rawBegin, node.rawBegin + Len(s), FALSE)
           edit == updateOf(node, s)
           begin == node.rawBegin
           end == node.rawEnd
<1>1. /\ edit.begin = begin /\ edit.end = end /\ edit.replacement = s
      /\ edit.bindings = <<binding>>
      /\ binding.id = node.id /\ binding.begin = begin /\ binding.end = begin + Len(s)
      /\ binding.allocate = FALSE
  BY DEF EditOf, Binding, updateOf
<1>2. Len(s) \in Nat /\ Len(doc.xml) \in Nat /\ doc.xml \in Seq(TreeToken)
  BY DEF TreeSound
<1>3. /\ begin \in Nat /\ end \in Nat /\ begin < end /\ end <= Len(doc.xml)
      /\ \E m \in 1..Len(doc.nodes) : doc.nodes[m] = node
  BY NodeOfDocument
<1> HIDE DEF binding, edit
<1>4. Range(edit.bindings) = {binding}
  BY <1>1 DEF Range
<1>5. IsRange(edit, doc.xml)
  BY <1>1, <1>2, <1>3 DEF IsRange
<1>6. nextXml(doc, edit) # doc.xml
  <2>1. CASE Len(s) # end - begin
    BY <1>1, <1>2, <1>5, <2>1, LengthTells
  <2>2. CASE Len(s) = end - begin
    <3> SUFFICES ASSUME nextXml(doc, edit) = doc.xml
                 PROVE  FALSE
      OBVIOUS
    <3> DEFINE t == SubSeq(doc.xml, begin + 1, end)
    <3>1. \A p \in 1..Len(s) : doc.xml[begin + p] = s[p]
      BY <1>1, <1>2, <1>5, NextXmlIsSplice DEF IsSplice
    <3>2. \A p \in begin + 1..end : doc.xml[p] \in TreeToken
      BY <1>2, <1>3, ElementOfSeq
    <3>3. /\ t \in Seq(TreeToken) /\ Len(t) = end - begin
          /\ \A p \in 1..end - begin : t[p] = doc.xml[begin + p]
      <4> HIDE DEF begin, end
      <4> DEFINE from == begin + 1
      <4>1. from \in Int /\ end \in Int /\ from <= end
        BY <1>3
      <4>2. end - from + 1 = end - begin /\ \A p \in Int : from + p - 1 = begin + p
        BY <1>3
      <4> HIDE DEF from
      <4>3. /\ SubSeq(doc.xml, from, end) \in Seq(TreeToken)
            /\ Len(SubSeq(doc.xml, from, end)) = end - from + 1
            /\ \A p \in 1..end - from + 1 :
                 SubSeq(doc.xml, from, end)[p] = doc.xml[from + p - 1]
        BY <3>2, <4>1, SubSeqProperties DEF from
      <4>4. t = SubSeq(doc.xml, from, end)
        BY DEF from
      <4>5. ASSUME NEW p \in 1..end - begin
            PROVE  t[p] = doc.xml[begin + p]
        <5>1. p \in Int /\ p \in 1..end - from + 1
          BY <4>2, <4>5
        <5>2. t[p] = doc.xml[from + p - 1]
          BY <4>3, <4>4, <5>1
        <5> QED BY <4>2, <5>1, <5>2
      <4> HIDE DEF t
      <4> QED BY <4>2, <4>3, <4>4, <4>5
    <3> HIDE DEF t
    <3>4. s = t
      BY <2>2, <3>1, <3>3, SeqEqual
    <3> QED BY <3>4 DEF t
  <2> QED BY <2>1, <2>2
<1>7. Allocated(edit) = 0
  <2>1. {b \in Range(edit.bindings) : b.allocate} = {}
    BY <1>1, <1>4
  <2> QED BY <2>1, FS_EmptySet DEF Allocated
<1>8. EditFits(doc, edit)
  <2>1. edit.begin < edit.end /\ edit.begin # edit.end
    BY <1>1, <1>3
  <2>2. \A b \in Range(edit.bindings) : b = binding
    BY <1>4
  <2>3. binding \in Range(edit.bindings)
    BY <1>4
  <2>4. PICK m \in 1..Len(doc.nodes) : doc.nodes[m] = node
    BY <1>3
  <2>5. /\ doc.nodes[m].rawBegin = edit.begin /\ doc.nodes[m].rawEnd = edit.end
        /\ doc.nodes[m].id = binding.id
    BY <1>1, <2>4
  <2>6. ~binding.allocate /\ edit.replacement \in Seq(TreeToken)
    BY <1>1
  <2>7. /\ binding.begin = edit.begin
        /\ binding.end = edit.begin + Len(edit.replacement)
    BY <1>1
  <2> HIDE DEF begin, end
  <2> QED BY <1>5, <1>6, <1>7, <2>1, <2>2, <2>3, <2>5, <2>6, <2>7 DEF EditFits
<1> QED BY <1>8 DEF edit

(* A node taken away. *)
LEMMA RemovalFits ==
  ASSUME XmlAssumption, NEW doc, TreeSound(doc), NEW node \in Range(doc.nodes)
  PROVE  EditFits(doc, removalOf(node))
<1> DEFINE edit == removalOf(node)
           begin == node.rawBegin
           end == node.rawEnd
<1>1. /\ edit.begin = begin /\ edit.end = end /\ edit.replacement = <<>>
      /\ edit.bindings = <<>>
  BY DEF EditOf, removalOf
<1>2. Len(doc.xml) \in Nat /\ doc.xml \in Seq(TreeToken)
  BY DEF TreeSound
<1>3. /\ begin \in Nat /\ end \in Nat /\ begin < end /\ end <= Len(doc.xml)
      /\ \E m \in 1..Len(doc.nodes) : doc.nodes[m] = node
  BY NodeOfDocument
<1>4. edit.replacement \in Seq(TreeToken) /\ Len(edit.replacement) = 0
  BY <1>1
<1> HIDE DEF edit
<1>5. Range(edit.bindings) = {}
  BY <1>1 DEF Range
<1>6. IsRange(edit, doc.xml)
  BY <1>1, <1>2, <1>3, <1>4 DEF IsRange
<1>7. nextXml(doc, edit) # doc.xml
  <2>1. Len(edit.replacement) # edit.end - edit.begin
    BY <1>1, <1>3, <1>4
  <2> QED BY <1>2, <1>4, <1>6, <2>1, LengthTells
<1>8. Allocated(edit) = 0
  <2>1. {b \in Range(edit.bindings) : b.allocate} = {}
    BY <1>5
  <2> QED BY <2>1, FS_EmptySet DEF Allocated
<1>9. EditFits(doc, edit)
  <2>1. edit.begin # edit.end
    BY <1>1, <1>3
  <2> QED BY <1>1, <1>3, <1>4, <1>5, <1>6, <1>7, <1>8, <2>1 DEF EditFits
<1> QED BY <1>9 DEF edit

(* A self-closing parent opened up around its first child. *)
LEMMA OpeningFits ==
  ASSUME XmlAssumption, NEW doc, TreeSound(doc), NEW s \in Seq(TreeToken), Len(s) > 0,
         NEW node \in Range(doc.nodes), node.selfClosing
  PROVE  EditFits(doc, openingCreation(doc, node, s))
<1> DEFINE begin == node.rawBegin
           end == node.rawEnd
           l == Len(s)
           front == <<[kind |-> "open", tag |-> node.name]>>
           back == <<[kind |-> "close", tag |-> node.name]>>
           parent == Binding(node.id, begin, begin + 1 + l + 1, FALSE)
           child == Binding(doc.nextId, begin + 1, begin + 1 + l, TRUE)
           edit == openingCreation(doc, node, s)
<1>1. /\ edit.begin = begin /\ edit.end = end /\ edit.replacement = front \o s \o back
      /\ edit.bindings = <<parent, child>>
      /\ parent.id = node.id /\ parent.begin = begin /\ parent.end = begin + 1 + l + 1
      /\ parent.allocate = FALSE
      /\ child.id = doc.nextId /\ child.begin = begin + 1 /\ child.end = begin + 1 + l
      /\ child.allocate = TRUE
  BY DEF EditOf, Binding, openingCreation
<1>2. /\ l \in Nat /\ l > 0 /\ Len(doc.xml) \in Nat /\ doc.xml \in Seq(TreeToken)
      /\ doc.nextId \in Nat
  BY DEF TreeSound, XmlAssumption
<1>3. /\ begin \in Nat /\ end \in Nat /\ end = begin + 1 /\ end <= Len(doc.xml)
      /\ \E m \in 1..Len(doc.nodes) : doc.nodes[m] = node
      /\ node.id \in Nat /\ node.id < doc.nextId
      /\ node.name \in {token.tag : token \in Token}
  BY NodeOfDocument
<1>4. /\ [kind |-> "open", tag |-> node.name] \in TreeToken
      /\ [kind |-> "close", tag |-> node.name] \in TreeToken
  BY <1>3 DEF TreeToken
<1>5. front \in Seq(TreeToken) /\ Len(front) = 1 /\ back \in Seq(TreeToken) /\ Len(back) = 1
  BY <1>4
<1> HIDE DEF edit, parent, child, front, back
<1>6. edit.replacement \in Seq(TreeToken) /\ Len(edit.replacement) = l + 2
  <2>1. front \o s \in Seq(TreeToken) /\ Len(front \o s) = 1 + l
    <3>1. front \in Seq(TreeToken) /\ s \in Seq(TreeToken)
      BY <1>5
    <3>2. front \o s \in Seq(TreeToken) /\ Len(front \o s) = Len(front) + Len(s)
      BY <3>1, JoinedParts
    <3> QED BY <1>5, <3>2
  <2>2. /\ (front \o s) \o back \in Seq(TreeToken)
        /\ Len((front \o s) \o back) = (1 + l) + 1
    BY <1>5, <2>1, JoinedParts
  <2> HIDE DEF l
  <2> QED BY <1>1, <1>2, <2>2
<1>7. Range(edit.bindings) = {parent, child}
  BY <1>1 DEF Range
<1> HIDE DEF begin, end, l
<1>8. /\ parent.end = edit.begin + Len(edit.replacement)
      /\ child.begin # parent.begin /\ parent.id # child.id
      /\ edit.begin < edit.end /\ edit.begin # edit.end
  <2>1. begin + 1 + l + 1 = begin + (l + 2) /\ begin + 1 # begin /\ begin < end
    BY <1>2, <1>3
  <2> QED BY <1>1, <1>2, <1>3, <1>6, <2>1
<1>9. IsRange(edit, doc.xml)
  BY <1>1, <1>2, <1>3, <1>6 DEF IsRange
<1>10. nextXml(doc, edit) # doc.xml
  <2>1. Len(edit.replacement) # edit.end - edit.begin
    BY <1>1, <1>2, <1>3, <1>6
  <2> QED BY <1>2, <1>6, <1>9, <2>1, LengthTells
<1>11. Allocated(edit) = 1
  <2>1. {b \in Range(edit.bindings) : b.allocate} = {child}
    BY <1>1, <1>7
  <2> QED BY <2>1, FS_Singleton DEF Allocated
<1>12. \E m \in 1..Len(doc.nodes) :
         /\ doc.nodes[m].rawBegin = edit.begin /\ doc.nodes[m].rawEnd = edit.end
         /\ doc.nodes[m].id = parent.id
  BY <1>1, <1>3 DEF begin, end
<1>13. \A b \in Range(edit.bindings) :
         \/ b = parent /\ ~b.allocate /\ b.begin = edit.begin
         \/ b = child /\ b.allocate /\ b.id = doc.nextId
  BY <1>1, <1>7
<1>14. \A b, c \in Range(edit.bindings) : b.begin = c.begin \/ b.id = c.id => b = c
  BY <1>7, <1>8
<1>15. parent \in Range(edit.bindings) /\ ~parent.allocate /\ parent.begin = edit.begin
  BY <1>1, <1>7
<1>16. EditFits(doc, edit)
  <2>1. \A b \in Range(edit.bindings) :
          b.allocate => b.id = doc.nextId /\ Allocated(edit) >= 1
    BY <1>11, <1>13
  <2>2. \A b \in Range(edit.bindings) :
          ~b.allocate => /\ b.begin = edit.begin /\ b.end = parent.end /\ b.id = parent.id
    BY <1>13
  <2> QED BY <1>6, <1>8, <1>9, <1>10, <1>11, <1>12, <1>14, <1>15, <2>1, <2>2 DEF EditFits
<1> QED BY <1>16 DEF edit

(* Every step of the editor is an edit that fits. *)
LEMMA StepsAreEdits ==
  ASSUME XmlAssumption, TreeSound(tree), Next
  PROVE  \E edit : EditFits(tree, edit) /\ replaceRange(edit)
<1>1. ASSUME NEW fragment \in Fragment, CreateRoot(fragment)
      PROVE  \E edit : EditFits(tree, edit) /\ replaceRange(edit)
  <2> DEFINE s == trimmed(fragment)
             at == Len(tree.xml)
             edit == rootCreation(tree, s)
  <2>1. /\ s \in Seq(TreeToken) /\ Len(s) > 0 /\ at \in Nat /\ Len(tree.nodes) = 0
        /\ at <= Len(tree.xml)
    BY <1>1, FragmentIsTokens DEF CreateRoot, HasRoot, TreeSound
  <2> HIDE DEF s
  <2>2. EditFits(tree, EditOf(at, at, s, <<Binding(tree.nextId, at, at + Len(s), TRUE)>>))
    <3> HIDE DEF at
    <3> QED BY <2>1, CreationFits
  <2>3. EditFits(tree, edit)
    BY <2>2 DEF rootCreation
  <2> QED BY <1>1, <2>3 DEF CreateRoot, s
<1>2. ASSUME NEW node \in Range(tree.nodes), NEW fragment \in Fragment,
             CreateIn(node, fragment)
      PROVE  \E edit : EditFits(tree, edit) /\ replaceRange(edit)
  <2> DEFINE s == trimmed(fragment)
             at == node.valueEnd
             edit == creationIn(tree, node, s)
  <2>1. s \in Seq(TreeToken) /\ Len(s) > 0
    BY <1>2, FragmentIsTokens DEF CreateIn
  <2>2. /\ at \in Nat /\ at <= Len(tree.xml)
        /\ \E m \in 1..Len(tree.nodes) : tree.nodes[m] = node
    <3>1. /\ at \in Nat /\ at <= node.rawEnd /\ node.rawEnd <= Len(tree.xml)
          /\ node.rawEnd \in Nat /\ \E m \in 1..Len(tree.nodes) : tree.nodes[m] = node
      BY NodeOfDocument
    <3>2. Len(tree.xml) \in Nat
      BY DEF TreeSound
    <3> HIDE DEF at
    <3> QED BY <3>1, <3>2
  <2>3. CASE node.selfClosing
    <3>1. EditFits(tree, openingCreation(tree, node, s))
      <4> HIDE DEF s
      <4> QED BY <2>1, <2>3, OpeningFits
    <3> QED BY <1>2, <2>3, <3>1 DEF CreateIn, creationIn
  <2>4. CASE ~node.selfClosing
    <3>1. \E m \in 1..Len(tree.nodes) :
            ~tree.nodes[m].selfClosing /\ tree.nodes[m].valueEnd = at
      BY <2>2, <2>4
    <3>2. EditFits(tree, EditOf(at, at, s, <<Binding(tree.nextId, at, at + Len(s), TRUE)>>))
      <4> HIDE DEF at, s
      <4> QED BY <2>1, <2>2, <3>1, CreationFits
    <3>3. EditFits(tree, childCreation(tree, node, s))
      BY <3>2 DEF childCreation
    <3> QED BY <1>2, <2>4, <3>3 DEF CreateIn, creationIn
  <2> QED BY <2>3, <2>4
<1>3. ASSUME NEW node \in Range(tree.nodes), NEW fragment \in Fragment,
             UpdateNode(node, fragment)
      PROVE  \E edit : EditFits(tree, edit) /\ replaceRange(edit)
  <2> DEFINE s == trimmed(fragment)
  <2>1. /\ s \in Seq(TreeToken) /\ Len(s) > 0
        /\ s # SubSeq(tree.xml, node.rawBegin + 1, node.rawEnd)
        /\ replaceRange(updateOf(node, s))
    BY <1>3, FragmentIsTokens DEF UpdateNode
  <2> HIDE DEF s
  <2> QED BY <2>1, UpdateFits
<1>4. ASSUME NEW node \in Range(tree.nodes), RemoveNode(node)
      PROVE  \E edit : EditFits(tree, edit) /\ replaceRange(edit)
  BY <1>4, RemovalFits DEF RemoveNode
<1> QED BY <1>1, <1>2, <1>3, <1>4 DEF Next
-----------------------------------------------------------------------------
(* The inductive invariant: a sound document, and no token of its source   *)
(* under the mark of another.                                              *)
IInv ==
  /\ TreeSound(tree)
  /\ MarksSound(marks, Len(tree.xml), tree.revision)

(* A document that is created is sound. *)
LEMMA IInvInit ==
  ASSUME XmlAssumption, Init
  PROVE  IInv
<1>1. PICK xml \in Source :
        /\ tree = fromXml(xml) /\ Parses(xml, FALSE) /\ Len(parseNodes(xml)) < MaxId
  BY DEF Init
<1> DEFINE parsed == parseNodes(xml)
           N == Len(parsed)
<1>2. xml \in Seq(TreeToken) /\ MaxId \in Nat /\ MaxRevision \in Nat
  <2>1. xml \in Seq(Token) /\ Token \subseteq TreeToken
    BY DEF XmlAssumption, TreeToken
  <2> QED BY <2>1 DEF XmlAssumption
<1>3. Parses(xml, TRUE)
  BY <1>1 DEF Parses
<1>4. Forest(xml, parsed)
  BY <1>2, <1>3, ParsedForest
<1>5. N \in Nat
  BY <1>4 DEF Forest, ElementsOf
<1>6. /\ tree.xml = xml /\ tree.nodes = parsed /\ tree.nextId = N + 1
      /\ tree.revision = 0 /\ tree.changes = 0
  BY <1>1 DEF fromXml
<1>7. N < MaxId
  BY <1>1
<1> HIDE DEF parsed
<1>8. /\ \A n \in 1..N : parsed[n].id = n
      /\ parsed = remapped(parsed, [n \in 1..N |-> parsed[n].id])
  BY <1>4, ParsedIds
<1>9. TreeSound(tree)
  <2>1. parseNodes(tree.xml) = parsed
    BY <1>6 DEF parsed
  <2>2. \A n \in 1..N : parsed[n].id \in 1..(N + 1) - 1
    BY <1>5, <1>8
  <2>3. N + 1 \in 1..MaxId /\ 0 \in 0..MaxRevision
    BY <1>2, <1>5, <1>7
  <2> QED BY <1>2, <1>3, <1>6, <1>8, <2>1, <2>2, <2>3 DEF TreeSound
<1>10. MarksSound(marks, Len(tree.xml), tree.revision)
  <2> DEFINE l == Len(tree.xml)
  <2>1. marks = [i \in 1..l |-> <<0, i>>] /\ l \in Nat
    BY <1>2, <1>6 DEF Init
  <2> HIDE DEF l
  <2>2. /\ marks \in [1..l -> Nat \X Nat] /\ DOMAIN marks = 1..l
        /\ \A p \in 1..l : marks[p] = <<0, p>>
    BY <2>1
  <2>3. marks \in Seq(Nat \X Nat) /\ Len(marks) = l
    BY <2>1, <2>2
  <2>4. MarksSound(marks, l, 0)
    <3>1. \A p \in 1..l : marks[p][1] = 0
      BY <2>2
    <3>2. \A p, q \in 1..l : marks[p] = marks[q] => p = q
      BY <2>2
    <3> QED BY <2>3, <3>1, <3>2 DEF MarksSound
  <2> QED BY <1>6, <2>4 DEF l
<1> QED BY <1>9, <1>10 DEF IInv

(* What a step does: an edit, with the marks of the tokens that stay.      *)
StepEdits(edit) ==
  /\ EditFits(tree, edit) /\ Edited(tree, edit, tree')
  /\ MarksSound(marks', Len(tree'.xml), tree'.revision)
  /\ MarksFollow(marks', marks, Len(tree.xml), tree.revision,
                 edit.begin, edit.end, Len(edit.replacement))

(* Every step does. *)
LEMMA StepsEdit ==
  ASSUME XmlAssumption, IInv, Next
  PROVE  \E edit : StepEdits(edit)
<1>1. TreeSound(tree) /\ MarksSound(marks, Len(tree.xml), tree.revision)
  BY DEF IInv
<1>2. PICK edit : EditFits(tree, edit) /\ replaceRange(edit)
  BY <1>1, StepsAreEdits
<1>3. Edited(tree, edit, replaced(tree, edit))
  BY <1>1, <1>2, ReplacedIsEdited DEF replaceRange
<1>4. Edited(tree, edit, tree')
  BY <1>2, <1>3 DEF replaceRange
<1> DEFINE a == edit.begin
           z == edit.end
           r == Len(edit.replacement)
           l == Len(tree.xml)
           v == tree.revision
           added == NewMarks(v + 1, r)
<1>5. /\ l \in Nat /\ v \in Nat /\ a \in Nat /\ z \in Nat /\ r \in Nat /\ a <= z /\ z <= l
  BY <1>1, <1>2 DEF EditFits, IsRange, TreeSound, XmlAssumption
<1>6. tree'.revision = v + 1 /\ Len(tree'.xml) = a + r + (l - z)
  BY <1>4 DEF Edited, IsSplice
<1>7. marks' = Splice(marks, a, z, added)
  BY <1>2, <1>6 DEF replaceRange, Spliced, Splice, NewMarks
<1>8. /\ MarksSound(Splice(marks, a, z, added), a + r + (l - z), v + 1)
      /\ MarksFollow(Splice(marks, a, z, added), marks, l, v, a, z, r)
  <2>1. MarksSound(marks, l, v)
    BY <1>1
  <2> HIDE DEF a, z, r, l, v
  <2> QED BY <1>5, <2>1, MarksMove
<1>9. /\ MarksSound(marks', Len(tree'.xml), tree'.revision)
      /\ MarksFollow(marks', marks, l, v, a, z, r)
  BY <1>6, <1>7, <1>8
<1> QED BY <1>2, <1>4, <1>9 DEF StepEdits

(* The invariant is inductive. *)
LEMMA IInvNext ==
  ASSUME XmlAssumption, IInv, [Next]_vars
  PROVE  IInv'
<1>1. CASE Next
  <2>1. PICK edit : StepEdits(edit)
    BY <1>1, StepsEdit
  <2>2. TreeSound(tree') /\ MarksSound(marks', Len(tree'.xml), tree'.revision)
    BY <2>1 DEF StepEdits, Edited
  <2> QED BY <2>2 DEF IInv
<1>2. CASE UNCHANGED vars
  BY <1>2 DEF vars, IInv
<1> QED BY <1>1, <1>2

(* However an XML tree is edited, the inductive invariant holds. *)
THEOREM XmlInvariant ==
  ASSUME XmlAssumption
  PROVE  Spec => []IInv
  BY IInvInit, IInvNext, PTL DEF Spec

(* As many ids as nodes, and parents and children that name each other.    *)
LEMMA FamilyIsMutual ==
  ASSUME NEW source, NEW nodes, Family(source, nodes)
  PROVE  /\ Cardinality(ids(nodes)) = Len(nodes)
         /\ \A c, p \in Range(nodes) : c.parentId = {p.id} <=> c.id \in Range(p.childIds)
<1> DEFINE N == Len(nodes)
<1>1. /\ N \in Nat /\ DOMAIN nodes = 1..N
      /\ \A m, n \in 1..N : nodes[m].id = nodes[n].id => m = n
      /\ \A n \in 1..N :
           /\ nodes[n].parentId = {nodes[m].id : m \in Innermost(nodes, n)}
           /\ Range(nodes[n].childIds) = {nodes[m].id : m \in Children(nodes, n)}
  BY DEF Family, ElementsOf
<1>2. /\ Range(nodes) = {nodes[n] : n \in 1..N}
      /\ ids(nodes) = {nodes[n].id : n \in 1..N}
  BY <1>1 DEF Range, ids
<1>3. Cardinality(ids(nodes)) = N
  <2> DEFINE id == [n \in 1..N |-> nodes[n].id]
  <2>1. id \in Surjection(1..N, ids(nodes))
    BY <1>2 DEF Surjection
  <2>2. id \in Injection(1..N, ids(nodes))
    BY <1>1, <2>1 DEF Surjection, Injection, IsInjective
  <2> HIDE DEF id, N
  <2>3. IsFiniteSet(1..N) /\ Cardinality(1..N) = N
    BY <1>1, UpToSize
  <2> QED BY <2>1, <2>2, <2>3, FS_Surjection
<1>4. ASSUME NEW i \in 1..N, NEW j \in 1..N
      PROVE  nodes[i].parentId = {nodes[j].id} <=> nodes[i].id \in Range(nodes[j].childIds)
  <2>1. /\ Innermost(nodes, i) \subseteq 1..N /\ Children(nodes, j) \subseteq 1..N
        /\ i \in Children(nodes, j) <=> j \in Innermost(nodes, i)
    BY DEF Children, Innermost, Above
  <2>2. \A m, n \in Innermost(nodes, i) : m = n
    <3>1. ASSUME NEW m \in Innermost(nodes, i), NEW n \in Innermost(nodes, i)
          PROVE  m = n
      <4>1. m <= n /\ n <= m /\ m \in Nat /\ n \in Nat
        BY <2>1 DEF Innermost
      <4> QED BY <4>1
    <3> QED BY <3>1
  <2>3. nodes[i].id \in Range(nodes[j].childIds) <=> i \in Children(nodes, j)
    BY <1>1, <2>1
  <2>4. nodes[i].parentId = {nodes[j].id} <=> j \in Innermost(nodes, i)
    <3>1. ASSUME j \in Innermost(nodes, i)
          PROVE  nodes[i].parentId = {nodes[j].id}
      <4>1. Innermost(nodes, i) = {j}
        BY <2>2, <3>1
      <4> QED BY <1>1, <4>1
    <3>2. ASSUME nodes[i].parentId = {nodes[j].id}
          PROVE  j \in Innermost(nodes, i)
      <4>1. nodes[j].id \in nodes[i].parentId
        BY <3>2
      <4>2. PICK m \in Innermost(nodes, i) : nodes[m].id = nodes[j].id
        BY <1>1, <4>1
      <4> QED BY <1>1, <2>1, <4>2
    <3> QED BY <3>1, <3>2
  <2> QED BY <2>1, <2>3, <2>4
<1> QED BY <1>2, <1>3, <1>4

(* However an XML tree is edited, its nodes are those that its source      *)
(* parses into, no two under one id and none under an id to come, and      *)
(* parents and children name each other.                                   *)
THEOREM XmlTypeOK ==
  ASSUME XmlAssumption
  PROVE  Spec => []TypeOK
<1>1. IInv => TypeOK
  <2> SUFFICES ASSUME IInv
               PROVE  TypeOK
    OBVIOUS
  <2>1. TreeSound(tree) /\ Len(marks) = Len(tree.xml)
    BY DEF IInv, MarksSound
  <2>2. /\ Parses(tree.xml, TRUE) /\ Len(parseNodes(tree.xml)) = Len(tree.nodes)
        /\ tree.nodes = remapped(parseNodes(tree.xml),
                                 [n \in 1..Len(tree.nodes) |-> tree.nodes[n].id])
        /\ \A n \in 1..Len(tree.nodes) : tree.nodes[n].id \in 1..tree.nextId - 1
        /\ tree.nextId \in 1..MaxId
        /\ tree.revision \in 0..MaxRevision /\ tree.changes = tree.revision
    BY <2>1 DEF TreeSound
  <2>3. /\ Family(tree.xml, tree.nodes)
        /\ ids(tree.nodes) = {tree.nodes[n].id : n \in 1..Len(tree.nodes)}
    BY <2>1, DocumentNodes
  <2>4. /\ Cardinality(ids(tree.nodes)) = Len(tree.nodes)
        /\ \A c, p \in Nodes : c.parentId = {p.id} <=> c.id \in Range(p.childIds)
    BY <2>3, FamilyIsMutual DEF Nodes
  <2>5. \A id \in ids(tree.nodes) : id \in 1..tree.nextId - 1
    BY <2>2, <2>3
  <2> QED BY <2>1, <2>2, <2>4, <2>5 DEF TypeOK
<1> QED BY <1>1, XmlInvariant, PTL

(* Tags are the same by their marks just if the edit moved them.           *)
LEMMA SameIsMoved ==
  ASSUME XmlAssumption, IInv, NEW edit, StepEdits(edit),
         NEW b \in Nodes, NEW c \in Range(tree'.nodes)
  PROVE  TagMarks(marks, b) = TagMarks(marks', c) <=> MovedTo(edit, b, c)
<1> DEFINE a == edit.begin
           z == edit.end
           r == Len(edit.replacement)
           l == Len(tree.xml)
<1>1. TreeSound(tree) /\ TreeSound(tree')
  BY DEF IInv, StepEdits, Edited
<1>2. /\ b.rawBegin \in Nat /\ b.rawEnd \in Nat /\ b.rawBegin < b.rawEnd /\ b.rawEnd <= l
      /\ c.rawBegin \in Nat /\ c.rawEnd \in Nat /\ c.rawBegin < c.rawEnd
      /\ c.rawEnd <= Len(tree'.xml)
  BY <1>1, NodeOfDocument DEF Nodes
<1>3. Len(tree'.xml) = a + r + (l - z) /\ l \in Nat
  BY <1>1 DEF StepEdits, Edited, IsSplice, TreeSound
<1>4. Len(tree'.xml) \in Nat
  BY <1>1 DEF TreeSound
<1>5. \A p \in 1..Len(tree'.xml), q \in 1..l : marks'[p] = marks[q] <=> Moved(a, z, r, q, p)
  BY <1>3 DEF StepEdits, MarksFollow
<1>6. /\ b.rawBegin + 1 \in 1..l /\ b.rawEnd \in 1..l
      /\ c.rawBegin + 1 \in 1..Len(tree'.xml) /\ c.rawEnd \in 1..Len(tree'.xml)
  <2> DEFINE total == Len(tree'.xml)
  <2> HIDE DEF total, l
  <2> QED BY <1>2, <1>3, <1>4 DEF total
<1>7. /\ marks[b.rawBegin + 1] = marks'[c.rawBegin + 1]
           <=> Moved(a, z, r, b.rawBegin + 1, c.rawBegin + 1)
      /\ marks[b.rawEnd] = marks'[c.rawEnd] <=> Moved(a, z, r, b.rawEnd, c.rawEnd)
  BY <1>5, <1>6
<1> QED BY <1>7 DEF TagMarks, MovedTo

(* Only the node that takes the place of another has its id without having *)
(* its tags.                                                               *)
LEMMA OneIsReplaced ==
  ASSUME NEW edit, NEW source, NEW old, NEW newSource, NEW new,
         Carries(edit, source, old, newSource, new),
         NEW S, \A s \in S : \E m \in 1..Len(old), n \in 1..Len(new) :
                  s = <<old[m], new[n]>> /\ Replaces(edit, old[m], new[n])
  PROVE  Cardinality(S) <= 1
<1>1. Family(source, old) /\ Family(newSource, new)
  BY DEF Carries
<1>2. /\ \A i, j \in 1..Len(old) : old[i].rawBegin = old[j].rawBegin => i = j
      /\ \A i, j \in 1..Len(new) : new[i].rawBegin = new[j].rawBegin => i = j
  BY <1>1, ElementsHavePlaces
<1>3. ASSUME NEW s \in S, NEW t \in S
      PROVE  s = t
  <2>1. PICK i \in 1..Len(old), j \in 1..Len(new) :
          s = <<old[i], new[j]>> /\ Replaces(edit, old[i], new[j])
    OBVIOUS
  <2>2. PICK k \in 1..Len(old), l \in 1..Len(new) :
          t = <<old[k], new[l]>> /\ Replaces(edit, old[k], new[l])
    OBVIOUS
  <2>3. i = k /\ j = l
    BY <1>2, <2>1, <2>2 DEF Replaces
  <2> QED BY <2>1, <2>2, <2>3
<1>4. CASE S = {}
  BY <1>4, FS_EmptySet
<1>5. CASE S # {}
  <2>1. PICK s : s \in S
    BY <1>5
  <2>2. S = {s}
    BY <1>3, <2>1
  <2>3. Cardinality({s}) = 1
    BY FS_Singleton
  <2> QED BY <2>2, <2>3
<1> QED BY <1>4, <1>5

(* A step leaves the nodes that stay where they were. *)
LEMMA StepsKeepPlaces ==
  ASSUME XmlAssumption, IInv, Next
  PROVE  NodesStay
<1>1. PICK edit : StepEdits(edit)
  BY StepsEdit
<1> DEFINE old == tree.nodes
           new == tree'.nodes
           next == tree.nextId
           same(b, c) == TagMarks(marks, b) = TagMarks(marks', c)
<1>2. /\ TreeSound(tree) /\ TreeSound(tree')
      /\ Carries(edit, tree.xml, old, tree'.xml, new)
      /\ \A n \in 1..Len(new) :
           new[n].id < next => \E m \in 1..Len(old) : old[m].id = new[n].id
  BY <1>1 DEF IInv, StepEdits, Edited
<1>3. /\ Range(old) = {old[m] : m \in 1..Len(old)}
      /\ ids(old) = {old[m].id : m \in 1..Len(old)}
      /\ next \in Nat
  BY <1>2, DocumentNodes
<1>4. /\ Range(new) = {new[n] : n \in 1..Len(new)}
      /\ ids(new) = {new[n].id : n \in 1..Len(new)}
  BY <1>2, DocumentNodes
<1>5. /\ \A m \in 1..Len(old) : old[m].id < next
      /\ \A n \in 1..Len(new) : new[n].id \in Nat
  <2>1. /\ \A m \in 1..Len(old) : old[m].id \in 1..next - 1
        /\ \A n \in 1..Len(new) : new[n].id \in 1..tree'.nextId - 1
    BY <1>2 DEF TreeSound
  <2> QED BY <1>3, <2>1
<1>6. \A m \in 1..Len(old), n \in 1..Len(new) :
        old[m].id = new[n].id <=> Succeeds(edit, old[m], new[n])
  BY <1>2 DEF Carries
<1>7. \A m \in 1..Len(old), n \in 1..Len(new) :
        same(old[m], new[n]) <=> MovedTo(edit, old[m], new[n])
  BY <1>1, <1>3, <1>4, SameIsMoved DEF Nodes
<1> HIDE DEF old, new, next, same
<1>8. \A b \in Range(old), c \in Range(new) : same(b, c) => b.id = c.id
  BY <1>3, <1>4, <1>6, <1>7 DEF Succeeds
<1> DEFINE survivors == {s \in Range(old) \X Range(new) : s[1].id = s[2].id}
           others == {s \in survivors : ~same(s[1], s[2])}
<1>9. ASSUME NEW s \in survivors
      PROVE  \E m \in 1..Len(old), n \in 1..Len(new) :
               s = <<old[m], new[n]>> /\ Succeeds(edit, old[m], new[n])
  <2>1. s \in Range(old) \X Range(new) /\ s[1].id = s[2].id
    OBVIOUS
  <2>2. PICK m \in 1..Len(old) : s[1] = old[m]
    BY <1>3, <2>1
  <2>3. PICK n \in 1..Len(new) : s[2] = new[n]
    BY <1>4, <2>1
  <2>4. s = <<s[1], s[2]>>
    BY <2>1
  <2> QED BY <1>6, <2>1, <2>2, <2>3, <2>4
<1>10. Cardinality(others) <= 1
  <2>1. \A s \in others : \E m \in 1..Len(old), n \in 1..Len(new) :
          s = <<old[m], new[n]>> /\ Replaces(edit, old[m], new[n])
    <3>1. ASSUME NEW s \in others
          PROVE  \E m \in 1..Len(old), n \in 1..Len(new) :
                   s = <<old[m], new[n]>> /\ Replaces(edit, old[m], new[n])
      <4>1. s \in survivors /\ ~same(s[1], s[2])
        OBVIOUS
      <4> HIDE DEF survivors, others
      <4>2. PICK m \in 1..Len(old), n \in 1..Len(new) :
              s = <<old[m], new[n]>> /\ Succeeds(edit, old[m], new[n])
        BY <1>9, <4>1
      <4>3. ~same(old[m], new[n])
        BY <4>1, <4>2
      <4> QED BY <1>7, <4>2, <4>3 DEF Succeeds
    <3> QED BY <3>1
  <2> HIDE DEF others
  <2> QED BY <1>2, <2>1, OneIsReplaced
<1> DEFINE kept(b) == Range(b.childIds) \cap ids(new)
           stays(b, c) ==
             /\ b.parentId = c.parentId /\ b.depth = c.depth
             /\ {id \in Range(c.childIds) : id < next} = kept(b)
             /\ \A id \in kept(b) : InFront(c.childIds, id) \subseteq InFront(b.childIds, id)
<1>11. ASSUME NEW m \in 1..Len(old), NEW n \in 1..Len(new), Succeeds(edit, old[m], new[n])
       PROVE  stays(old[m], new[n])
  <2>1. old[m].parentId = new[n].parentId /\ old[m].depth = new[n].depth
    BY <1>2, <1>11, PlacesStay
  <2>2. /\ {id \in Range(new[n].childIds) : id < next} = kept(old[m])
        /\ \A id \in kept(old[m]) :
             InFront(new[n].childIds, id) \subseteq InFront(old[m].childIds, id)
    <3>1. ChildrenKept(old[m], new[n], next, new)
      BY <1>2, <1>5, <1>11, ChildrenStay
    <3> QED BY <3>1 DEF ChildrenKept
  <2> QED BY <2>1, <2>2
<1>12. \A s \in survivors : stays(s[1], s[2])
  <2> HIDE DEF survivors, stays
  <2>1. ASSUME NEW s \in survivors
        PROVE  stays(s[1], s[2])
    <3>1. PICK m \in 1..Len(old), n \in 1..Len(new) :
            s = <<old[m], new[n]>> /\ Succeeds(edit, old[m], new[n])
      BY <1>9
    <3>2. s[1] = old[m] /\ s[2] = new[n]
      BY <3>1
    <3> QED BY <1>11, <3>1, <3>2
  <2> QED BY <2>1
<1>13. \A id \in ids(new) \ ids(old) : id >= next
  <2>1. ASSUME NEW id \in ids(new), id \notin ids(old)
        PROVE  id >= next
    <3>1. PICK n \in 1..Len(new) : id = new[n].id
      BY <1>4
    <3>2. ~(id < next)
      BY <1>2, <1>3, <2>1, <3>1 DEF old, new, next
    <3> QED BY <1>3, <1>5, <3>1, <3>2
  <2> QED BY <2>1
<1> QED BY <1>8, <1>10, <1>12, <1>13 DEF NodesStay, Nodes, old, new, next, same

(* An id of an XML tree stands for the same element, under the same parent *)
(* and with its remaining children in order, across every edit.            *)
THEOREM NodesKeepPlace ==
  ASSUME XmlAssumption
  PROVE  Spec => NodesKeepTheirPlace
<1>1. IInv /\ [Next]_vars => [NodesStay]_vars
  BY StepsKeepPlaces
<1> QED BY <1>1, XmlInvariant, PTL DEF Spec, NodesKeepTheirPlace
-----------------------------------------------------------------------------
(* Tokens that may stand in front of the body, and the body. *)
InProlog(token) == token.kind \in Misc \cup {"declaration", "doctype"}
bodyOf(xml) == SubSeq(xml, Len(prologOf(xml)) + 1, Len(xml))

(* The prolog ends after k tokens. *)
EndsProlog(xml, k) ==
  /\ k \in 0..Len(xml)
  /\ \A i \in 1..k : InProlog(xml[i])
  /\ k = Len(xml) \/ ~InProlog(xml[k + 1])

(* It does at one place. *)
LEMMA PrologEnds ==
  ASSUME NEW T, NEW xml \in Seq(T)
  PROVE  /\ EndsProlog(xml, Len(prologOf(xml)))
         /\ \A i \in 1..Len(prologOf(xml)) : prologOf(xml)[i] = xml[i]
         /\ \A k : EndsProlog(xml, k) => k = Len(prologOf(xml))
<1> DEFINE ends(n) == n = Len(xml) \/ xml[n + 1].kind \notin Misc \cup {"declaration", "doctype"}
           E == {n \in 0..Len(xml) : ends(n)}
           k == Min(E)
<1>1. Len(xml) \in Nat /\ \A i \in 1..Len(xml) : xml[i] \in T
  OBVIOUS
<1>2. k \in E /\ \A n \in E : k <= n
  <2>1. E \subseteq 0..Len(xml) /\ Len(xml) \in E
    BY <1>1
  <2> HIDE DEF E
  <2> QED BY <1>1, <2>1, MinBounded
<1>3. prologOf(xml) = SubSeq(xml, 1, k)
  BY DEF prologOf
<1>4. \A n \in 0..Len(xml) : n \in E <=> n = Len(xml) \/ ~InProlog(xml[n + 1])
  BY DEF InProlog
<1>5. k \in 0..Len(xml)
  BY <1>2
<1> HIDE DEF E, k
<1>6. Len(prologOf(xml)) = k /\ \A i \in 1..k : prologOf(xml)[i] = xml[i]
  <2>1. 1 \in Int /\ k \in Int /\ \A i \in 1..k : xml[i] \in T
    BY <1>1, <1>5
  <2>2. /\ Len(SubSeq(xml, 1, k)) = IF 1 <= k THEN k - 1 + 1 ELSE 0
        /\ \A i \in 1..k - 1 + 1 : SubSeq(xml, 1, k)[i] = xml[1 + i - 1]
    BY <2>1, SubSeqProperties
  <2>3. k - 1 + 1 = k /\ \A i \in 1..k : 1 + i - 1 = i
    BY <1>5
  <2>4. (IF 1 <= k THEN k - 1 + 1 ELSE 0) = k
    BY <1>1, <1>5
  <2> QED BY <1>3, <2>2, <2>3, <2>4
<1>7. ASSUME NEW i \in 1..k
      PROVE  InProlog(xml[i])
  <2>1. i - 1 \in 0..Len(xml) /\ i - 1 < k /\ (i - 1) + 1 = i /\ i - 1 # Len(xml)
    BY <1>1, <1>5
  <2>2. i - 1 \notin E
    BY <1>2, <1>5, <2>1
  <2> QED BY <1>4, <2>1, <2>2
<1>8. EndsProlog(xml, k)
  BY <1>2, <1>4, <1>5, <1>7 DEF EndsProlog
<1>9. ASSUME NEW m, EndsProlog(xml, m)
      PROVE  m = k
  <2>1. m \in 0..Len(xml) /\ m \in E
    BY <1>4, <1>9 DEF EndsProlog
  <2>2. k <= m
    BY <1>2, <2>1
  <2>3. ASSUME k < m
        PROVE  FALSE
    <3>1. k + 1 \in 1..m /\ k # Len(xml)
      BY <1>1, <1>5, <2>1, <2>3
    <3>2. InProlog(xml[k + 1])
      BY <1>9, <3>1 DEF EndsProlog
    <3> QED BY <1>8, <3>1, <3>2 DEF EndsProlog
  <2> QED BY <1>1, <1>5, <2>1, <2>2, <2>3
<1> QED BY <1>6, <1>8, <1>9

(* The element of a source that begins at i. *)
elementAt(body, i) ==
  [name |-> body[i].tag, selfClosing |-> body[i].kind = "void",
   rawBegin |-> i - 1, valueBegin |-> i,
   valueEnd |-> IF endOf(body, i) = i THEN i ELSE endOf(body, i) - 1,
   rawEnd |-> endOf(body, i)]

(* The parser makes one range of every element. *)
LEMMA RangesAreElements ==
  ASSUME NEW body, Len(body) \in Nat
  PROVE  /\ Len(rangesOf(body)) = Cardinality(Starts(body))
         /\ Len(rangesOf(body)) \in Nat
         /\ \A n \in 1..Len(rangesOf(body)) :
              /\ startOf(body, n) \in Starts(body)
              /\ rangesOf(body)[n] = elementAt(body, startOf(body, n))
         /\ \A i \in Starts(body) : \E n \in 1..Len(rangesOf(body)) :
              rangesOf(body)[n] = elementAt(body, i)
         /\ Range(rangesOf(body)) = {elementAt(body, i) : i \in Starts(body)}
<1> DEFINE ranges == rangesOf(body)
           N == Cardinality(Starts(body))
<1>1. ranges = [n \in 1..N |-> elementAt(body, startOf(body, n))]
  BY DEF rangesOf, elementAt
<1>2. N \in Nat /\ \A n \in 1..N : startOf(body, n) \in Starts(body)
  BY StartsAreCounted
<1>3. \A i \in Starts(body) : \E n \in 1..N : startOf(body, n) = i
  <2>1. Starts(body) \in SUBSET (1..Len(body))
    BY DEF Starts, Positions
  <2> QED BY <2>1, NthCounts DEF startOf
<1> HIDE DEF ranges, N
<1>4. DOMAIN ranges = 1..N /\ Len(ranges) = N
  BY <1>1, <1>2
<1>5. \A n \in 1..N : ranges[n] = elementAt(body, startOf(body, n))
  BY <1>1
<1>6. \A i \in Starts(body) : \E n \in 1..N : ranges[n] = elementAt(body, i)
  BY <1>3, <1>5
<1>7. Range(ranges) = {elementAt(body, i) : i \in Starts(body)}
  <2>1. Range(ranges) = {ranges[n] : n \in 1..N}
    BY <1>4 DEF Range
  <2>2. ASSUME NEW a \in Range(ranges)
        PROVE  \E i \in Starts(body) : a = elementAt(body, i)
    <3>1. PICK n \in 1..N : a = ranges[n]
      BY <2>1
    <3>2. a = elementAt(body, startOf(body, n)) /\ startOf(body, n) \in Starts(body)
      BY <1>2, <1>5, <3>1
    <3> QED BY <3>2
  <2>3. \A i \in Starts(body) : elementAt(body, i) \in Range(ranges)
    BY <1>6, <2>1
  <2> QED BY <2>2, <2>3
<1> QED BY <1>2, <1>4, <1>5, <1>6, <1>7 DEF ranges, N

(* A body is one tree: its elements are nested, one of them begins it, and *)
(* nothing but comments, instructions and white space follows that one.    *)
OneTree(body) ==
  /\ TagsPair(body) /\ Nested(body) /\ 1 \in Starts(body)
  /\ \A i \in 1..Len(body) : i > endOf(body, 1) => body[i].kind \in Misc

(* The hierarchy that is validated is that of nested elements. *)
LEMMA ValidIsNested ==
  ASSUME NEW body, Len(body) \in Nat, TagsPair(body)
  PROVE  validateNodeHierarchy(rangesOf(body)) <=> Nested(body)
<1> DEFINE el(i) == elementAt(body, i)
           Apart2(i, j) == \/ el(i).rawEnd <= el(j).rawBegin \/ el(j).rawEnd <= el(i).rawBegin
                           \/ el(i) = el(j) \/ Within(el(i), el(j)) \/ Within(el(j), el(i))
           Follows(i, j) == i < j /\ j <= endOf(body, i) => endOf(body, j) < endOf(body, i)
<1>1. validateNodeHierarchy(rangesOf(body)) <=> \A i, j \in Starts(body) : Apart2(i, j)
  <2>1. Range(rangesOf(body)) = {el(i) : i \in Starts(body)}
    BY RangesAreElements
  <2> HIDE DEF el
  <2> QED BY <2>1 DEF validateNodeHierarchy
<1>2. Nested(body) <=> \A i, j \in Starts(body) : Follows(i, j)
  BY DEF Nested
<1>3. ASSUME NEW i \in Starts(body), NEW j \in Starts(body)
      PROVE  /\ Apart2(i, j) => Follows(i, j)
             /\ Follows(i, j) /\ Follows(j, i) => Apart2(i, j)
  <2> DEFINE e == endOf(body, i)
             f == endOf(body, j)
  <2>1. i \in Nat /\ e \in Nat /\ i >= 1 /\ i <= e /\ j \in Nat /\ f \in Nat /\ j >= 1 /\ j <= f
    BY ElementsHaveEnds
  <2> DEFINE a == el(i)
             b == el(j)
  <2>2. /\ a.rawBegin = i - 1 /\ a.rawEnd = e /\ a.valueBegin = i
        /\ a.valueEnd = IF e = i THEN i ELSE e - 1
        /\ b.rawBegin = j - 1 /\ b.rawEnd = f /\ b.valueBegin = j
        /\ b.valueEnd = IF f = j THEN j ELSE f - 1
    BY DEF elementAt
  <2>3. i = j => a = b
    OBVIOUS
  <2> HIDE DEF el, a, b, e, f
  <2>4. \/ a.rawEnd <= b.rawBegin \/ b.rawEnd <= a.rawBegin
        \/ a = b \/ Within(a, b) \/ Within(b, a)
        => (i < j /\ j <= e => f < e)
    BY <2>1, <2>2 DEF Within
  <2>5. (i < j /\ j <= e => f < e) /\ (j < i /\ i <= f => e < f)
        => \/ a.rawEnd <= b.rawBegin \/ b.rawEnd <= a.rawBegin
           \/ a = b \/ Within(a, b) \/ Within(b, a)
    BY <2>1, <2>2, <2>3 DEF Within
  <2> QED BY <2>4, <2>5 DEF a, b, e, f
<1> HIDE DEF Apart2, Follows
<1> QED BY <1>1, <1>2, <1>3

(* A body begins with an element or is empty. *)
LEMMA BodyBegins ==
  ASSUME NEW T, NEW xml \in Seq(T)
  PROVE  LET k == Len(prologOf(xml))
             body == bodyOf(xml)
         IN /\ body \in Seq(T) /\ Len(body) = Len(xml) - k /\ Len(body) \in Nat
            /\ k \in 0..Len(xml)
            /\ \A i \in 1..Len(body) : body[i] = xml[k + i]
            /\ containsOnlyXmlMisc(body) <=> body = <<>>
            /\ body = <<>> <=> Len(body) = 0
<1> DEFINE k == Len(prologOf(xml))
           body == bodyOf(xml)
<1>1. /\ k \in 0..Len(xml) /\ Len(body) = Len(xml) - k
      /\ \A i \in 1..Len(body) : body[i] = xml[k + i]
  BY PrologAndBody DEF bodyOf
<1>2. Len(xml) \in Nat
  OBVIOUS
<1>3. body \in Seq(T)
  BY <1>1, <1>2 DEF bodyOf
<1>4. EndsProlog(xml, k)
  BY PrologEnds
<1> HIDE DEF k, body
<1>5. body = <<>> <=> Len(body) = 0
  BY <1>3
<1>6. ASSUME containsOnlyXmlMisc(body), Len(body) # 0
      PROVE  FALSE
  <2>1. 1 \in 1..Len(body) /\ k # Len(xml)
    BY <1>1, <1>2, <1>6
  <2>2. body[1] = xml[k + 1]
    BY <1>1, <2>1
  <2>3. body[1].kind \in Misc
    BY <1>6, <2>1 DEF containsOnlyXmlMisc
  <2> QED BY <1>4, <2>1, <2>2, <2>3 DEF EndsProlog, InProlog
<1>7. Len(body) = 0 => containsOnlyXmlMisc(body)
  BY DEF containsOnlyXmlMisc
<1>8. Len(body) \in Nat
  BY <1>1, <1>2
<1> QED BY <1>1, <1>3, <1>5, <1>6, <1>7, <1>8 DEF k, body

(* A source parses when its prolog is accepted and its body is one tree,   *)
(* or, where that is allowed, empty.                                       *)
LEMMA ParsesIsTree ==
  ASSUME NEW T, NEW xml \in Seq(T), NEW allowEmpty \in BOOLEAN
  PROVE  Parses(xml, allowEmpty) <=>
           /\ prologAccepted(prologOf(xml))
           /\ OneTree(bodyOf(xml)) \/ (allowEmpty /\ bodyOf(xml) = <<>>)
<1> DEFINE body == bodyOf(xml)
           ranges == rangesOf(body)
           roots == {a \in Range(ranges) : \A b \in Range(ranges) : ~Within(a, b)}
           L == Len(body)
           Single == /\ Cardinality(roots) = 1
                     /\ \A root \in roots :
                          /\ root.rawBegin = 0
                          /\ containsOnlyXmlMisc(SubSeq(body, root.rawEnd + 1, L))
           Rooted == /\ 1 \in Starts(body)
                     /\ \A i \in 1..L : i > endOf(body, 1) => body[i].kind \in Misc
<1>1. Parses(xml, allowEmpty) <=>
        /\ prologAccepted(prologOf(xml))
        /\ IF containsOnlyXmlMisc(body) THEN allowEmpty
           ELSE TagsPair(body) /\ Single /\ validateNodeHierarchy(ranges)
  BY DEF Parses, bodyOf
<1>2. /\ body \in Seq(T) /\ L \in Nat /\ (containsOnlyXmlMisc(body) <=> body = <<>>)
      /\ body = <<>> <=> L = 0
  BY BodyBegins
<1>3. OneTree(body) => body # <<>>
  <2>1. 1 \in Starts(body) => 1 \in 1..L
    BY DEF Starts, Positions
  <2> QED BY <1>2, <2>1 DEF OneTree
<1>4. TagsPair(body) => (validateNodeHierarchy(ranges) <=> Nested(body))
  BY <1>2, ValidIsNested
<1>5. ASSUME TagsPair(body), Nested(body)
      PROVE  Single <=> Rooted
  <2> DEFINE el(i) == elementAt(body, i)
  <2>1. Range(ranges) = {el(i) : i \in Starts(body)}
    BY <1>2, RangesAreElements
  <2>2. ASSUME NEW i \in Starts(body)
        PROVE  /\ i \in 1..L /\ i \in Nat /\ i >= 1 /\ endOf(body, i) \in i..L
               /\ el(i).rawBegin = i - 1 /\ el(i).rawEnd = endOf(body, i)
               /\ el(i).valueBegin = i
               /\ el(i).valueEnd = IF endOf(body, i) = i THEN i ELSE endOf(body, i) - 1
               /\ body[i].kind \notin Misc
    <3>1. body[i].kind \notin Misc
      BY DEF Starts, Positions, Misc
    <3>2. i \in 1..L /\ i \in Nat /\ i >= 1 /\ endOf(body, i) \in i..L
      BY <1>2, <1>5, ElementsHaveEnds
    <3> QED BY <3>1, <3>2 DEF elementAt
  <2> HIDE DEF el
  <2>3. ASSUME NEW i \in Starts(body)
        PROVE  containsOnlyXmlMisc(SubSeq(body, endOf(body, i) + 1, L)) <=>
                 \A j \in 1..L : j > endOf(body, i) => body[j].kind \in Misc
    <3> DEFINE e == endOf(body, i)
               tail == SubSeq(body, e + 1, L)
    <3>1. e \in 0..L /\ e \in Nat
      BY <2>2
    <3> HIDE DEF e
    <3>2. e + 1 \in Int /\ L \in Int /\ \A j \in e + 1..L : body[j] \in T
      BY <1>2, <3>1
    <3>3. /\ Len(tail) = IF e + 1 <= L THEN L - (e + 1) + 1 ELSE 0
          /\ \A j \in 1..L - (e + 1) + 1 : tail[j] = body[(e + 1) + j - 1]
      BY <3>2, SubSeqProperties
    <3> HIDE DEF tail, L
    <3>4. Len(tail) = L - e
      BY <1>2, <3>1, <3>3
    <3>5. \A j \in 1..L - e : tail[j] = body[e + j]
      <4>1. L - (e + 1) + 1 = L - e /\ \A j \in 1..L - e : (e + 1) + j - 1 = e + j
        BY <1>2, <3>1
      <4> QED BY <3>3, <4>1
    <3>6. ASSUME containsOnlyXmlMisc(tail), NEW j \in 1..L, j > e
          PROVE  body[j].kind \in Misc
      <4> DEFINE n == j - e
      <4>1. n \in 1..L - e /\ e + n = j
        BY <1>2, <3>1, <3>6
      <4> HIDE DEF n
      <4>2. tail[n].kind \in Misc
        BY <3>4, <3>6, <4>1 DEF containsOnlyXmlMisc
      <4> QED BY <3>5, <4>1, <4>2
    <3>7. ASSUME \A j \in 1..L : j > e => body[j].kind \in Misc
          PROVE  containsOnlyXmlMisc(tail)
      <4>1. \A n \in 1..L - e : e + n \in 1..L /\ e + n > e
        BY <1>2, <3>1
      <4> QED BY <3>4, <3>5, <3>7, <4>1 DEF containsOnlyXmlMisc
    <3> QED BY <3>6, <3>7 DEF e, tail
  <2>4. ASSUME Single
        PROVE  Rooted
    <3>1. PICK a \in roots : TRUE
      <4>1. Cardinality({}) = 0
        BY FS_EmptySet
      <4>2. roots # {}
        <5>1. Cardinality(roots) = 1
          BY <2>4
        <5> HIDE DEF roots
        <5>2. ASSUME roots = {}
              PROVE  FALSE
          <6>1. Cardinality(roots) = Cardinality({})
            BY <5>2
          <6> QED BY <4>1, <5>1, <6>1
        <5> QED BY <5>2
      <4> QED BY <4>2
    <3>2. PICK i \in Starts(body) : a = el(i)
      BY <2>1, <3>1
    <3>3. a.rawBegin = 0 /\ containsOnlyXmlMisc(SubSeq(body, a.rawEnd + 1, L))
      BY <2>4, <3>1
    <3>4. i = 1
      <4>1. i - 1 = 0 /\ i \in Nat
        BY <2>2, <3>2, <3>3
      <4> QED BY <4>1
    <3>5. containsOnlyXmlMisc(SubSeq(body, endOf(body, i) + 1, L))
      BY <2>2, <3>2, <3>3
    <3> QED BY <2>3, <3>2, <3>4, <3>5
  <2>5. ASSUME Rooted
        PROVE  Single
    <3> DEFINE one == 1
    <3>1. one \in Starts(body) /\ \A i \in 1..L : i > endOf(body, one) => body[i].kind \in Misc
      BY <2>5
    <3>2. one = 1
      OBVIOUS
    <3> HIDE DEF one
    <3>3. ASSUME NEW i \in Starts(body)
          PROVE  /\ ~Within(el(one), el(i))
                 /\ i # one => Within(el(i), el(one))
      <4> DEFINE e == endOf(body, i)
                 f == endOf(body, one)
      <4>1. /\ i \in 1..L /\ i \in Nat /\ e \in i..L /\ f \in one..L /\ f \in Nat /\ e \in Nat
            /\ el(i).rawBegin = i - 1 /\ el(i).rawEnd = e /\ el(i).valueBegin = i
            /\ el(one).rawBegin = one - 1 /\ el(one).rawEnd = f /\ el(one).valueBegin = one
            /\ el(one).valueEnd = IF f = one THEN one ELSE f - 1
            /\ body[i].kind \notin Misc
        BY <1>2, <2>2, <3>1, <3>2
      <4>2. one < i /\ i <= f => e < f
        BY <1>5, <3>1 DEF Nested
      <4>3. ~(i > f)
        BY <3>1, <4>1
      <4> HIDE DEF e, f, L
      <4>4. ~Within(el(one), el(i))
        BY <3>2, <4>1 DEF Within
      <4>5. i # one => Within(el(i), el(one))
        BY <3>2, <4>1, <4>2, <4>3 DEF Within
      <4> QED BY <4>4, <4>5
    <3>4. roots = {el(one)}
      <4>1. el(one) \in roots
        BY <2>1, <3>1, <3>3
      <4>2. ASSUME NEW a \in roots
            PROVE  a = el(one)
        <5>1. PICK i \in Starts(body) : a = el(i)
          BY <2>1
        <5>2. ~Within(a, el(one))
          BY <2>1, <3>1
        <5> QED BY <3>3, <5>1, <5>2
      <4> QED BY <4>1, <4>2
    <3>5. Cardinality({el(one)}) = 1
      BY FS_Singleton
    <3>6. /\ el(one).rawBegin = 0
          /\ containsOnlyXmlMisc(SubSeq(body, el(one).rawEnd + 1, L))
      <4>1. el(one).rawBegin = one - 1 /\ el(one).rawEnd = endOf(body, one)
        BY <2>2, <3>1
      <4>2. containsOnlyXmlMisc(SubSeq(body, endOf(body, one) + 1, L))
        BY <2>3, <3>1
      <4>3. one - 1 = 0
        BY <3>2
      <4> QED BY <4>1, <4>2, <4>3
    <3> HIDE DEF roots
    <3> QED BY <3>4, <3>5, <3>6
  <2> QED BY <2>4, <2>5
<1>6. OneTree(body) <=> TagsPair(body) /\ Nested(body) /\ Rooted
  BY DEF OneTree
<1> HIDE DEF Single, Rooted, ranges, L
<1>7. Parses(xml, allowEmpty) <=>
        /\ prologAccepted(prologOf(xml))
        /\ OneTree(body) \/ (allowEmpty /\ body = <<>>)
  BY <1>1, <1>2, <1>3, <1>4, <1>5, <1>6
<1> QED BY <1>7

(* The node of an element of the body, behind k tokens of prolog. *)
IsNodeAt(node, body, k, i) ==
  /\ node.rawBegin = k + (i - 1) /\ node.rawEnd = k + endOf(body, i)
  /\ node.name = body[i].tag
  /\ node.selfClosing <=> body[i].kind = "void"
  /\ node.valueEnd = k + (IF endOf(body, i) = i THEN i ELSE endOf(body, i) - 1)

(* The nodes of a source are the elements of its body. *)
NodesAreElements(nodes, xml) ==
  LET body == bodyOf(xml)
      k == Len(prologOf(xml))
  IN /\ Len(nodes) \in Nat
     /\ \A n \in 1..Len(nodes) : \E i \in Starts(body) : IsNodeAt(nodes[n], body, k, i)
     /\ \A i \in Starts(body) : \E n \in 1..Len(nodes) : IsNodeAt(nodes[n], body, k, i)
     /\ \A m, n \in 1..Len(nodes) : nodes[m].rawBegin = nodes[n].rawBegin => m = n

(* Those that a source parses into are. *)
LEMMA ParsedElements ==
  ASSUME NEW T, NEW xml \in Seq(T), Parses(xml, TRUE)
  PROVE  /\ NodesAreElements(parseNodes(xml), xml)
         /\ Len(parseNodes(xml)) = Cardinality(Starts(bodyOf(xml)))
<1> DEFINE k == Len(prologOf(xml))
           body == bodyOf(xml)
           ranges == rangesOf(body)
           parsed == parseNodes(xml)
           N == Len(ranges)
<1>1. /\ Len(body) \in Nat /\ k \in Nat
  BY BodyBegins
<1>2. /\ N \in Nat /\ N = Cardinality(Starts(body))
      /\ \A n \in 1..N : /\ startOf(body, n) \in Starts(body)
                         /\ ranges[n] = elementAt(body, startOf(body, n))
      /\ \A i \in Starts(body) : \E n \in 1..N : ranges[n] = elementAt(body, i)
  BY <1>1, RangesAreElements
<1>3. ElementsOf(xml, parsed)
  BY ParsedNodes
<1>4. /\ Len(parsed) = N
      /\ \A n \in 1..N : /\ parsed[n].name = ranges[n].name
                         /\ parsed[n].selfClosing = ranges[n].selfClosing
                         /\ parsed[n].rawBegin = k + ranges[n].rawBegin
                         /\ parsed[n].rawEnd = k + ranges[n].rawEnd
                         /\ parsed[n].valueEnd = k + ranges[n].valueEnd
  <2> DEFINE above == [i \in 1..N |-> {m \in 1..i - 1 : Within(ranges[i], ranges[m])}]
             above2 == [i \in 1..N |-> IF above[i] = {} THEN {} ELSE {Max(above[i])}]
             below(n) == {m \in 1..N : n \in above2[m]}
             node(n) == [id |-> n, name |-> ranges[n].name, parentId |-> above2[n],
                depth |-> Cardinality(above[n]),
                childIds |-> [j \in 1..Cardinality(below(n)) |-> nth(below(n), j)],
                selfClosing |-> ranges[n].selfClosing,
                rawBegin |-> k + ranges[n].rawBegin,
                valueBegin |-> k + ranges[n].valueBegin,
                valueEnd |-> k + ranges[n].valueEnd, rawEnd |-> k + ranges[n].rawEnd]
  <2>1. parsed = [n \in 1..N |-> node(n)]
    BY DEF parseNodes, bodyOf
  <2> HIDE DEF parsed, N, ranges, above, above2, below, k
  <2>2. DOMAIN parsed = 1..N /\ Len(parsed) = N
    <3> HIDE DEF node
    <3> QED BY <1>2, <2>1
  <2>3. \A n \in 1..N : parsed[n] = node(n)
    <3> HIDE DEF node
    <3> QED BY <2>1
  <2> QED BY <2>2, <2>3
<1>5. ASSUME NEW n \in 1..N, NEW i, ranges[n] = elementAt(body, i)
      PROVE  IsNodeAt(parsed[n], body, k, i)
  <2>1. /\ ranges[n].name = body[i].tag
        /\ ranges[n].selfClosing = (body[i].kind = "void")
        /\ ranges[n].rawBegin = i - 1
        /\ ranges[n].rawEnd = endOf(body, i)
        /\ ranges[n].valueEnd = IF endOf(body, i) = i THEN i ELSE endOf(body, i) - 1
    BY <1>5 DEF elementAt
  <2> HIDE DEF parsed, ranges, N, k
  <2> QED BY <1>4, <2>1 DEF IsNodeAt
<1>6. \A m, n \in 1..Len(parsed) : parsed[m].rawBegin = parsed[n].rawBegin => m = n
  <2> SUFFICES ASSUME NEW m \in 1..Len(parsed), NEW n \in 1..Len(parsed),
                      parsed[m].rawBegin = parsed[n].rawBegin
               PROVE  m = n
    OBVIOUS
  <2>1. /\ m < n <=> parsed[m].rawBegin < parsed[n].rawBegin
        /\ n < m <=> parsed[n].rawBegin < parsed[m].rawBegin
        /\ parsed[m].rawBegin \in Nat /\ m \in Nat /\ n \in Nat
    BY <1>3 DEF ElementsOf
  <2> HIDE DEF parsed
  <2> QED BY <2>1
<1> HIDE DEF parsed, ranges, N, k, body
<1>7. \A n \in 1..N : \E i \in Starts(body) : IsNodeAt(parsed[n], body, k, i)
  BY <1>2, <1>5
<1>8. \A i \in Starts(body) : \E n \in 1..N : IsNodeAt(parsed[n], body, k, i)
  BY <1>2, <1>5
<1>9. Len(parsed) \in Nat
  BY <1>2, <1>4
<1> QED BY <1>2, <1>4, <1>6, <1>7, <1>8, <1>9 DEF NodesAreElements, parsed, k, body

(* So are the nodes of a document. *)
LEMMA DocumentElements ==
  ASSUME XmlAssumption, NEW doc, TreeSound(doc)
  PROVE  /\ NodesAreElements(doc.nodes, doc.xml)
         /\ prologAccepted(prologOf(doc.xml))
         /\ OneTree(bodyOf(doc.xml)) \/ bodyOf(doc.xml) = <<>>
         /\ \A node \in Range(doc.nodes) : \E i \in Starts(bodyOf(doc.xml)) :
              IsNodeAt(node, bodyOf(doc.xml), Len(prologOf(doc.xml)), i)
<1> DEFINE xml == doc.xml
           parsed == parseNodes(xml)
           nodes == doc.nodes
           idOf == [n \in 1..Len(nodes) |-> nodes[n].id]
<1>1. xml \in Seq(TreeToken) /\ Parses(xml, TRUE)
  BY DEF TreeSound
<1>2. Forest(xml, parsed)
  BY <1>1, ParsedForest
<1>3. nodes = remapped(parsed, idOf) /\ Len(nodes) = Len(parsed)
  BY DEF TreeSound
<1>4. SamePlaces(nodes, parsed)
  <2> HIDE DEF nodes, parsed, idOf, xml
  <2> QED BY <1>2, <1>3, RemappedNodes
<1>5. NodesAreElements(parsed, xml)
  BY <1>1, ParsedElements
<1>6. NodesAreElements(nodes, xml)
  <2> HIDE DEF nodes, parsed, idOf, xml
  <2>1. ASSUME NEW body, NEW k, NEW n \in 1..Len(parsed), NEW i
        PROVE  IsNodeAt(nodes[n], body, k, i) <=> IsNodeAt(parsed[n], body, k, i)
    BY <1>4 DEF SamePlaces, IsNodeAt
  <2>2. \A n \in 1..Len(parsed) : nodes[n].rawBegin = parsed[n].rawBegin
    BY <1>4 DEF SamePlaces
  <2> QED BY <1>3, <1>5, <2>1, <2>2 DEF NodesAreElements
<1>7. Range(nodes) = {nodes[n] : n \in 1..Len(nodes)}
  BY DocumentNodes
<1>8. /\ prologAccepted(prologOf(xml))
      /\ OneTree(bodyOf(xml)) \/ bodyOf(xml) = <<>>
  BY <1>1, ParsesIsTree
<1>9. \A node \in Range(nodes) : \E i \in Starts(bodyOf(xml)) :
        IsNodeAt(node, bodyOf(xml), Len(prologOf(xml)), i)
  <2> HIDE DEF nodes, xml
  <2> QED BY <1>6, <1>7 DEF NodesAreElements
<1> QED BY <1>6, <1>8, <1>9
-----------------------------------------------------------------------------
(* An edit that leaves a tree: paired and nested tags take the place of a  *)
(* range that no element crosses, inside of the root or as the root.       *)
TreeEdit(doc, edit) ==
  LET k == Len(prologOf(doc.xml))
      body == bodyOf(doc.xml)
      a == edit.begin - k
      z == edit.end - k
      r == edit.replacement
  IN /\ IsRange(edit, doc.xml) /\ r \in Seq(TreeToken) /\ k <= edit.begin
     /\ TagsPair(r) /\ Nested(r) /\ Whole(body, a, z)
     /\ \/ /\ a = 0 /\ 1 \in Starts(r) /\ endOf(r, 1) = Len(r)
           /\ \A i \in 1..Len(body) : i > z => body[i].kind \in Misc
        \/ a > 0 /\ 1 \in Starts(body) /\ z < endOf(body, 1)

(* new is xml spliced in its body, behind the k tokens of its prolog. *)
SplicedBody(T, new, xml, A, Z, r, k) ==
  /\ Len(prologOf(new)) = k
  /\ prologAccepted(prologOf(xml)) => prologAccepted(prologOf(new))
  /\ IsSplice(T, bodyOf(new), bodyOf(xml), A - k, Z - k, r)
  /\ A - k \in Nat /\ Z - k \in Nat /\ A - k <= Z - k /\ Z - k <= Len(bodyOf(xml))
  /\ Len(bodyOf(xml)) \in Nat

(* A splice behind the prolog leaves the prolog. *)
LEMMA BodyIsSpliced ==
  ASSUME NEW T, NEW xml \in Seq(T), NEW new, NEW A \in Nat, NEW Z \in Nat, A <= Z,
         Z <= Len(xml), NEW r \in Seq(T), IsSplice(T, new, xml, A, Z, r),
         NEW k, k = Len(prologOf(xml)), k <= A,
         EndsProlog(new, k)
  PROVE  SplicedBody(T, new, xml, A, Z, r, k)
<1> DEFINE R == Len(r)
           L == Len(xml)
           body == bodyOf(xml)
           next == bodyOf(new)
           a == A - k
           z == Z - k
<1>1. /\ new \in Seq(T) /\ Len(new) = A + R + (L - Z)
      /\ \A p \in 1..A : new[p] = xml[p]
      /\ \A p \in 1..R : new[A + p] = r[p]
      /\ \A p \in Z + 1..L : new[A + R + (p - Z)] = xml[p]
  BY DEF IsSplice
<1>2. Len(prologOf(new)) = k
  BY <1>1, PrologEnds
<1>3. R \in Nat /\ L \in Nat
  OBVIOUS
<1>4. /\ body \in Seq(T) /\ Len(body) = L - k /\ k \in 0..L
      /\ \A i \in 1..Len(body) : body[i] = xml[k + i]
  BY BodyBegins
<1>5. /\ next \in Seq(T) /\ Len(next) = Len(new) - k
      /\ \A i \in 1..Len(next) : next[i] = new[k + i]
  <2> DEFINE l == Len(prologOf(new))
  <2>1. /\ next \in Seq(T) /\ Len(next) = Len(new) - l
        /\ \A i \in 1..Len(next) : next[i] = new[l + i]
    BY <1>1, BodyBegins
  <2>2. l = k
    BY <1>2
  <2> HIDE DEF l, next
  <2> QED BY <2>1, <2>2
<1>6. ASSUME prologAccepted(prologOf(xml))
      PROVE  prologAccepted(prologOf(new))
  <2>1. \A i \in 1..k : prologOf(new)[i] = xml[i] /\ prologOf(xml)[i] = xml[i]
    <3>1. \A i \in 1..k : prologOf(xml)[i] = xml[i]
      BY PrologEnds
    <3>2. \A i \in 1..k : prologOf(new)[i] = new[i]
      BY <1>1, <1>2, PrologEnds
    <3>3. \A i \in 1..k : i \in 1..A
      BY <1>4
    <3> QED BY <1>1, <3>1, <3>2, <3>3
  <2> HIDE DEF R, L, body, next, a, z
  <2> QED BY <1>2, <1>6, <2>1 DEF prologAccepted
<1> HIDE DEF R, L, body, next
<1>7. a \in Nat /\ z \in Nat /\ a <= z /\ z <= Len(body) /\ Len(body) \in Nat
  BY <1>3, <1>4 DEF L
<1>8. IsSplice(T, next, body, a, z, r)
  <2>1. Len(next) = a + Len(r) + (Len(body) - z)
    BY <1>1, <1>3, <1>4, <1>5 DEF R
  <2>2. ASSUME NEW p \in 1..a
        PROVE  next[p] = body[p]
    <3>1. p \in 1..Len(next) /\ p \in 1..Len(body) /\ k + p \in 1..A
      BY <1>3, <1>4, <1>7, <2>1 DEF R
    <3> QED BY <1>1, <1>4, <1>5, <3>1
  <2>3. ASSUME NEW p \in 1..Len(r)
        PROVE  next[a + p] = r[p]
    <3>1. a + p \in 1..Len(next) /\ k + (a + p) = A + p /\ p \in 1..R
      BY <1>3, <1>4, <1>7, <2>1 DEF R
    <3> QED BY <1>1, <1>5, <3>1
  <2>4. ASSUME NEW p \in z + 1..Len(body)
        PROVE  next[a + Len(r) + (p - z)] = body[p]
    <3> DEFINE q == a + Len(r) + (p - z)
               x == k + p
    <3>1. /\ q \in 1..Len(next) /\ p \in 1..Len(body)
          /\ x \in Z + 1..L /\ k + q = A + R + (x - Z)
      BY <1>3, <1>4, <1>7, <2>1 DEF R
    <3> HIDE DEF q
    <3>2. next[q] = new[A + R + (x - Z)]
      BY <1>5, <3>1
    <3>3. new[A + R + (x - Z)] = xml[x]
      <4> HIDE DEF x
      <4> QED BY <1>1, <3>1
    <3>4. body[p] = xml[x]
      BY <1>4, <3>1
    <3> QED BY <3>2, <3>3, <3>4 DEF q
  <2> HIDE DEF a, z
  <2> QED BY <1>5, <2>1, <2>2, <2>3, <2>4 DEF IsSplice
<1> QED BY <1>2, <1>6, <1>7, <1>8 DEF body, next, SplicedBody

(* A body that is a tree or empty has nested elements. *)
LEMMA TreesAreNested ==
  ASSUME NEW body, OneTree(body) \/ body = <<>>
  PROVE  TagsPair(body) /\ Nested(body)
<1>1. CASE body = <<>>
  <2>1. /\ Positions(body, "open") = {} /\ Positions(body, "close") = {}
        /\ Positions(body, "void") = {}
    BY <1>1 DEF Positions
  <2>2. Starts(body) = {}
    BY <2>1 DEF Starts
  <2> QED BY <2>1, <2>2 DEF TagsPair, Nested
<1>2. CASE OneTree(body)
  BY <1>2 DEF OneTree
<1> QED BY <1>1, <1>2

(* What such an edit leaves. *)
LEMMA TreeEditsLeaveTrees ==
  ASSUME XmlAssumption, NEW doc, TreeSound(doc), NEW edit, TreeEdit(doc, edit)
  PROVE  LET new == nextXml(doc, edit)
             k == Len(prologOf(doc.xml))
         IN /\ new \in Seq(TreeToken) /\ Parses(new, TRUE)
            /\ Len(prologOf(new)) = k /\ k \in Nat
            /\ ElementsMove(bodyOf(new), bodyOf(doc.xml), edit.begin - k, edit.end - k,
                            edit.replacement)
            /\ TagsPair(bodyOf(new)) /\ Len(bodyOf(new)) \in Nat
<1> DEFINE xml == doc.xml
           new == nextXml(doc, edit)
           A == edit.begin
           Z == edit.end
           r == edit.replacement
           k == Len(prologOf(xml))
           body == bodyOf(xml)
           next == bodyOf(new)
           a == A - k
           z == Z - k
           R == Len(r)
<1>1. /\ IsRange(edit, xml) /\ r \in Seq(TreeToken) /\ k <= A
      /\ TagsPair(r) /\ Nested(r) /\ Whole(body, a, z)
      /\ \/ /\ a = 0 /\ 1 \in Starts(r) /\ endOf(r, 1) = R
            /\ \A i \in 1..Len(body) : i > z => body[i].kind \in Misc
         \/ a > 0 /\ 1 \in Starts(body) /\ z < endOf(body, 1)
  BY DEF TreeEdit
<1>2. xml \in Seq(TreeToken)
  BY DEF TreeSound
<1>3. /\ prologAccepted(prologOf(xml)) /\ (OneTree(body) \/ body = <<>>)
  BY DocumentElements
<1>4. TagsPair(body) /\ Nested(body)
  BY <1>3, TreesAreNested
<1>5. IsSplice(TreeToken, new, xml, A, Z, r)
  BY <1>1, <1>2, NextXmlIsSplice
<1>6. A \in Nat /\ Z \in Nat /\ R \in Nat /\ A <= Z /\ Z <= Len(xml) /\ Len(xml) \in Nat
  BY <1>1, <1>2 DEF IsRange
<1>7. /\ k \in 0..Len(xml) /\ Len(body) = Len(xml) - k
      /\ \A i \in 1..Len(body) : body[i] = xml[k + i]
  BY <1>2, BodyBegins
<1> HIDE DEF xml, new, A, Z, k, body, next, r, R
<1>8. EndsProlog(new, k)
  <2>1. /\ Len(new) = A + R + (Len(xml) - Z)
        /\ \A p \in 1..A : new[p] = xml[p]
        /\ \A p \in 1..R : new[A + p] = r[p]
    BY <1>5 DEF IsSplice, R
  <2>2. \A s : \A i \in Starts(s) : i \in 1..Len(s) /\ ~InProlog(s[i])
    BY DEF Starts, Positions, InProlog, Misc
  <2>3. EndsProlog(xml, k)
    BY <1>2, PrologEnds DEF k
  <2>4. k \in 0..Len(new)
    BY <1>1, <1>6, <1>7, <2>1
  <2>5. \A i \in 1..k : InProlog(new[i])
    <3>1. \A i \in 1..k : i \in 1..A
      BY <1>1, <1>6, <1>7
    <3> QED BY <2>1, <2>3, <3>1 DEF EndsProlog
  <2>6. ASSUME a = 0, 1 \in Starts(r)
        PROVE  ~InProlog(new[k + 1])
    <3> DEFINE one == 1
    <3>1. one \in Starts(r) /\ one = 1
      BY <2>6
    <3> HIDE DEF one
    <3>2. one \in 1..R /\ ~InProlog(r[one])
      BY <2>2, <3>1 DEF R
    <3>3. k + 1 = A + one
      BY <1>6, <1>7, <2>6, <3>1
    <3> QED BY <2>1, <3>2, <3>3
  <2>7. ASSUME a > 0, 1 \in Starts(body)
        PROVE  ~InProlog(new[k + 1])
    <3> DEFINE one == 1
    <3>1. one \in Starts(body) /\ one = 1
      BY <2>7
    <3> HIDE DEF one
    <3>2. one \in 1..Len(body) /\ ~InProlog(body[one])
      BY <2>2, <3>1
    <3>3. k + 1 = k + one /\ k + 1 \in 1..A
      BY <1>6, <1>7, <2>7, <3>1
    <3> QED BY <1>7, <2>1, <3>2, <3>3
  <2> QED BY <1>1, <2>4, <2>5, <2>6, <2>7 DEF EndsProlog
<1>9. /\ Len(prologOf(new)) = k
      /\ prologAccepted(prologOf(new))
      /\ IsSplice(TreeToken, next, body, a, z, r)
      /\ a \in Nat /\ z \in Nat /\ a <= z /\ z <= Len(body) /\ Len(body) \in Nat
  <2>1. k = Len(prologOf(xml))
    BY DEF k
  <2>2. /\ xml \in Seq(TreeToken) /\ A \in Nat /\ Z \in Nat /\ A <= Z /\ Z <= Len(xml)
        /\ r \in Seq(TreeToken) /\ IsSplice(TreeToken, new, xml, A, Z, r) /\ k <= A
    BY <1>1, <1>2, <1>5, <1>6
  <2>3. SplicedBody(TreeToken, new, xml, A, Z, r, k)
    BY <1>8, <2>1, <2>2, BodyIsSpliced
  <2> QED BY <1>3, <2>3 DEF body, next, SplicedBody
<1> HIDE DEF a, z
<1>10. Len(r) \in Nat
  BY <1>6 DEF R
<1>11. Len(next) \in Nat /\ TagsPair(next) /\ ElementsMove(next, body, a, z, r)
  BY <1>1, <1>4, <1>9, <1>10, WholeSplice
<1>12. Nested(next)
  BY <1>1, <1>4, <1>9, <1>10, NestedSplice
<1>13. /\ Len(next) = a + R + (Len(body) - z)
       /\ \A p \in z + 1..Len(body) : next[a + R + (p - z)] = body[p]
  BY <1>9 DEF IsSplice, R
<1>14. ASSUME NEW e \in Nat, e > z \/ e = z,
              \A i \in 1..Len(body) : i > e => body[i].kind \in Misc,
              NEW i \in 1..Len(next), i > a + R + (e - z)
       PROVE  next[i].kind \in Misc
  <2> DEFINE p == i - (a + R) + z
  <2>1. p \in z + 1..Len(body) /\ p \in 1..Len(body) /\ p > e /\ a + R + (p - z) = i
    BY <1>6, <1>9, <1>13, <1>14
  <2> HIDE DEF p
  <2> QED BY <1>13, <1>14, <2>1
<1>15. ASSUME a = 0, 1 \in Starts(r), endOf(r, 1) = R,
              \A i \in 1..Len(body) : i > z => body[i].kind \in Misc
       PROVE  OneTree(next)
  <2> DEFINE one == 1
  <2>1. one \in Starts(r) /\ endOf(r, one) = R /\ one = 1
    BY <1>15
  <2> HIDE DEF one
  <2>2. a + one \in Starts(next) /\ endOf(next, a + one) = a + R
    BY <1>11, <2>1 DEF ElementsMove
  <2>3. a + one = 1 /\ a + R = R
    BY <1>6, <1>15, <2>1
  <2>4. 1 \in Starts(next) /\ endOf(next, 1) = R
    BY <2>2, <2>3
  <2>5. ASSUME NEW i \in 1..Len(next), i > R
        PROVE  next[i].kind \in Misc
    <3>1. i > a + R + (z - z) /\ (z > z \/ z = z) /\ z \in Nat
      BY <1>6, <1>9, <1>15, <2>5
    <3> QED BY <1>14, <1>15, <3>1
  <2> QED BY <1>11, <1>12, <2>4, <2>5 DEF OneTree
<1>16. ASSUME a > 0, 1 \in Starts(body), z < endOf(body, 1)
       PROVE  OneTree(next)
  <2> DEFINE one == 1
             e == endOf(body, one)
             f == endOf(next, one)
  <2>1. one \in Starts(body) /\ z < e /\ one = 1
    BY <1>16
  <2> HIDE DEF one
  <2>2. e \in Nat
    BY <1>4, <1>9, <2>1, ElementsHaveEnds
  <2>3. Moved(a, z, Len(r), one, one)
    BY <1>9, <1>16, <2>1 DEF Moved
  <2>4. one \in Starts(next) /\ Moved(a, z, Len(r), e, f)
    BY <1>11, <2>1, <2>3 DEF ElementsMove
  <2>5. \A i \in 1..Len(body) : i > e => body[i].kind \in Misc
    <3>1. OneTree(body)
      <4>1. body # <<>>
        <5>1. one \in 1..Len(body)
          BY <2>1 DEF Starts, Positions
        <5> QED BY <5>1
      <4> QED BY <1>3, <4>1
    <3> QED BY <2>1, <3>1 DEF OneTree
  <2> HIDE DEF e, f
  <2>6. f = a + R + (e - z) /\ (e > z \/ e = z)
    BY <1>6, <1>9, <2>1, <2>2, <2>4 DEF Moved, R
  <2>7. \A i \in 1..Len(next) : i > f => next[i].kind \in Misc
    BY <1>14, <2>2, <2>5, <2>6
  <2> QED BY <1>11, <1>12, <2>1, <2>4, <2>7 DEF OneTree, f
<1>17. OneTree(next)
  BY <1>1, <1>15, <1>16
<1>18. new \in Seq(TreeToken)
  BY <1>5 DEF IsSplice
<1>19. Parses(new, TRUE)
  BY <1>9, <1>17, <1>18, ParsesIsTree DEF next
<1>20. k \in Nat
  BY <1>6, <1>7
<1> QED BY <1>9, <1>11, <1>18, <1>19, <1>20 DEF xml, new, A, Z, r, k, body, next, a, z
-----------------------------------------------------------------------------
(* An element of the source lies apart from the edit or within it. *)
LEMMA ElementsAreApart ==
  ASSUME NEW edit, NEW source, IsRange(edit, source), NEW k \in Nat, k <= edit.begin,
         NEW body, Len(body) \in Nat, TagsPair(body),
         Whole(body, edit.begin - k, edit.end - k),
         NEW b, NEW i \in Starts(body), IsNodeAt(b, body, k, i)
  PROVE  /\ HasPlace(b)
         /\ ~Apart(edit, b) => edit.begin <= b.rawBegin /\ b.rawEnd <= edit.end
         /\ Apart(edit, b) <=> i <= edit.begin - k \/ i > edit.end - k
<1> DEFINE A == edit.begin
           Z == edit.end
           a == A - k
           z == Z - k
           e == endOf(body, i)
           x == b.rawBegin
           y == b.rawEnd
<1>1. A \in Nat /\ Z \in Nat /\ A <= Z /\ k <= A
  BY DEF IsRange
<1>2. i \in Nat /\ e \in Nat /\ i >= 1 /\ i <= e
  BY ElementsHaveEnds
<1>3. x = k + (i - 1) /\ y = k + e
  BY DEF IsNodeAt
<1>4. (a < i /\ e <= z) \/ e <= a \/ z < i \/ (i <= a /\ z < e)
  BY DEF Whole
<1> DEFINE apart == (x # A \/ y # Z) /\ (y <= A \/ x >= Z \/ (x < A /\ y > Z))
<1>5. Apart(edit, b) <=> apart
  BY DEF Apart
<1> HIDE DEF A, Z, e, x, y
<1>6. x \in Nat /\ y \in Nat /\ x < y
  BY <1>2, <1>3
<1>7. ~apart => A <= x /\ y <= Z
  BY <1>1, <1>2, <1>3, <1>4
<1>8. i <= a => apart
  BY <1>1, <1>2, <1>3, <1>4
<1>9. i > z => apart
  BY <1>1, <1>2, <1>3, <1>4
<1>10. apart => i <= a \/ i > z
  BY <1>1, <1>2, <1>3, <1>4
<1> HIDE DEF apart
<1> QED BY <1>5, <1>6, <1>7, <1>8, <1>9, <1>10 DEF HasPlace, A, Z, x, y

(* Every node outside of such an edit is found where it is expected, and   *)
(* every other element is one of the replacement.                          *)
MovedElements(doc, edit, parsed) ==
  LET r == edit.replacement
  IN /\ \A m \in 1..Len(doc.nodes) :
          Apart(edit, doc.nodes[m]) =>
            \E n \in 1..Len(parsed) : /\ MovedTo(edit, doc.nodes[m], parsed[n])
                                      /\ doc.nodes[m].name = parsed[n].name
     /\ \A j \in Starts(r) : \E n \in 1..Len(parsed) :
          /\ parsed[n].rawBegin = edit.begin + (j - 1)
          /\ parsed[n].rawEnd = edit.begin + endOf(r, j)
     /\ \A n \in 1..Len(parsed) :
          \/ \E m \in 1..Len(doc.nodes) :
               MovedTo(edit, doc.nodes[m], parsed[n]) /\ doc.nodes[m].name = parsed[n].name
          \/ \E j \in Starts(r) : /\ parsed[n].rawBegin = edit.begin + (j - 1)
                                  /\ parsed[n].rawEnd = edit.begin + endOf(r, j)
     /\ \A n \in 1..Len(parsed) : HasPlace(parsed[n])
     /\ \A m \in 1..Len(doc.nodes) :
          ~Apart(edit, doc.nodes[m]) =>
            edit.begin <= doc.nodes[m].rawBegin /\ doc.nodes[m].rawEnd <= edit.end

LEMMA TreeEditsMoveElements ==
  ASSUME XmlAssumption, NEW doc, TreeSound(doc), NEW edit, TreeEdit(doc, edit)
  PROVE  MovedElements(doc, edit, parseNodes(nextXml(doc, edit)))
<1> DEFINE xml == doc.xml
           new == nextXml(doc, edit)
           A == edit.begin
           Z == edit.end
           r == edit.replacement
           k == Len(prologOf(xml))
           body == bodyOf(xml)
           next == bodyOf(new)
           a == A - k
           z == Z - k
           R == Len(r)
           old == doc.nodes
           parsed == parseNodes(new)
<1>1. /\ IsRange(edit, xml) /\ r \in Seq(TreeToken) /\ k <= A
      /\ TagsPair(r) /\ Whole(body, a, z)
  BY DEF TreeEdit
<1>2. A \in Nat /\ Z \in Nat /\ A <= Z /\ R \in Nat
  BY <1>1 DEF IsRange
<1>3. xml \in Seq(TreeToken)
  BY DEF TreeSound
<1>4. NodesAreElements(old, xml) /\ (OneTree(body) \/ body = <<>>)
  BY DocumentElements
<1>5. TagsPair(body) /\ Len(body) \in Nat
  <2>1. TagsPair(body)
    <3> HIDE DEF body
    <3> QED BY <1>4, TreesAreNested
  <2> QED BY <1>3, <2>1, BodyBegins
<1>6. /\ new \in Seq(TreeToken) /\ Parses(new, TRUE)
      /\ Len(prologOf(new)) = k /\ k \in Nat
      /\ ElementsMove(next, body, a, z, r)
      /\ TagsPair(next) /\ Len(next) \in Nat
  BY TreeEditsLeaveTrees
<1>7. NodesAreElements(parsed, new)
  BY <1>6, ParsedElements
<1>8. /\ \A n \in 1..Len(parsed) : \E i \in Starts(next) : IsNodeAt(parsed[n], next, k, i)
      /\ \A i \in Starts(next) : \E n \in 1..Len(parsed) : IsNodeAt(parsed[n], next, k, i)
  BY <1>6, <1>7 DEF NodesAreElements
<1>9. /\ \A n \in 1..Len(old) : \E i \in Starts(body) : IsNodeAt(old[n], body, k, i)
      /\ \A i \in Starts(body) : \E n \in 1..Len(old) : IsNodeAt(old[n], body, k, i)
  BY <1>4 DEF NodesAreElements
<1>10. \A j \in Starts(r) : j \in Nat /\ endOf(r, j) \in Nat /\ j >= 1
  BY <1>1, <1>2, ElementsHaveEnds
<1>11. /\ \A i \in Starts(body) : i \in Nat /\ endOf(body, i) \in Nat /\ i >= 1
       /\ \A i \in Starts(next) : i \in Nat /\ endOf(next, i) \in Nat /\ i >= 1
                                  /\ i <= endOf(next, i)
  BY <1>5, <1>6, ElementsHaveEnds
<1> HIDE DEF xml, new, A, Z, r, k, body, next, a, z, R, old, parsed
<1>12. ASSUME NEW b, NEW i \in Starts(body), IsNodeAt(b, body, k, i)
       PROVE  /\ ~Apart(edit, b) => A <= b.rawBegin /\ b.rawEnd <= Z
              /\ Apart(edit, b) <=> i <= a \/ i > z
  BY <1>1, <1>5, <1>6, <1>12, ElementsAreApart DEF A, Z, a, z
<1>13. ASSUME NEW i \in Starts(body), NEW b, IsNodeAt(b, body, k, i),
              NEW p \in Starts(next), Moved(a, z, R, i, p),
              NEW c, IsNodeAt(c, next, k, p)
       PROVE  MovedTo(edit, b, c) /\ b.name = c.name
  <2> DEFINE e == endOf(body, i)
             f == endOf(next, p)
  <2>1. next[p] = body[i] /\ Moved(a, z, R, e, f)
    BY <1>6, <1>13 DEF ElementsMove, R
  <2>2. /\ b.rawBegin = k + (i - 1) /\ b.rawEnd = k + e /\ b.name = body[i].tag
        /\ c.rawBegin = k + (p - 1) /\ c.rawEnd = k + f /\ c.name = next[p].tag
    BY <1>13 DEF IsNodeAt
  <2>3. i \in Nat /\ e \in Nat /\ p \in Nat /\ f \in Nat
    BY <1>11
  <2> HIDE DEF e, f
  <2>4. Moved(A, Z, R, b.rawBegin + 1, c.rawBegin + 1)
    <3> DEFINE q == b.rawBegin + 1
               s == c.rawBegin + 1
    <3>1. q = k + i /\ s = k + p
      BY <1>6, <2>2, <2>3
    <3> HIDE DEF q, s
    <3>2. Moved(A, Z, R, q, s)
      BY <1>2, <1>6, <1>13, <2>3, <3>1 DEF Moved, a, z
    <3> QED BY <3>2 DEF q, s
  <2>5. Moved(A, Z, R, b.rawEnd, c.rawEnd)
    BY <1>2, <1>6, <2>1, <2>2, <2>3 DEF Moved, a, z
  <2> QED BY <2>1, <2>2, <2>4, <2>5 DEF MovedTo, A, Z, R, r
<1>14. ASSUME NEW m \in 1..Len(old), Apart(edit, old[m])
       PROVE  \E n \in 1..Len(parsed) : MovedTo(edit, old[m], parsed[n])
                                        /\ old[m].name = parsed[n].name
  <2>1. PICK i \in Starts(body) : IsNodeAt(old[m], body, k, i)
    BY <1>9
  <2>2. i <= a \/ i > z
    BY <1>12, <1>14, <2>1
  <2> DEFINE p == IF i <= a THEN i ELSE a + R + (i - z)
  <2>3. Moved(a, z, R, i, p)
    BY <2>2 DEF Moved
  <2> HIDE DEF p
  <2>4. p \in Starts(next)
    BY <1>6, <2>3 DEF ElementsMove, R
  <2>5. PICK n \in 1..Len(parsed) : IsNodeAt(parsed[n], next, k, p)
    BY <1>8, <2>4
  <2> QED BY <1>13, <2>1, <2>3, <2>4, <2>5
<1>15. ASSUME NEW j \in Starts(r), NEW p, p = a + j, NEW c, IsNodeAt(c, next, k, p)
       PROVE  p \in Starts(next) /\ c.rawBegin = A + (j - 1) /\ c.rawEnd = A + endOf(r, j)
  <2> DEFINE e == endOf(r, j)
  <2>1. p \in Starts(next) /\ endOf(next, p) = a + e
    BY <1>6, <1>15 DEF ElementsMove
  <2>2. c.rawBegin = k + (p - 1) /\ c.rawEnd = k + endOf(next, p)
    BY <1>15 DEF IsNodeAt
  <2>3. j \in Nat /\ e \in Nat
    BY <1>10
  <2> HIDE DEF e
  <2> QED BY <1>2, <1>6, <1>15, <2>1, <2>2, <2>3 DEF a, e
<1>16. ASSUME NEW j \in Starts(r)
       PROVE  \E n \in 1..Len(parsed) : /\ parsed[n].rawBegin = A + (j - 1)
                                        /\ parsed[n].rawEnd = A + endOf(r, j)
  <2> DEFINE p == a + j
  <2>1. p \in Starts(next)
    BY <1>6 DEF ElementsMove
  <2> HIDE DEF p
  <2>2. PICK n \in 1..Len(parsed) : IsNodeAt(parsed[n], next, k, p)
    BY <1>8, <2>1
  <2>3. p = a + j
    BY DEF p
  <2> QED BY <1>15, <2>2, <2>3
<1>17. ASSUME NEW n \in 1..Len(parsed)
       PROVE  \/ \E m \in 1..Len(old) :
                   MovedTo(edit, old[m], parsed[n]) /\ old[m].name = parsed[n].name
              \/ \E j \in Starts(r) : /\ parsed[n].rawBegin = A + (j - 1)
                                      /\ parsed[n].rawEnd = A + endOf(r, j)
  <2>1. PICK p \in Starts(next) : IsNodeAt(parsed[n], next, k, p)
    BY <1>8
  <2>2. CASE \E j \in Starts(r) : p = a + j
    BY <1>15, <2>1, <2>2
  <2>3. CASE \E i \in Starts(body) : Moved(a, z, R, i, p)
    <3>1. PICK i \in Starts(body) : Moved(a, z, R, i, p)
      BY <2>3
    <3>2. PICK m \in 1..Len(old) : IsNodeAt(old[m], body, k, i)
      BY <1>9
    <3> QED BY <1>13, <2>1, <3>1, <3>2
  <2> QED BY <1>6, <2>2, <2>3 DEF ElementsMove, R
<1>18. ASSUME NEW n \in 1..Len(parsed)
       PROVE  HasPlace(parsed[n])
  <2>1. PICK p \in Starts(next) : IsNodeAt(parsed[n], next, k, p)
    BY <1>8
  <2> DEFINE e == endOf(next, p)
  <2>2. /\ p \in Nat /\ e \in Nat /\ p >= 1 /\ p <= e
        /\ parsed[n].rawBegin = k + (p - 1) /\ parsed[n].rawEnd = k + e
    BY <1>11, <2>1 DEF IsNodeAt
  <2> HIDE DEF e
  <2> QED BY <1>6, <2>2 DEF HasPlace
<1>19. ASSUME NEW m \in 1..Len(old), ~Apart(edit, old[m])
       PROVE  A <= old[m].rawBegin /\ old[m].rawEnd <= Z
  BY <1>9, <1>12, <1>19
<1>20. MovedElements(doc, edit, parsed)
  BY <1>14, <1>16, <1>17, <1>18, <1>19 DEF MovedElements, A, Z, r, old
<1> QED BY <1>20 DEF parsed, new

(* The element that begins with the j-th token of a replacement is bound.  *)
Bound(edit, j) ==
  \E b \in Range(edit.bindings) :
    /\ b.begin = edit.begin + (j - 1)
    /\ b.end = edit.begin + endOf(edit.replacement, j)

(* The bindings of an edit are to elements of its replacement, and all but *)
(* those that begin at S are bound.                                        *)
BindsAllBut(edit, S) ==
  /\ \A b \in Range(edit.bindings) : \E j \in Starts(edit.replacement) :
       /\ b.begin = edit.begin + (j - 1)
       /\ b.end = edit.begin + endOf(edit.replacement, j)
  /\ \A j \in Starts(edit.replacement) : j \in S \/ Bound(edit, j)

(* Nothing is missed after such an edit, and only elements of the          *)
(* replacement get new ids.                                                *)
LEMMA TreeEditsAreFound ==
  ASSUME XmlAssumption, NEW doc, TreeSound(doc), NEW edit, TreeEdit(doc, edit),
         NEW S, IsFiniteSet(S), BindsAllBut(edit, S),
         NEW parsed, parsed = parseNodes(nextXml(doc, edit))
  PROVE  /\ CutsNoNode(doc, edit) /\ AllFound(doc, edit, parsed)
         /\ Cardinality(Fresh(doc, edit, parsed)) \in Nat
         /\ Cardinality(Fresh(doc, edit, parsed)) <= Cardinality(S)
<1> DEFINE old == doc.nodes
           A == edit.begin
           Z == edit.end
           r == edit.replacement
           R == Len(r)
           carried(n) == carriedIds(doc, edit, parsed[n])
           bound(n) == boundIds(edit, parsed[n])
<1>1. MovedElements(doc, edit, parsed)
  BY TreeEditsMoveElements
<1>2. /\ IsRange(edit, doc.xml) /\ r \in Seq(TreeToken) /\ TagsPair(r)
  BY DEF TreeEdit
<1>3. A \in Nat /\ Z \in Nat /\ A <= Z /\ R \in Nat
  BY <1>2 DEF IsRange
<1>4. /\ Range(old) = {old[m] : m \in 1..Len(old)}
      /\ \A m \in 1..Len(old) : HasPlace(old[m])
      /\ \A m, n \in 1..Len(old) : old[m].rawBegin = old[n].rawBegin => m = n
  BY DocumentNodes
<1>5. Preserved(doc, edit) = {b \in Range(old) : Apart(edit, b)}
  BY DEF Preserved, Apart
<1>6. Range(parsed) = {parsed[n] : n \in 1..Len(parsed)}
  <2>1. parsed = parseNodes(nextXml(doc, edit))
    OBVIOUS
  <2>2. nextXml(doc, edit) \in Seq(TreeToken) /\ Parses(nextXml(doc, edit), TRUE)
    BY TreeEditsLeaveTrees
  <2>3. ElementsOf(nextXml(doc, edit), parsed)
    BY <2>1, <2>2, ParsedNodes
  <2> QED BY <2>3 DEF ElementsOf, Range
<1>7. \A j \in Starts(r) : j \in Nat /\ endOf(r, j) \in Nat /\ j >= 1 /\ j <= R
  BY <1>2, <1>3, ElementsHaveEnds
<1> HIDE DEF old, A, Z, r, R
<1>8. CutsNoNode(doc, edit)
  <2> SUFFICES ASSUME NEW node \in Range(old), ~Apart(edit, node)
               PROVE  A <= node.rawBegin /\ node.rawEnd <= Z
    BY <1>5 DEF CutsNoNode, old, A, Z
  <2> QED BY <1>1, <1>4 DEF MovedElements, old, A, Z
<1>9. ASSUME NEW m \in 1..Len(old), NEW n \in 1..Len(parsed)
      PROVE  /\ MovedTo(edit, old[m], parsed[n]) => Apart(edit, old[m])
             /\ Apart(edit, old[m]) =>
                  (MovedTo(edit, old[m], parsed[n]) <=>
                     expectedRange(old[m], edit) = <<parsed[n].rawBegin, parsed[n].rawEnd>>)
  <2>1. HasPlace(old[m]) /\ HasPlace(parsed[n])
    BY <1>1, <1>4 DEF MovedElements
  <2> QED BY <1>2, <2>1, ExpectedIsMoved
<1>10. ASSUME NEW m \in 1..Len(old), NEW n \in 1..Len(parsed),
              MovedTo(edit, old[m], parsed[n]), old[m].name = parsed[n].name
       PROVE  carried(n) = {old[m].id} /\ bound(n) = {}
  <2>1. Apart(edit, old[m]) /\ old[m] \in Preserved(doc, edit)
    BY <1>4, <1>5, <1>9, <1>10
  <2>2. old[m].id \in carried(n)
    BY <1>9, <1>10, <2>1 DEF carriedIds
  <2>3. ASSUME NEW id \in carried(n)
        PROVE  id = old[m].id
    <3>1. PICK o \in Preserved(doc, edit) :
            id = o.id /\ expectedRange(o, edit) = <<parsed[n].rawBegin, parsed[n].rawEnd>>
      BY DEF carriedIds
    <3>2. PICK l \in 1..Len(old) : o = old[l]
      BY <1>4, <1>5
    <3>3. MovedTo(edit, old[l], parsed[n])
      BY <1>5, <1>9, <3>1, <3>2
    <3>4. old[l].rawBegin = old[m].rawBegin
      <4> DEFINE f == old[l].rawBegin
                 g == old[m].rawBegin
                 h == parsed[n].rawBegin + 1
      <4>1. f \in Nat /\ g \in Nat
        BY <1>4 DEF HasPlace
      <4>2. Moved(A, Z, R, f + 1, h) /\ Moved(A, Z, R, g + 1, h)
        BY <1>10, <3>3 DEF MovedTo, A, Z, R, r
      <4>3. h \in Nat
        BY <1>1 DEF MovedElements, HasPlace
      <4> HIDE DEF f, g, h
      <4>4. f = g
        BY <1>3, <4>1, <4>2, <4>3 DEF Moved
      <4> QED BY <4>4 DEF f, g
    <3> QED BY <1>4, <3>1, <3>2, <3>4
  <2>4. bound(n) = {}
    <3> SUFFICES ASSUME NEW b \in Range(edit.bindings), b.begin = parsed[n].rawBegin
                 PROVE  FALSE
      BY DEF boundIds
    <3>1. PICK j \in Starts(r) : b.begin = A + (j - 1)
      BY DEF BindsAllBut, r, A
    <3> DEFINE f == old[m].rawBegin
               h == parsed[n].rawBegin
    <3>2. f \in Nat
      BY <1>4 DEF HasPlace
    <3>3. Moved(A, Z, R, f + 1, h + 1)
      BY <1>10 DEF MovedTo, A, Z, R, r
    <3>4. h = A + (j - 1)
      BY <3>1
    <3>5. j \in Nat /\ j >= 1 /\ j <= R
      BY <1>7
    <3> HIDE DEF f, h
    <3> QED BY <1>3, <3>2, <3>3, <3>4, <3>5 DEF Moved
  <2> HIDE DEF carried, bound
  <2> QED BY <2>2, <2>3, <2>4
<1>11. AllFound(doc, edit, parsed)
  <2>1. ASSUME NEW b \in Range(edit.bindings)
        PROVE  \E node \in Range(parsed) : b.begin = node.rawBegin /\ b.end = node.rawEnd
    <3>1. PICK j \in Starts(r) : b.begin = A + (j - 1) /\ b.end = A + endOf(r, j)
      BY DEF BindsAllBut, r, A
    <3>2. PICK n \in 1..Len(parsed) :
            parsed[n].rawBegin = A + (j - 1) /\ parsed[n].rawEnd = A + endOf(r, j)
      BY <1>1 DEF MovedElements, r, A
    <3> QED BY <1>6, <3>1, <3>2
  <2>2. ASSUME NEW node \in Preserved(doc, edit)
        PROVE  \E new \in Range(parsed) :
                 /\ node.id \in carriedIds(doc, edit, new)
                 /\ boundIds(edit, new) = {}
                 /\ Cardinality(carriedIds(doc, edit, new)) = 1
    <3>1. PICK m \in 1..Len(old) : node = old[m]
      BY <1>4, <1>5
    <3>2. PICK n \in 1..Len(parsed) :
            MovedTo(edit, old[m], parsed[n]) /\ old[m].name = parsed[n].name
      BY <1>1, <1>5, <3>1 DEF MovedElements, old
    <3>3. carried(n) = {node.id} /\ bound(n) = {}
      BY <1>10, <3>1, <3>2
    <3>4. Cardinality({node.id}) = 1
      BY FS_Singleton
    <3>5. parsed[n] \in Range(parsed)
      BY <1>6
    <3> QED BY <3>3, <3>4, <3>5
  <2> QED BY <2>1, <2>2 DEF AllFound
<1> DEFINE fresh == Fresh(doc, edit, parsed)
           place(n) == parsed[n].rawBegin + 1 - A
<1>12. ASSUME NEW n \in fresh
       PROVE  place(n) \in S /\ n \in 1..Len(parsed)
  <2>1. n \in 1..Len(parsed) /\ bound(n) = {} /\ carried(n) = {}
    BY DEF Fresh
  <2>2. PICK j \in Starts(r) : /\ parsed[n].rawBegin = A + (j - 1)
                               /\ parsed[n].rawEnd = A + endOf(r, j)
    <3>1. ~\E m \in 1..Len(old) :
             MovedTo(edit, old[m], parsed[n]) /\ old[m].name = parsed[n].name
      <4> SUFFICES ASSUME NEW m \in 1..Len(old),
                          MovedTo(edit, old[m], parsed[n]), old[m].name = parsed[n].name
                   PROVE  FALSE
        OBVIOUS
      <4>1. carried(n) = {old[m].id}
        BY <1>10, <2>1
      <4> HIDE DEF carried
      <4> QED BY <2>1, <4>1
    <3> QED BY <1>1, <2>1, <3>1 DEF MovedElements, old, r, A
  <2>3. ~Bound(edit, j)
    BY <2>1, <2>2 DEF Bound, boundIds, r, A
  <2>4. j \in S
    BY <2>3 DEF BindsAllBut, r
  <2>5. j \in Nat
    BY <1>7
  <2>6. place(n) = j
    BY <1>3, <2>2, <2>5
  <2> QED BY <2>1, <2>4, <2>6
<1>13. ASSUME NEW m \in fresh, NEW n \in fresh, place(m) = place(n)
       PROVE  m = n
  <2>1. m \in 1..Len(parsed) /\ n \in 1..Len(parsed)
    BY <1>12
  <2>2. parsed[m].rawBegin \in Nat /\ parsed[n].rawBegin \in Nat
    BY <1>1, <2>1 DEF MovedElements, HasPlace
  <2>3. parsed[m].rawBegin = parsed[n].rawBegin
    <3> DEFINE f == parsed[m].rawBegin
               g == parsed[n].rawBegin
    <3>1. f \in Nat /\ g \in Nat /\ f + 1 - A = g + 1 - A
      BY <1>13, <2>2
    <3> HIDE DEF f, g
    <3>2. f = g
      BY <1>3, <3>1
    <3> QED BY <3>2 DEF f, g
  <2>4. nextXml(doc, edit) \in Seq(TreeToken) /\ Parses(nextXml(doc, edit), TRUE)
    BY TreeEditsLeaveTrees
  <2>5. NodesAreElements(parsed, nextXml(doc, edit))
    BY <2>4, ParsedElements
  <2> QED BY <2>1, <2>3, <2>5 DEF NodesAreElements
<1>14. IsFiniteSet(fresh) /\ Cardinality(fresh) <= Cardinality(S)
  <2> DEFINE f == [n \in fresh |-> place(n)]
  <2> HIDE DEF fresh, place
  <2>1. f \in [fresh -> S] /\ \A m, n \in fresh : f[m] = f[n] => m = n
    BY <1>12, <1>13
  <2> HIDE DEF f
  <2>2. f \in Injection(fresh, S)
    BY <2>1 DEF Injection, IsInjective
  <2> QED BY <2>2, FS_Injection
<1>15. Cardinality(fresh) \in Nat
  BY <1>14, FS_CardinalityType
<1> QED BY <1>8, <1>11, <1>14, <1>15

(* Nor is it refused, but for the counters. *)
LEMMA TreeEditsAreAccepted ==
  ASSUME XmlAssumption, NEW doc, TreeSound(doc), NEW edit, TreeEdit(doc, edit),
         NEW S, IsFiniteSet(S), BindsAllBut(edit, S),
         NEW taken \in Nat, taken = Allocated(edit), doc.revision < MaxRevision,
         taken + Cardinality(S) > 0 => doc.nextId + (taken + Cardinality(S)) <= MaxId
  PROVE  CanReplace(doc, edit)
<1> DEFINE parsed == parseNodes(nextXml(doc, edit))
           fresh == Cardinality(Fresh(doc, edit, parsed))
           size == Cardinality(S)
<1>1. Parses(nextXml(doc, edit), TRUE)
  BY TreeEditsLeaveTrees
<1>2. /\ CutsNoNode(doc, edit) /\ AllFound(doc, edit, parsed)
      /\ fresh \in Nat /\ fresh <= size
  BY TreeEditsAreFound
<1>3. doc.nextId \in Nat /\ MaxId \in Nat /\ size \in Nat
  <2>1. doc.nextId \in Nat
    BY DocumentNodes
  <2>2. size \in Nat
    BY FS_CardinalityType
  <2> QED BY <2>1, <2>2 DEF XmlAssumption
<1>4. taken + size > 0 => doc.nextId + (taken + size) <= MaxId
  OBVIOUS
<1> HIDE DEF parsed, fresh, size
<1>5. taken + fresh > 0 => doc.nextId + (taken + fresh) <= MaxId
  BY <1>2, <1>3, <1>4
<1>6. Allocated(edit) + Cardinality(Fresh(doc, edit, parsed)) = taken + fresh
  BY DEF fresh
<1> QED BY <1>1, <1>2, <1>5, <1>6 DEF CanReplace, parsed
-----------------------------------------------------------------------------
(* A single element: a tree and nothing behind it. *)
SingleTree(s) ==
  /\ s \in Seq(TreeToken) /\ Len(s) \in Nat /\ Len(s) > 0
  /\ TagsPair(s) /\ Nested(s) /\ 1 \in Starts(s) /\ endOf(s, 1) = Len(s)
  /\ Len(parseNodes(s)) = Cardinality(Starts(s))

(* A fragment of one node is one. *)
LEMMA FragmentIsTree ==
  ASSUME XmlAssumption, NEW fragment \in Fragment, isSingleNode(fragment)
  PROVE  SingleTree(trimmed(fragment))
<1> DEFINE s == trimmed(fragment)
           k == Len(prologOf(s))
           body == bodyOf(s)
           parsed == parseNodes(s)
<1>1. s \in Seq(TreeToken) /\ Len(s) > 0
  BY FragmentIsTokens
<1>2. /\ Parses(s, FALSE) /\ Head(parsed).rawBegin = 0 /\ Head(parsed).rawEnd = Len(s)
  BY DEF isSingleNode
<1> HIDE DEF s
<1>3. OneTree(body) /\ prologAccepted(prologOf(s))
  BY <1>1, <1>2, ParsesIsTree
<1>4. Parses(s, TRUE)
  BY <1>1, <1>3, ParsesIsTree
<1>5. NodesAreElements(parsed, s) /\ Len(parsed) = Cardinality(Starts(body))
  BY <1>1, <1>4, ParsedElements
<1>6. /\ body \in Seq(TreeToken) /\ Len(body) = Len(s) - k /\ k \in 0..Len(s)
      /\ \A i \in 1..Len(body) : body[i] = s[k + i]
      /\ Len(body) \in Nat /\ Len(s) \in Nat
  <2>1. Len(s) \in Nat
    BY <1>1
  <2> QED BY <1>1, <2>1, BodyBegins
<1> HIDE DEF k, body, parsed
<1>7. TagsPair(body) /\ Nested(body) /\ 1 \in Starts(body)
  BY <1>3 DEF OneTree
<1>8. /\ Len(parsed) \in Nat
      /\ \A n \in 1..Len(parsed) : \E i \in Starts(body) : IsNodeAt(parsed[n], body, k, i)
      /\ \E n \in 1..Len(parsed) : IsNodeAt(parsed[n], body, k, 1)
  BY <1>5, <1>7 DEF NodesAreElements, k, body
<1>9. Head(parsed) = parsed[1] /\ 1 \in 1..Len(parsed)
  BY <1>8
<1>10. PICK i \in Starts(body) : IsNodeAt(parsed[1], body, k, i)
  BY <1>8, <1>9
<1>11. i \in Nat /\ i >= 1
  BY <1>6, <1>7, ElementsHaveEnds
<1>12. k = 0 /\ i = 1 /\ endOf(body, i) = Len(s)
  <2>1. k + (i - 1) = 0 /\ k + endOf(body, i) = Len(s)
    BY <1>2, <1>9, <1>10 DEF IsNodeAt
  <2>2. endOf(body, i) \in Nat
    BY <1>6, <1>7, ElementsHaveEnds
  <2> QED BY <1>6, <1>11, <2>1, <2>2
<1>13. body = s
  <2>1. Len(body) = Len(s)
    BY <1>6, <1>12
  <2>2. \A j \in 1..Len(s) : body[j] = s[j]
    BY <1>6, <1>12, <2>1
  <2> QED BY <1>1, <1>6, <2>1, <2>2, SeqEqual
<1>14. endOf(s, 1) = Len(s)
  BY <1>12, <1>13
<1> QED BY <1>1, <1>5, <1>6, <1>7, <1>13, <1>14 DEF SingleTree, s, body, parsed

(* The other elements of a single one. *)
LEMMA OthersAreFewer ==
  ASSUME NEW s, SingleTree(s)
  PROVE  /\ IsFiniteSet(Starts(s) \ {1})
         /\ Cardinality(Starts(s) \ {1}) = Cardinality(Starts(s)) - 1
         /\ Cardinality(Starts(s)) \in Nat
<1>1. Len(s) \in Nat /\ 1 \in Starts(s)
  BY DEF SingleTree
<1>2. IsFiniteSet(Starts(s))
  <2>1. Starts(s) \in SUBSET (1..Len(s))
    BY DEF Starts, Positions
  <2> QED BY <1>1, <2>1, EveryRankIsTaken
<1>3. Cardinality(Starts(s)) \in Nat
  BY <1>2, FS_CardinalityType
<1> QED BY <1>1, <1>2, <1>3, FS_RemoveElement

(* Where a node is among the elements of its document's body. *)
LEMMA NodeInBody ==
  ASSUME XmlAssumption, NEW doc, TreeSound(doc), NEW node \in Range(doc.nodes)
  PROVE  LET body == bodyOf(doc.xml)
             k == Len(prologOf(doc.xml))
         IN /\ k \in Nat /\ Len(body) \in Nat /\ OneTree(body) /\ TagsPair(body)
            /\ \E i \in Starts(body) :
                 /\ IsNodeAt(node, body, k, i)
                 /\ i \in Nat /\ i >= 1 /\ endOf(body, i) \in Nat /\ i <= endOf(body, i)
                 /\ Whole(body, i - 1, endOf(body, i))
                 /\ ~node.selfClosing =>
                      /\ Whole(body, endOf(body, i) - 1, endOf(body, i) - 1)
                      /\ i < endOf(body, i)
                 /\ endOf(body, 1) \in Nat
                 /\ i > 1 => endOf(body, i) < endOf(body, 1)
<1> DEFINE body == bodyOf(doc.xml)
           k == Len(prologOf(doc.xml))
<1>1. doc.xml \in Seq(TreeToken) /\ Len(doc.xml) \in Nat
  BY DEF TreeSound
<1>2. /\ OneTree(body) \/ body = <<>>
      /\ \E i \in Starts(body) : IsNodeAt(node, body, k, i)
  BY DocumentElements
<1>3. k \in Nat /\ Len(body) \in Nat
  BY <1>1, BodyBegins
<1> HIDE DEF body, k
<1>4. PICK i \in Starts(body) : IsNodeAt(node, body, k, i)
  BY <1>2
<1>5. i \in 1..Len(body) /\ body[i].kind \notin Misc
  BY DEF Starts, Positions, Misc
<1>6. OneTree(body)
  BY <1>2, <1>5
<1>7. TagsPair(body) /\ Nested(body) /\ 1 \in Starts(body)
      /\ \A j \in 1..Len(body) : j > endOf(body, 1) => body[j].kind \in Misc
  BY <1>6 DEF OneTree
<1> DEFINE one == 1
           e == endOf(body, i)
           f == endOf(body, one)
<1>8. one \in Starts(body) /\ one = 1
  BY <1>7
<1> HIDE DEF one
<1>9. /\ i \in Nat /\ i >= 1 /\ e \in Nat /\ i <= e
      /\ e = i <=> body[i].kind = "void"
      /\ f \in Nat
  <2>1. \A j \in Starts(body) :
          /\ endOf(body, j) \in j..Len(body)
          /\ j \in Nat /\ endOf(body, j) \in Nat /\ j >= 1
          /\ endOf(body, j) = j <=> body[j].kind = "void"
    BY <1>3, <1>7, ElementsHaveEnds
  <2>2. f \in Nat
    BY <1>8, <2>1
  <2>3. e \in Nat /\ e \in i..Len(body) /\ i \in Nat /\ i >= 1
        /\ (e = i <=> body[i].kind = "void")
    BY <2>1
  <2>4. i <= e
    <3> HIDE DEF e
    <3> QED BY <2>3
  <2> QED BY <2>2, <2>3, <2>4
<1>10. /\ Whole(body, i - 1, e)
       /\ body[i].kind # "void" => Whole(body, e - 1, e - 1)
  BY <1>3, <1>7, NestedIsWhole
<1>11. ~node.selfClosing => body[i].kind # "void"
  BY <1>4 DEF IsNodeAt
<1>12. i > 1 => e < f
  <2>1. ~(i > f)
    BY <1>5, <1>7, <1>8
  <2>2. one < i /\ i <= f => e < f
    BY <1>7, <1>8 DEF Nested
  <2> HIDE DEF e, f
  <2> QED BY <1>8, <1>9, <2>1, <2>2
<1>13. ~node.selfClosing => i < e
  <2> HIDE DEF e
  <2> QED BY <1>9, <1>11
<1> QED BY <1>3, <1>4, <1>6, <1>7, <1>8, <1>9, <1>10, <1>11, <1>12, <1>13 DEF body, k, one

(* An element, or for all but the root nothing, in the place of a node. *)
LEMMA ReplacingIsTreeEdit ==
  ASSUME XmlAssumption, NEW doc, TreeSound(doc), NEW node \in Range(doc.nodes),
         NEW edit, edit.begin = node.rawBegin, edit.end = node.rawEnd,
         IsRange(edit, doc.xml), edit.replacement \in Seq(TreeToken),
         TagsPair(edit.replacement), Nested(edit.replacement),
         \/ /\ 1 \in Starts(edit.replacement)
            /\ endOf(edit.replacement, 1) = Len(edit.replacement)
         \/ node.rawBegin # Len(prologOf(doc.xml))
  PROVE  TreeEdit(doc, edit)
<1> DEFINE body == bodyOf(doc.xml)
           k == Len(prologOf(doc.xml))
           r == edit.replacement
           a == edit.begin - k
           z == edit.end - k
           MiscBehind(n) == \A j \in 1..Len(body) : j > n => body[j].kind \in Misc
<1>1. /\ k \in Nat /\ Len(body) \in Nat /\ OneTree(body)
  BY NodeInBody
<1>2. PICK i \in Starts(body) :
        /\ IsNodeAt(node, body, k, i)
        /\ i \in Nat /\ i >= 1 /\ endOf(body, i) \in Nat /\ i <= endOf(body, i)
        /\ Whole(body, i - 1, endOf(body, i))
        /\ i > 1 => endOf(body, i) < endOf(body, 1)
  BY NodeInBody
<1>3. node.rawBegin = k + (i - 1) /\ node.rawEnd = k + endOf(body, i)
  BY <1>2 DEF IsNodeAt
<1> DEFINE e == endOf(body, i)
<1> HIDE DEF body, k, e, r
<1>4. a = i - 1 /\ z = e /\ k <= edit.begin /\ (node.rawBegin # k <=> i > 1)
  BY <1>1, <1>2, <1>3 DEF e
<1>5. Whole(body, a, z)
  BY <1>2, <1>4 DEF e
<1>6. 1 \in Starts(body) /\ MiscBehind(endOf(body, 1))
  BY <1>1 DEF OneTree
<1>7. i = 1 => a = 0 /\ MiscBehind(z)
  BY <1>4, <1>6 DEF e
<1>8. i > 1 => a > 0 /\ z < endOf(body, 1)
  BY <1>2, <1>4 DEF e
<1>9. i = 1 \/ i > 1
  BY <1>2
<1> HIDE DEF a, z, MiscBehind
<1>10. \/ a = 0 /\ 1 \in Starts(r) /\ endOf(r, 1) = Len(r) /\ MiscBehind(z)
       \/ a > 0 /\ 1 \in Starts(body) /\ z < endOf(body, 1)
  BY <1>4, <1>6, <1>7, <1>8, <1>9 DEF r, k
<1>11. /\ IsRange(edit, doc.xml) /\ r \in Seq(TreeToken) /\ TagsPair(r) /\ Nested(r)
  BY DEF r
<1> QED BY <1>4, <1>5, <1>10, <1>11 DEF TreeEdit, body, k, r, a, z, MiscBehind

(* Elements in front of a node's closing tag. *)
LEMMA AppendingIsTreeEdit ==
  ASSUME XmlAssumption, NEW doc, TreeSound(doc), NEW node \in Range(doc.nodes),
         ~node.selfClosing,
         NEW edit, edit.begin = node.valueEnd, edit.end = node.valueEnd,
         IsRange(edit, doc.xml), edit.replacement \in Seq(TreeToken),
         TagsPair(edit.replacement), Nested(edit.replacement)
  PROVE  TreeEdit(doc, edit)
<1> DEFINE body == bodyOf(doc.xml)
           k == Len(prologOf(doc.xml))
           r == edit.replacement
           a == edit.begin - k
           z == edit.end - k
<1>1. /\ k \in Nat /\ Len(body) \in Nat /\ OneTree(body)
  BY NodeInBody
<1>2. PICK i \in Starts(body) :
        /\ IsNodeAt(node, body, k, i)
        /\ i \in Nat /\ i >= 1 /\ endOf(body, i) \in Nat /\ i < endOf(body, i)
        /\ Whole(body, endOf(body, i) - 1, endOf(body, i) - 1)
        /\ endOf(body, 1) \in Nat
        /\ i > 1 => endOf(body, i) < endOf(body, 1)
  BY NodeInBody
<1> DEFINE e == endOf(body, i)
           f == endOf(body, 1)
<1>3. node.valueEnd = k + (IF e = i THEN i ELSE e - 1)
  BY <1>2 DEF IsNodeAt
<1>4. i = 1 => e = f
  OBVIOUS
<1>5. i \in Nat /\ i >= 1 /\ e \in Nat /\ i < e /\ f \in Nat /\ (i > 1 => e < f)
  BY <1>2
<1> HIDE DEF body, k, r, e, f
<1>6. a = e - 1 /\ z = e - 1 /\ k <= edit.begin /\ a > 0 /\ z < f
  BY <1>1, <1>3, <1>4, <1>5
<1>7. Whole(body, a, z)
  BY <1>2, <1>6 DEF e
<1>8. 1 \in Starts(body)
  BY <1>1 DEF OneTree
<1> QED BY <1>6, <1>7, <1>8 DEF TreeEdit, body, k, r, a, z, f

(* An element where there is none. *)
LEMMA RootCreationIsTreeEdit ==
  ASSUME XmlAssumption, NEW doc, TreeSound(doc), doc.nodes = <<>>,
         NEW edit, edit.begin = Len(doc.xml), edit.end = Len(doc.xml),
         SingleTree(edit.replacement)
  PROVE  TreeEdit(doc, edit)
<1> DEFINE body == bodyOf(doc.xml)
           k == Len(prologOf(doc.xml))
           r == edit.replacement
<1>1. NodesAreElements(doc.nodes, doc.xml) /\ (OneTree(body) \/ body = <<>>)
  BY DocumentElements
<1>2. Starts(body) = {}
  BY <1>1 DEF NodesAreElements
<1>3. body = <<>>
  BY <1>1, <1>2 DEF OneTree
<1>4. doc.xml \in Seq(TreeToken) /\ Len(doc.xml) \in Nat
  BY DEF TreeSound
<1>5. Len(body) = Len(doc.xml) - k /\ k \in 0..Len(doc.xml)
  BY <1>4, BodyBegins
<1>6. Len(body) = 0
  BY <1>3
<1> HIDE DEF body, k
<1>7. k = Len(doc.xml) /\ Len(doc.xml) - k = 0
  BY <1>4, <1>5, <1>6
<1>8. IsRange(edit, doc.xml)
  BY <1>4 DEF IsRange, SingleTree
<1>9. Whole(body, edit.begin - k, edit.end - k)
  BY <1>2 DEF Whole
<1>10. \A i \in 1..Len(body) : FALSE
  BY <1>6
<1> QED BY <1>4, <1>7, <1>8, <1>9, <1>10 DEF TreeEdit, SingleTree, body, k
-----------------------------------------------------------------------------
(* A single element between the tags of another. *)
Wrapped(tag, s) ==
  <<[kind |-> "open", tag |-> tag]>> \o s \o <<[kind |-> "close", tag |-> tag]>>

(* A sequence of two, split between them.                                  *)
LEMMA SplitOfTwo ==
  ASSUME NEW T, NEW p \in T, NEW q \in T, NEW s \in Seq(T), Len(s) = 2,
         s[1] = p, s[2] = q
  PROVE  SubSeq(s, 1, 1) = <<p>> /\ SubSeq(s, 1 + 1, Len(s)) = <<q>>
<1>1. /\ SubSeq(s, 1, 1) \in Seq(T) /\ Len(SubSeq(s, 1, 1)) = 1
      /\ SubSeq(s, 1, 1)[1] = p
  OBVIOUS
<1>2. /\ SubSeq(s, 2, 2) \in Seq(T) /\ Len(SubSeq(s, 2, 2)) = 1
      /\ SubSeq(s, 2, 2)[1] = q
  OBVIOUS
<1>3. SubSeq(s, 1 + 1, Len(s)) = SubSeq(s, 2, 2)
  OBVIOUS
<1>4. /\ <<p>> \in Seq(T) /\ Len(<<p>>) = 1 /\ <<p>>[1] = p
      /\ <<q>> \in Seq(T) /\ Len(<<q>>) = 1 /\ <<q>>[1] = q
  OBVIOUS
<1>5. ASSUME NEW a \in Seq(T), NEW b \in Seq(T), Len(a) = 1, Len(b) = 1, a[1] = b[1]
      PROVE  a = b
  BY <1>5, SeqEqual
<1>6. SubSeq(s, 1, 1) = <<p>>
  BY <1>1, <1>4, <1>5
<1>7. SubSeq(s, 2, 2) = <<q>>
  BY <1>2, <1>4, <1>5
<1> QED BY <1>3, <1>6, <1>7

(* It is a single element, and its elements are the outer one and those of *)
(* the inner, one further.                                                 *)
LEMMA WrappedIsNested ==
  ASSUME NEW s, SingleTree(s), NEW tag, NEW T, NEW t, t = Wrapped(tag, s),
         [kind |-> "open", tag |-> tag] \in TreeToken,
         [kind |-> "close", tag |-> tag] \in TreeToken
  PROVE  /\ t \in Seq(TreeToken) /\ Len(t) = Len(s) + 2
         /\ TagsPair(t) /\ Nested(t)
         /\ 1 \in Starts(t) /\ endOf(t, 1) = Len(t)
         /\ \A j \in Starts(s) : 1 + j \in Starts(t) /\ endOf(t, 1 + j) = 1 + endOf(s, j)
         /\ \A p \in Starts(t) : p = 1 \/ \E j \in Starts(s) : p = 1 + j
<1> DEFINE open == [kind |-> "open", tag |-> tag]
           close == [kind |-> "close", tag |-> tag]
           outer == <<open, close>>
<1>1. /\ open.kind = "open" /\ close.kind = "close" /\ open.tag = tag /\ close.tag = tag
      /\ open \in TreeToken /\ close \in TreeToken
  OBVIOUS
<1>2. t = <<open>> \o s \o <<close>>
  BY DEF Wrapped
<1> HIDE DEF open, close
<1>3. /\ outer \in Seq(TreeToken) /\ Len(outer) = 2 /\ outer[1] = open /\ outer[2] = close
  BY <1>1
<1> HIDE DEF outer
<1>4. /\ Positions(outer, "open") = {1} /\ Positions(outer, "close") = {2}
      /\ Positions(outer, "void") = {}
  <2>1. \A i \in 1..Len(outer) : i = 1 \/ i = 2
    BY <1>3
  <2> QED BY <1>1, <1>3, <2>1 DEF Positions
<1>5. Starts(outer) = {1}
  BY <1>4 DEF Starts
<1>6. Closes(outer, 1, 2)
  <2> DEFINE one == 1
             two == 2
  <2>1. one = 1 /\ two = 2
    OBVIOUS
  <2>2. outer[one] = open /\ outer[two] = close
    BY <1>3
  <2> HIDE DEF one, two
  <2>3. one \in Int /\ two \in Int /\ one + 1 = two /\ one <= two /\ two - 1 = one
    BY <2>1
  <2>4. /\ Excess(outer, {tag}, one, one) = 1
        /\ Excess(outer, {tag}, two, two) = -1
    <3>1. /\ Excess(outer, {tag}, one, one) =
               IF outer[one].tag \in {tag} /\ outer[one].kind = "open" THEN 1
               ELSE IF outer[one].tag \in {tag} /\ outer[one].kind = "close" THEN -1 ELSE 0
          /\ Excess(outer, {tag}, two, two) =
               IF outer[two].tag \in {tag} /\ outer[two].kind = "open" THEN 1
               ELSE IF outer[two].tag \in {tag} /\ outer[two].kind = "close" THEN -1 ELSE 0
      BY <2>3, ExcessOfOne
    <3> QED BY <1>1, <2>2, <3>1
  <2>5. Excess(outer, {tag}, one, two) = 0
    <3>1. Excess(outer, {tag}, one, two) =
            Excess(outer, {tag}, one, two - 1) + Excess(outer, {tag}, two, two)
      BY <2>3, ExcessSteps
    <3> QED BY <2>3, <2>4, <3>1
  <2>6. outer[one].tag = tag
    BY <1>1, <2>2
  <2>7. \A i \in one..two - 1 : i = one
    BY <2>1
  <2>8. two \in one + 1..Len(outer)
    BY <1>3, <2>1
  <2>9. Closes(outer, one, two)
    <3>1. Excess(outer, {tag}, one, two) = 0
          /\ \A i \in one..two - 1 : Excess(outer, {tag}, one, i) > 0
      BY <2>3, <2>4, <2>5, <2>7
    <3>2. {outer[one].tag} = {tag}
      BY <2>6
    <3> HIDE DEF outer
    <3> QED BY <2>8, <3>1, <3>2 DEF Closes
  <2> QED BY <2>1, <2>9
<1>7. Len(outer) \in Nat /\ Balanced(outer, 1) # {} /\ endOf(outer, 1) = 2
  <2>1. Len(outer) \in Nat
    BY <1>3
  <2> DEFINE one == 1
  <2>2. one \in Positions(outer, "open") /\ Closes(outer, one, 2)
    BY <1>4, <1>6
  <2> HIDE DEF one
  <2>3. Balanced(outer, one) # {} /\ endOf(outer, one) = 2
    BY <2>1, <2>2, EndsWhereClosed
  <2> QED BY <2>1, <2>3 DEF one
<1>8. TagsPair(outer)
  <2>1. Cardinality({1}) = 1 /\ Cardinality({2}) = 1
    BY FS_Singleton
  <2> QED BY <1>4, <1>7, <2>1 DEF TagsPair
<1>9. Nested(outer)
  BY <1>5 DEF Nested
<1>10. Whole(outer, 1, 1)
  BY <1>5, <1>7 DEF Whole
<1>11. /\ s \in Seq(TreeToken) /\ Len(s) \in Nat /\ TagsPair(s) /\ Nested(s)
       /\ 1 \in Starts(s)
  BY DEF SingleTree
<1>12. IsSplice(TreeToken, t, outer, 1, 1, s)
  <2>1. /\ SubSeq(outer, 1, 1) = <<open>> /\ SubSeq(outer, 1 + 1, Len(outer)) = <<close>>
    BY <1>1, <1>3, SplitOfTwo
  <2>2. 1 \in Nat /\ 1 <= Len(outer)
    BY <1>3
  <2>3. IsSplice(TreeToken, SubSeq(outer, 1, 1) \o s \o SubSeq(outer, 1 + 1, Len(outer)),
                 outer, 1, 1, s)
    <3> DEFINE one == 1
    <3>1. one \in Nat /\ one <= one /\ one <= Len(outer)
      BY <2>2
    <3> HIDE DEF one
    <3>2. IsSplice(TreeToken,
                   SubSeq(outer, 1, one) \o s \o SubSeq(outer, one + 1, Len(outer)),
                   outer, one, one, s)
      BY <1>3, <1>11, <3>1, SplicedParts
    <3> QED BY <3>2 DEF one
  <2> QED BY <1>2, <2>1, <2>3
<1> DEFINE a == 1
<1>13. /\ a = 1 /\ a \in Nat /\ a <= a /\ a <= Len(outer)
       /\ IsSplice(TreeToken, t, outer, a, a, s) /\ Whole(outer, a, a)
  BY <1>3, <1>10, <1>12
<1> HIDE DEF a
<1>14. Len(t) \in Nat /\ TagsPair(t) /\ ElementsMove(t, outer, a, a, s)
  BY <1>7, <1>8, <1>11, <1>13, WholeSplice
<1>15. Nested(t)
  BY <1>7, <1>8, <1>9, <1>11, <1>13, NestedSplice
<1>16. t \in Seq(TreeToken) /\ Len(t) = Len(s) + 2
  BY <1>3, <1>11, <1>12 DEF IsSplice
<1>17. a \in Starts(t) /\ endOf(t, a) = Len(t)
  <2>1. a \in Starts(outer) /\ endOf(outer, a) = 2
    BY <1>5, <1>7, <1>13
  <2>2. Moved(a, a, Len(s), a, a)
    BY <1>13 DEF Moved
  <2>3. a \in Starts(t) /\ Moved(a, a, Len(s), endOf(outer, a), endOf(t, a))
    BY <1>14, <2>1, <2>2 DEF ElementsMove
  <2> QED BY <1>11, <1>13, <1>16, <2>1, <2>3 DEF Moved
<1>18. \A j \in Starts(s) : a + j \in Starts(t) /\ endOf(t, a + j) = a + endOf(s, j)
  BY <1>14 DEF ElementsMove
<1>19. ASSUME NEW p \in Starts(t)
       PROVE  p = 1 \/ \E j \in Starts(s) : p = a + j
  <2>1. CASE \E i \in Starts(outer) : Moved(a, a, Len(s), i, p)
    <3>1. PICK i \in Starts(outer) : Moved(a, a, Len(s), i, p)
      BY <2>1
    <3>2. i = 1
      BY <1>5
    <3> QED BY <1>13, <3>1, <3>2 DEF Moved
  <2> QED BY <1>14, <2>1 DEF ElementsMove
<1> QED BY <1>13, <1>14, <1>15, <1>16, <1>17, <1>18, <1>19

(* The root is removed with everything in it: what is left is all prolog.  *)
LEMMA RootRemovalIsAccepted ==
  ASSUME XmlAssumption, NEW doc, TreeSound(doc), NEW node \in Range(doc.nodes),
         node.rawBegin = Len(prologOf(doc.xml)), doc.revision < MaxRevision
  PROVE  CanReplace(doc, removalOf(node))
<1> DEFINE xml == doc.xml
           edit == removalOf(node)
           new == nextXml(doc, edit)
           k == Len(prologOf(xml))
           body == bodyOf(xml)
           A == node.rawBegin
           Z == node.rawEnd
           L == Len(xml)
           N == Len(new)
<1>1. /\ edit.begin = A /\ edit.end = Z /\ edit.replacement = <<>> /\ edit.bindings = <<>>
  BY DEF EditOf, removalOf
<1>2. /\ xml \in Seq(TreeToken) /\ L \in Nat
  BY DEF TreeSound
<1>3. /\ A \in Nat /\ Z \in Nat /\ A < Z /\ Z <= L
  BY NodeOfDocument
<1>4. edit.replacement \in Seq(TreeToken) /\ Len(edit.replacement) = 0
  BY <1>1
<1>5. IsRange(edit, xml)
  BY <1>1, <1>2, <1>3, <1>4 DEF IsRange
<1>6. IsSplice(TreeToken, new, xml, A, Z, edit.replacement)
  BY <1>1, <1>2, <1>4, <1>5, NextXmlIsSplice
<1>7. /\ k \in Nat /\ Len(body) \in Nat /\ OneTree(body) /\ TagsPair(body)
  BY NodeInBody
<1>8. PICK i \in Starts(body) :
        IsNodeAt(node, body, k, i) /\ i \in Nat /\ i >= 1 /\ endOf(body, i) \in Nat
  BY NodeInBody
<1>9. /\ Len(body) = L - k /\ k \in 0..L
      /\ \A j \in 1..Len(body) : body[j] = xml[k + j]
  BY <1>2, BodyBegins
<1>10. EndsProlog(xml, k) /\ \A j \in 1..k : prologOf(xml)[j] = xml[j]
  BY <1>2, PrologEnds
<1>11. prologAccepted(prologOf(xml)) /\ NodesAreElements(doc.nodes, xml)
  BY DocumentElements
<1>12. k = A
  OBVIOUS
<1> HIDE DEF edit, xml, new, k, body, A, Z, L, N
<1>13. i = 1 /\ Z = k + endOf(body, 1)
  <2>1. A = k + (i - 1) /\ Z = k + endOf(body, i)
    BY <1>8 DEF IsNodeAt, A, Z
  <2>2. i = 1
    BY <1>3, <1>8, <1>12, <2>1
  <2> QED BY <2>1, <2>2
<1>14. \A j \in 1..Len(body) : j > endOf(body, 1) => body[j].kind \in Misc
  BY <1>7 DEF OneTree
<1>15. /\ new \in Seq(TreeToken) /\ N = A + (L - Z) /\ N \in Nat
       /\ \A p \in 1..A : new[p] = xml[p]
       /\ \A p \in Z + 1..L : new[A + (p - Z)] = xml[p]
  <2>1. /\ new \in Seq(TreeToken) /\ N = A + 0 + (L - Z)
        /\ \A p \in 1..A : new[p] = xml[p]
        /\ \A p \in Z + 1..L : new[A + 0 + (p - Z)] = xml[p]
    BY <1>4, <1>6 DEF IsSplice, N, L
  <2>2. A + 0 = A
    BY <1>3
  <2>3. A + (L - Z) \in Nat
    BY <1>2, <1>3
  <2> QED BY <2>1, <2>2, <2>3
<1>16. ASSUME NEW p \in 1..N, p > A
       PROVE  new[p].kind \in Misc
  <2> DEFINE q == p - A + Z
             j == q - k
  <2>1. q \in Z + 1..L /\ A + (q - Z) = p /\ j \in 1..Len(body) /\ k + j = q
        /\ j > endOf(body, 1)
    <3> DEFINE e == endOf(body, 1)
    <3>1. e \in Nat /\ Z = k + e
      BY <1>8, <1>13
    <3> HIDE DEF e
    <3>2. q \in Z + 1..L /\ A + (q - Z) = p /\ j \in 1..Len(body) /\ k + j = q
      BY <1>2, <1>3, <1>7, <1>9, <1>12, <1>15, <1>16, <3>1
    <3>3. j > e
      BY <1>2, <1>3, <1>7, <1>9, <1>12, <1>15, <1>16, <3>1
    <3> QED BY <3>2, <3>3 DEF e
  <2> HIDE DEF q, j
  <2>2. new[p] = xml[q] /\ body[j] = xml[q]
    BY <1>9, <1>15, <2>1
  <2> QED BY <1>14, <2>1, <2>2
<1>17. EndsProlog(new, N)
  <2>1. ASSUME NEW p \in 1..N
        PROVE  InProlog(new[p])
    <3>1. CASE p <= A
      <4>1. p \in 1..A
        BY <1>3, <3>1
      <4>2. InProlog(xml[p])
        BY <1>10, <1>12, <4>1 DEF EndsProlog
      <4> QED BY <1>15, <4>1, <4>2
    <3>2. CASE p > A
      BY <1>16, <3>2 DEF InProlog
    <3> QED BY <1>3, <3>1, <3>2
  <2> QED BY <1>15, <2>1 DEF EndsProlog, N
<1>18. Len(prologOf(new)) = N /\ \A j \in 1..N : prologOf(new)[j] = new[j]
  <2> DEFINE l == Len(prologOf(new))
  <2>1. N = l /\ \A j \in 1..l : prologOf(new)[j] = new[j]
    BY <1>15, <1>17, PrologEnds
  <2> HIDE DEF l
  <2> QED BY <2>1 DEF l
<1>19. bodyOf(new) = <<>>
  <2> DEFINE l == Len(prologOf(new))
  <2>1. Len(bodyOf(new)) = N - l /\ (bodyOf(new) = <<>> <=> Len(bodyOf(new)) = 0)
    BY <1>15, BodyBegins DEF N
  <2>2. l = N
    BY <1>18
  <2> HIDE DEF l
  <2> QED BY <1>15, <2>1, <2>2
<1>20. prologAccepted(prologOf(new))
  <2> DEFINE old == prologOf(xml)
             next == prologOf(new)
  <2>1. /\ Len(next) = N /\ Len(old) = k
        /\ \A j \in 1..N : next[j] = new[j]
        /\ \A j \in 1..k : old[j] = xml[j]
    BY <1>10, <1>18 DEF k
  <2>2. prologAccepted(old)
    BY <1>11
  <2> HIDE DEF old, next
  <2> SUFFICES ASSUME NEW m \in 1..N, NEW n \in 1..N, m < n,
                      next[m].kind \in {"declaration", "doctype"}
               PROVE  /\ next[n].kind # "declaration"
                      /\ next[n].kind = "doctype" => next[m].kind = "declaration"
    <3>1. Len(next) = N /\ prologAccepted(prologOf(new)) = prologAccepted(next)
      BY <2>1 DEF next
    <3> QED BY <3>1 DEF prologAccepted
  <2>3. CASE n <= A
    <3>1. m \in 1..A /\ n \in 1..A
      BY <1>3, <2>3
    <3>2. next[m] = old[m] /\ next[n] = old[n]
      BY <1>12, <1>15, <2>1, <3>1
    <3> QED BY <1>12, <2>1, <2>2, <3>1, <3>2 DEF prologAccepted
  <2>4. CASE n > A
    <3>1. next[n].kind \in Misc
      BY <1>16, <2>1, <2>4
    <3> QED BY <3>1 DEF Misc
  <2> QED BY <1>3, <2>3, <2>4
<1>21. Parses(new, TRUE)
  BY <1>15, <1>19, <1>20, ParsesIsTree
<1> DEFINE parsed == parseNodes(new)
<1>22. Len(parsed) = 0
  <2>1. Len(parsed) = Cardinality(Starts(bodyOf(new)))
    BY <1>15, <1>21, ParsedElements
  <2>2. Starts(<<>>) = {}
    BY DEF Starts, Positions
  <2>3. Cardinality({}) = 0
    BY FS_EmptySet
  <2> QED BY <1>19, <2>1, <2>2, <2>3
<1> HIDE DEF parsed
<1>23. ASSUME NEW b \in Range(doc.nodes)
       PROVE  ~Apart(edit, b) /\ A <= b.rawBegin /\ b.rawEnd <= Z
  <2>1. PICK j \in Starts(body) : IsNodeAt(b, body, k, j)
    BY DocumentElements DEF body, k, xml
  <2>2. /\ Whole(body, A - k, Z - k)
    <3>1. A - k = i - 1 /\ Z - k = endOf(body, i)
      <4> DEFINE e == endOf(body, 1)
      <4>1. e \in Nat /\ Z = k + e
        BY <1>8, <1>13
      <4> HIDE DEF e
      <4>2. Z - k = e /\ A - k = 0
        BY <1>7, <1>12, <4>1
      <4> QED BY <1>13, <4>2 DEF e
    <3>2. Nested(body)
      BY <1>7 DEF OneTree
    <3> QED BY <1>7, <3>1, <3>2, NestedIsWhole
  <2>3. k <= edit.begin /\ Whole(body, edit.begin - k, edit.end - k)
    BY <1>1, <1>3, <1>12, <2>2
  <2>4. /\ ~Apart(edit, b) => edit.begin <= b.rawBegin /\ b.rawEnd <= edit.end
        /\ Apart(edit, b) <=> j <= edit.begin - k \/ j > edit.end - k
    BY <1>5, <1>7, <2>1, <2>3, ElementsAreApart
  <2>5. j \in Nat /\ j >= 1 /\ j \in 1..Len(body) /\ body[j].kind \notin Misc
    <3>1. body[j].kind \notin Misc
      BY DEF Starts, Positions, Misc
    <3> QED BY <1>7, <3>1, ElementsHaveEnds
  <2>6. ~(j > endOf(body, 1))
    BY <1>14, <2>5
  <2>7. ~(j <= A - k) /\ ~(j > Z - k)
    <3> DEFINE e == endOf(body, 1)
    <3>1. e \in Nat /\ Z = k + e /\ ~(j > e)
      BY <1>8, <1>13, <2>6
    <3> HIDE DEF e
    <3> QED BY <1>7, <1>12, <2>5, <3>1
  <2> QED BY <1>1, <2>4, <2>7
<1>24. Preserved(doc, edit) = {}
  BY <1>23 DEF Preserved, Apart
<1>25. CutsNoNode(doc, edit)
  BY <1>1, <1>23 DEF CutsNoNode
<1>26. Range(edit.bindings) = {}
  BY <1>1 DEF Range
<1>27. AllFound(doc, edit, parsed)
  BY <1>24, <1>26 DEF AllFound
<1>28. Allocated(edit) = 0 /\ Cardinality(Fresh(doc, edit, parsed)) = 0
  <2>1. {b \in Range(edit.bindings) : b.allocate} = {}
    BY <1>26
  <2>2. Fresh(doc, edit, parsed) = {}
    BY <1>22 DEF Fresh
  <2>3. Cardinality({}) = 0
    BY FS_EmptySet
  <2> QED BY <2>1, <2>2, <2>3 DEF Allocated
<1>29. CanReplace(doc, edit)
  <2>1. Parses(nextXml(doc, edit), TRUE)
    BY <1>21 DEF new
  <2>2. parsed = parseNodes(nextXml(doc, edit))
    BY DEF parsed, new
  <2> DEFINE fresh == Cardinality(Fresh(doc, edit, parsed))
             taken == Allocated(edit) + fresh
  <2>3. ~(taken > 0)
    <3>1. fresh = 0 /\ Allocated(edit) = 0
      BY <1>28
    <3> HIDE DEF fresh
    <3> QED BY <3>1
  <2>4. taken > 0 => doc.nextId + taken <= MaxId
    BY <2>3
  <2>5. Allocated(edit) + Cardinality(Fresh(doc, edit, parseNodes(nextXml(doc, edit)))) = taken
    BY <2>2
  <2>6. AllFound(doc, edit, parseNodes(nextXml(doc, edit)))
    BY <1>27, <2>2
  <2> HIDE DEF taken
  <2> QED BY <1>25, <2>1, <2>4, <2>5, <2>6 DEF CanReplace
<1> QED BY <1>29 DEF edit
-----------------------------------------------------------------------------
(* A single element written under one binding is accepted if there are as  *)
(* many ids left as it has elements.                                       *)
LEMMA SingleIsAccepted ==
  ASSUME XmlAssumption, NEW doc, TreeSound(doc), doc.revision < MaxRevision,
         NEW edit, TreeEdit(doc, edit), NEW s, s = edit.replacement, SingleTree(s),
         NEW b, Range(edit.bindings) = {b},
         b.begin = edit.begin, b.end = edit.begin + Len(s),
         doc.nextId + Len(parseNodes(s)) <= MaxId
  PROVE  CanReplace(doc, edit)
<1> DEFINE S == Starts(s) \ {1}
           size == Cardinality(S)
           all == Cardinality(Starts(s))
           A == edit.begin
<1>1. /\ IsFiniteSet(S) /\ size = all - 1 /\ all \in Nat
  BY OthersAreFewer
<1>2. /\ Len(parseNodes(s)) = all /\ 1 \in Starts(s) /\ endOf(s, 1) = Len(s)
  BY DEF SingleTree
<1>3. A \in Nat
  BY DEF TreeEdit, IsRange
<1>4. A + (1 - 1) = A
  BY <1>3
<1>5. BindsAllBut(edit, S)
  <2> DEFINE one == 1
  <2>1. one \in Starts(s) /\ b.begin = A + (one - 1) /\ b.end = A + endOf(s, one)
    BY <1>2, <1>4
  <2>2. \A j \in Starts(s) : j \in S \/ j = one
    OBVIOUS
  <2> HIDE DEF one, S, A
  <2>3. \A c \in Range(edit.bindings) : \E j \in Starts(edit.replacement) :
          c.begin = A + (j - 1) /\ c.end = A + endOf(edit.replacement, j)
    BY <2>1
  <2>4. Bound(edit, one)
    BY <2>1 DEF Bound, A
  <2>5. \A j \in Starts(edit.replacement) : j \in S \/ Bound(edit, j)
    BY <2>2, <2>4
  <2> QED BY <2>3, <2>5 DEF BindsAllBut, A
<1>6. Allocated(edit) = 0 \/ Allocated(edit) = 1
  <2> DEFINE new == {c \in Range(edit.bindings) : c.allocate}
  <2>1. Cardinality({}) = 0 /\ Cardinality({b}) = 1
    BY FS_EmptySet, FS_Singleton
  <2>2. CASE b.allocate
    <3>1. new = {b}
      BY <2>2
    <3> QED BY <2>1, <3>1 DEF Allocated
  <2>3. CASE ~b.allocate
    <3>1. new = {}
      BY <2>3
    <3> QED BY <2>1, <3>1 DEF Allocated
  <2> QED BY <2>2, <2>3
<1>7. doc.nextId \in Nat /\ MaxId \in Nat
  BY DocumentNodes DEF XmlAssumption
<1> DEFINE taken == Allocated(edit)
<1>8. taken \in Nat /\ taken <= 1
  BY <1>6
<1>9. doc.nextId + all <= MaxId
  BY <1>2
<1>10. taken + size > 0 => doc.nextId + (taken + size) <= MaxId
  <2> HIDE DEF taken, size, all
  <2> QED BY <1>1, <1>7, <1>8, <1>9
<1>11. taken = Allocated(edit)
  OBVIOUS
<1> HIDE DEF taken, S
<1> QED BY <1>1, <1>5, <1>8, <1>10, <1>11, TreeEditsAreAccepted

(* An emptied document takes a root. *)
LEMMA RootCreationIsAccepted ==
  ASSUME XmlAssumption, NEW doc, TreeSound(doc), doc.revision < MaxRevision,
         doc.nodes = <<>>, NEW s, SingleTree(s),
         doc.nextId + Len(parseNodes(s)) <= MaxId
  PROVE  CanReplace(doc, rootCreation(doc, s))
<1> DEFINE at == Len(doc.xml)
           edit == rootCreation(doc, s)
           b == Binding(doc.nextId, at, at + Len(s), TRUE)
<1>1. /\ edit.begin = at /\ edit.end = at /\ edit.replacement = s /\ edit.bindings = <<b>>
      /\ b.begin = at /\ b.end = at + Len(s)
  BY DEF rootCreation, EditOf, Binding
<1> HIDE DEF edit, b
<1>2. Range(edit.bindings) = {b}
  BY <1>1 DEF Range
<1>3. TreeEdit(doc, edit)
  BY <1>1, RootCreationIsTreeEdit
<1>4. CanReplace(doc, edit)
  BY <1>1, <1>2, <1>3, SingleIsAccepted
<1> QED BY <1>4 DEF edit

(* A node can be replaced.                                                 *)
LEMMA UpdateIsAccepted ==
  ASSUME XmlAssumption, NEW doc, TreeSound(doc), doc.revision < MaxRevision,
         NEW node \in Range(doc.nodes), NEW s, SingleTree(s),
         doc.nextId + Len(parseNodes(s)) <= MaxId
  PROVE  CanReplace(doc, updateOf(node, s))
<1> DEFINE at == node.rawBegin
           edit == updateOf(node, s)
           b == Binding(node.id, at, at + Len(s), FALSE)
<1>1. /\ edit.begin = at /\ edit.end = node.rawEnd /\ edit.replacement = s
      /\ edit.bindings = <<b>> /\ b.begin = at /\ b.end = at + Len(s)
  BY DEF updateOf, EditOf, Binding
<1> HIDE DEF edit, b
<1>2. Range(edit.bindings) = {b}
  BY <1>1 DEF Range
<1>3. /\ at \in Nat /\ node.rawEnd \in Nat /\ at < node.rawEnd /\ node.rawEnd <= Len(doc.xml)
  BY NodeOfDocument
<1>4. /\ s \in Seq(TreeToken) /\ Len(s) \in Nat /\ TagsPair(s) /\ Nested(s)
      /\ 1 \in Starts(s) /\ endOf(s, 1) = Len(s)
  BY DEF SingleTree
<1>5. IsRange(edit, doc.xml)
  BY <1>1, <1>3, <1>4 DEF IsRange, TreeSound
<1>6. TreeEdit(doc, edit)
  BY <1>1, <1>4, <1>5, ReplacingIsTreeEdit
<1>7. CanReplace(doc, edit)
  BY <1>1, <1>2, <1>6, SingleIsAccepted
<1> QED BY <1>7 DEF edit

(* A node with a closing tag takes a child in front of it.                 *)
LEMMA ChildCreationIsAccepted ==
  ASSUME XmlAssumption, NEW doc, TreeSound(doc), doc.revision < MaxRevision,
         NEW node \in Range(doc.nodes), ~node.selfClosing, NEW s, SingleTree(s),
         doc.nextId + Len(parseNodes(s)) <= MaxId
  PROVE  CanReplace(doc, childCreation(doc, node, s))
<1> DEFINE at == node.valueEnd
           edit == childCreation(doc, node, s)
           b == Binding(doc.nextId, at, at + Len(s), TRUE)
<1>1. /\ edit.begin = at /\ edit.end = at /\ edit.replacement = s
      /\ edit.bindings = <<b>> /\ b.begin = at /\ b.end = at + Len(s)
  BY DEF childCreation, EditOf, Binding
<1> HIDE DEF edit, b
<1>2. Range(edit.bindings) = {b}
  BY <1>1 DEF Range
<1>3. /\ at \in Nat /\ at <= Len(doc.xml) /\ Len(doc.xml) \in Nat
  <2>1. /\ at \in Nat /\ node.rawEnd \in Nat /\ at <= node.rawEnd
        /\ node.rawEnd <= Len(doc.xml)
    BY NodeOfDocument
  <2>2. Len(doc.xml) \in Nat
    BY DEF TreeSound
  <2> HIDE DEF at
  <2> QED BY <2>1, <2>2
<1>4. /\ s \in Seq(TreeToken) /\ Len(s) \in Nat /\ TagsPair(s) /\ Nested(s)
  BY DEF SingleTree
<1>5. IsRange(edit, doc.xml)
  BY <1>1, <1>3, <1>4 DEF IsRange
<1>6. TreeEdit(doc, edit)
  BY <1>1, <1>4, <1>5, AppendingIsTreeEdit
<1>7. CanReplace(doc, edit)
  BY <1>1, <1>2, <1>6, SingleIsAccepted
<1> QED BY <1>7 DEF edit

(* A self-closing node is opened up around its first child.                *)
LEMMA OpeningIsAccepted ==
  ASSUME XmlAssumption, NEW doc, TreeSound(doc), doc.revision < MaxRevision,
         NEW node \in Range(doc.nodes), node.selfClosing, NEW s, SingleTree(s),
         doc.nextId + Len(parseNodes(s)) <= MaxId
  PROVE  CanReplace(doc, openingCreation(doc, node, s))
<1> DEFINE A == node.rawBegin
           l == Len(s)
           r == Wrapped(node.name, s)
           edit == openingCreation(doc, node, s)
           parent == Binding(node.id, A, A + 1 + l + 1, FALSE)
           child == Binding(doc.nextId, A + 1, A + 1 + l, TRUE)
<1>1. /\ edit.begin = A /\ edit.end = node.rawEnd /\ edit.replacement = r
      /\ edit.bindings = <<parent, child>>
      /\ parent.begin = A /\ parent.end = A + 1 + l + 1
      /\ parent.allocate = FALSE
      /\ child.begin = A + 1 /\ child.end = A + 1 + l
      /\ child.allocate = TRUE
  BY DEF EditOf, Binding, openingCreation, Wrapped
<1>2. /\ A \in Nat /\ node.rawEnd \in Nat /\ A < node.rawEnd /\ node.rawEnd <= Len(doc.xml)
      /\ node.name \in {token.tag : token \in Token}
  BY NodeOfDocument
<1>3. /\ [kind |-> "open", tag |-> node.name] \in TreeToken
      /\ [kind |-> "close", tag |-> node.name] \in TreeToken
  BY <1>2 DEF TreeToken
<1>4. /\ r \in Seq(TreeToken) /\ Len(r) = l + 2
      /\ TagsPair(r) /\ Nested(r)
      /\ 1 \in Starts(r) /\ endOf(r, 1) = Len(r)
      /\ \A j \in Starts(s) : 1 + j \in Starts(r) /\ endOf(r, 1 + j) = 1 + endOf(s, j)
      /\ \A p \in Starts(r) : p = 1 \/ \E j \in Starts(s) : p = 1 + j
  BY <1>3, WrappedIsNested
<1>5. /\ l \in Nat /\ 1 \in Starts(s) /\ endOf(s, 1) = l
      /\ Starts(s) \subseteq Nat
  <2>1. /\ l \in Nat /\ 1 \in Starts(s) /\ endOf(s, 1) = l
    BY DEF SingleTree
  <2>2. Starts(s) \subseteq Nat
    BY DEF Starts, Positions
  <2> QED BY <2>1, <2>2
<1> HIDE DEF edit, parent, child, r, l
<1>6. Range(edit.bindings) = {parent, child}
  BY <1>1 DEF Range
<1>7. IsRange(edit, doc.xml)
  BY <1>1, <1>2, <1>4, <1>5 DEF IsRange, TreeSound
<1>8. TreeEdit(doc, edit)
  BY <1>1, <1>4, <1>7, ReplacingIsTreeEdit
<1>9. Allocated(edit) = 1
  <2>1. {b \in Range(edit.bindings) : b.allocate} = {child}
    BY <1>1, <1>6
  <2> QED BY <2>1, FS_Singleton DEF Allocated
<1> DEFINE one == 1
           two == 1 + 1
           S == Starts(r) \ {one, two}
           rest == Starts(s) \ {1}
           all == Cardinality(Starts(s))
<1>10. /\ one \in Starts(r) /\ two \in Starts(r) /\ one = 1 /\ two = 1 + 1
       /\ endOf(r, one) = l + 2 /\ endOf(r, two) = 1 + l
  BY <1>4, <1>5
<1>11. /\ IsFiniteSet(rest) /\ Cardinality(rest) = all - 1 /\ all \in Nat
  BY OthersAreFewer
<1>12. /\ IsFiniteSet(S) /\ Cardinality(S) <= Cardinality(rest)
  <2> DEFINE shift == [p \in S |-> p - 1]
  <2>1. ASSUME NEW p \in S
        PROVE  p \in Nat /\ p - 1 \in rest
    <3>1. PICK j \in Starts(s) : p = 1 + j
      BY <1>4
    <3>2. j \in Nat /\ j # 1
      BY <1>5, <3>1
    <3> QED BY <3>1, <3>2
  <2>2. shift \in Injection(S, rest)
    <3>1. shift \in [S -> rest]
      BY <2>1
    <3>2. \A p, q \in S : p - 1 = q - 1 => p = q
      BY <2>1
    <3> QED BY <3>1, <3>2 DEF Injection, IsInjective
  <2> HIDE DEF shift, S, rest
  <2> QED BY <1>11, <2>2, FS_Injection
<1> HIDE DEF one, two
<1>13. BindsAllBut(edit, S)
  <2>1. /\ parent.begin = A + (one - 1) /\ parent.end = A + endOf(r, one)
        /\ child.begin = A + (two - 1) /\ child.end = A + endOf(r, two)
    <3>1. A + 1 + l + 1 = A + (l + 2) /\ A + (one - 1) = A /\ A + (two - 1) = A + 1
          /\ A + 1 + l = A + (1 + l)
      BY <1>2, <1>5, <1>10
    <3> QED BY <1>1, <1>10, <3>1
  <2>2. \A j \in Starts(r) : j \in S \/ j = one \/ j = two
    OBVIOUS
  <2>3. \A c \in Range(edit.bindings) : \E j \in Starts(edit.replacement) :
          c.begin = edit.begin + (j - 1) /\ c.end = edit.begin + endOf(edit.replacement, j)
    BY <1>1, <1>6, <1>10, <2>1
  <2>4. Bound(edit, one) /\ Bound(edit, two)
    BY <1>1, <1>6, <2>1 DEF Bound
  <2> HIDE DEF S
  <2>5. \A j \in Starts(edit.replacement) : j \in S \/ Bound(edit, j)
    BY <1>1, <2>2, <2>4
  <2> QED BY <2>3, <2>5 DEF BindsAllBut
<1>14. doc.nextId \in Nat /\ MaxId \in Nat
  BY DocumentNodes DEF XmlAssumption
<1>15. doc.nextId + all <= MaxId
  BY DEF SingleTree
<1> DEFINE taken == Allocated(edit)
           size == Cardinality(S)
<1>16. size \in Nat
  BY <1>12, FS_CardinalityType
<1>17. taken \in Nat /\ taken = 1 /\ size <= all - 1
  BY <1>9, <1>11, <1>12
<1>18. taken + size > 0 => doc.nextId + (taken + size) <= MaxId
  <2> HIDE DEF taken, size, all
  <2> QED BY <1>11, <1>14, <1>15, <1>16, <1>17
<1>19. taken = Allocated(edit)
  OBVIOUS
<1> HIDE DEF taken, S
<1>20. CanReplace(doc, edit)
  BY <1>8, <1>12, <1>13, <1>17, <1>18, <1>19, TreeEditsAreAccepted
<1> QED BY <1>20 DEF edit
-----------------------------------------------------------------------------
(* A node can be removed, the root with everything in it.                  *)
LEMMA RemovalIsAccepted ==
  ASSUME XmlAssumption, NEW doc, TreeSound(doc), doc.revision < MaxRevision,
         NEW node \in Range(doc.nodes)
  PROVE  CanReplace(doc, removalOf(node))
<1>1. CASE node.rawBegin = Len(prologOf(doc.xml))
  BY <1>1, RootRemovalIsAccepted
<1>2. CASE node.rawBegin # Len(prologOf(doc.xml))
  <2> DEFINE edit == removalOf(node)
  <2>1. /\ edit.begin = node.rawBegin /\ edit.end = node.rawEnd /\ edit.replacement = <<>>
        /\ edit.bindings = <<>>
    BY DEF EditOf, removalOf
  <2> HIDE DEF edit
  <2>2. edit.replacement \in Seq(TreeToken) /\ Len(edit.replacement) = 0
    BY <2>1
  <2>3. /\ node.rawBegin \in Nat /\ node.rawEnd \in Nat
        /\ node.rawBegin < node.rawEnd /\ node.rawEnd <= Len(doc.xml)
    BY NodeOfDocument
  <2>4. IsRange(edit, doc.xml)
    BY <2>1, <2>2, <2>3 DEF IsRange, TreeSound
  <2>5. TagsPair(edit.replacement) /\ Nested(edit.replacement)
    BY <2>1, TreesAreNested
  <2>6. TreeEdit(doc, edit)
    BY <1>2, <2>1, <2>2, <2>4, <2>5, ReplacingIsTreeEdit
  <2>7. Range(edit.bindings) = {}
    BY <2>1 DEF Range
  <2>8. Starts(edit.replacement) = {}
    BY <2>1 DEF Starts, Positions
  <2> DEFINE S == {}
  <2>9. BindsAllBut(edit, S)
    BY <2>7, <2>8 DEF BindsAllBut
  <2>10. IsFiniteSet(S) /\ Cardinality(S) = 0
    BY FS_EmptySet
  <2>11. Allocated(edit) = 0
    <3>1. {b \in Range(edit.bindings) : b.allocate} = S
      BY <2>7
    <3> QED BY <2>10, <3>1 DEF Allocated
  <2> DEFINE taken == Allocated(edit)
             size == Cardinality(S)
  <2>12. taken = 0 /\ taken \in Nat /\ size = 0
    BY <2>10, <2>11
  <2>13. taken = Allocated(edit)
    OBVIOUS
  <2> HIDE DEF taken, size
  <2>14. taken + size > 0 => doc.nextId + (taken + size) <= MaxId
    <3>1. ~(taken + size > 0)
      BY <2>12
    <3> QED BY <3>1
  <2> HIDE DEF S
  <2>15. taken + Cardinality(S) > 0 => doc.nextId + (taken + Cardinality(S)) <= MaxId
    BY <2>14 DEF size
  <2>16. CanReplace(doc, edit)
    BY <2>6, <2>9, <2>10, <2>12, <2>13, <2>15, TreeEditsAreAccepted
  <2> QED BY <2>16 DEF edit
<1> QED BY <1>1, <1>2

(* A document can be loaded again exactly while it has a root.             *)
LEMMA RootedIsLoadable ==
  ASSUME XmlAssumption, NEW doc, TreeSound(doc)
  PROVE  Parses(doc.xml, FALSE) <=> HasRoot(doc)
<1> DEFINE body == bodyOf(doc.xml)
           nodes == doc.nodes
<1>1. /\ prologAccepted(prologOf(doc.xml))
      /\ OneTree(body) \/ body = <<>>
      /\ NodesAreElements(nodes, doc.xml)
  BY DocumentElements
<1>2. doc.xml \in Seq(TreeToken)
  BY DEF TreeSound
<1>3. Parses(doc.xml, FALSE) <=> OneTree(body)
  <2> DEFINE allowEmpty == FALSE
  <2>1. allowEmpty \in BOOLEAN
    OBVIOUS
  <2> HIDE DEF allowEmpty
  <2>2. Parses(doc.xml, allowEmpty) <=>
          /\ prologAccepted(prologOf(doc.xml))
          /\ OneTree(body) \/ (allowEmpty /\ body = <<>>)
    BY <1>2, <2>1, ParsesIsTree
  <2> QED BY <1>1, <2>2, DocumentElements DEF allowEmpty
<1>4. nodes = <<>> <=> Len(nodes) = 0
  BY DocumentNodes
<1>5. OneTree(body) => 1 \in Starts(body)
  BY DEF OneTree
<1>6. body = <<>> => Starts(body) = {}
  BY DEF Starts, Positions
<1>7. /\ Len(nodes) \in Nat
      /\ \A n \in 1..Len(nodes) : \E i \in Starts(body) : TRUE
      /\ \A i \in Starts(body) : \E n \in 1..Len(nodes) : TRUE
  <2>1. NodesAreElements(nodes, doc.xml)
    BY <1>1
  <2> HIDE DEF nodes
  <2> QED BY <2>1 DEF NodesAreElements
<1>8. Starts(body) = {} <=> Len(nodes) = 0
  <2> HIDE DEF body, nodes
  <2>1. Len(nodes) # 0 => 1 \in 1..Len(nodes)
    BY <1>7
  <2>2. Len(nodes) = 0 => 1..Len(nodes) = {}
    OBVIOUS
  <2> QED BY <1>7, <2>1, <2>2
<1>9. OneTree(body) \/ body = <<>>
  BY DocumentElements
<1> HIDE DEF body, nodes
<1>10. HasRoot(doc) <=> Starts(body) # {}
  BY <1>4, <1>8 DEF HasRoot, nodes
<1> QED BY <1>3, <1>5, <1>6, <1>9, <1>10

(* A sound document refuses no element. *)
LEMMA SoundRefusesNone ==
  ASSUME XmlAssumption, TreeSound(tree)
  PROVE  NoElementIsRefused
<1>1. Parses(tree.xml, FALSE) <=> HasRoot(tree)
  BY RootedIsLoadable
<1> SUFFICES ASSUME tree.revision < MaxRevision
             PROVE  /\ \A node \in Nodes : CanReplace(tree, removalOf(node))
                    /\ \A fragment \in {f \in Fragment : isSingleNode(f)} :
                         LET s == trimmed(fragment)
                         IN tree.nextId + Len(parseNodes(s)) <= MaxId =>
                              /\ ~HasRoot(tree) => CanReplace(tree, rootCreation(tree, s))
                              /\ \A node \in Nodes :
                                   /\ CanReplace(tree, updateOf(node, s))
                                   /\ CanReplace(tree, creationIn(tree, node, s))
  BY <1>1 DEF NoElementIsRefused
<1>2. \A node \in Nodes : CanReplace(tree, removalOf(node))
  BY RemovalIsAccepted DEF Nodes
<1>3. ASSUME NEW fragment \in Fragment, isSingleNode(fragment),
             NEW s, s = trimmed(fragment),
             tree.nextId + Len(parseNodes(s)) <= MaxId
      PROVE  /\ ~HasRoot(tree) => CanReplace(tree, rootCreation(tree, s))
             /\ \A node \in Nodes : /\ CanReplace(tree, updateOf(node, s))
                                    /\ CanReplace(tree, creationIn(tree, node, s))
  <2>1. SingleTree(s)
    BY <1>3, FragmentIsTree
  <2>2. ~HasRoot(tree) => CanReplace(tree, rootCreation(tree, s))
    BY <1>3, <2>1, RootCreationIsAccepted DEF HasRoot
  <2>3. ASSUME NEW node \in Nodes
        PROVE  /\ CanReplace(tree, updateOf(node, s))
               /\ CanReplace(tree, creationIn(tree, node, s))
    <3>1. node \in Range(tree.nodes)
      BY DEF Nodes
    <3>2. CanReplace(tree, updateOf(node, s))
      BY <1>3, <2>1, <3>1, UpdateIsAccepted
    <3>3. node.selfClosing => CanReplace(tree, openingCreation(tree, node, s))
      BY <1>3, <2>1, <3>1, OpeningIsAccepted
    <3>4. ~node.selfClosing => CanReplace(tree, childCreation(tree, node, s))
      BY <1>3, <2>1, <3>1, ChildCreationIsAccepted
    <3> QED BY <3>2, <3>3, <3>4 DEF creationIn
  <2> QED BY <2>2, <2>3
<1> QED BY <1>2, <1>3

(* Whatever was done to a tree, only exhausted counters refuse an element: *)
(* each node can be removed, replaced and given a child, an emptied        *)
(* document takes a root, and what has a root can be loaded again.         *)
THEOREM ElementsAreNotRefused ==
  ASSUME XmlAssumption
  PROVE  Spec => []NoElementIsRefused
<1>1. IInv => NoElementIsRefused
  BY SoundRefusesNone DEF IInv
<1> QED BY <1>1, XmlInvariant, PTL
=============================================================================
