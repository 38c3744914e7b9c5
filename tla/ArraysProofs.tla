---------------------------- MODULE ArraysProofs ----------------------------
(***************************************************************************)
(* Proofs that the arrays of src/collections.c, for blocks of every size   *)
(* and every growth, hold each name and each key once (ArraysOK) and that  *)
(* they implement the list and the map of AbstractCollections.             *)
(***************************************************************************)
EXTENDS CollectionArrays, SequenceTheorems, TLAPS

-----------------------------------------------------------------------------
(***************************************************************************)
(* One array: what a call makes of its cells.                              *)
(***************************************************************************)
Block(Element) ==
  UNION {[0..(n - 1) -> Element \cup {NULL, Garbage}] : n \in Nat}

Array(Element) == [cells : Block(Element), size : Nat, capacity : Nat]

IsArray(a, Element) == a \in Array(Element) /\ ArrayType(a, Element)

LEMMA BlockOf ==
  ASSUME NEW Element, NEW n \in Nat,
         NEW f \in [0..(n - 1) -> Element \cup {NULL, Garbage}]
  PROVE  f \in Block(Element)
BY DEF Block

(* What is known of an array, with its block's type.                       *)
LEMMA ArrayFacts ==
  ASSUME NEW Element, NEW a, IsArray(a, Element)
  PROVE  /\ a \in Array(Element)
         /\ a.size \in Nat /\ a.capacity \in Nat /\ a.capacity # 0
         /\ a.size <= a.capacity
         /\ a.cells \in [0..(a.capacity - 1) -> Element \cup {NULL, Garbage}]
         /\ \A i \in Used(a) : a.cells[i] \in Element
<1>1. a.cells \in Block(Element)
  BY DEF IsArray, Array
<1>2. PICK n \in Nat : a.cells \in [0..(n - 1) -> Element \cup {NULL, Garbage}]
  BY <1>1 DEF Block
<1>3. DOMAIN a.cells = 0..(n - 1) /\ DOMAIN a.cells = 0..(a.capacity - 1)
  BY <1>2 DEF IsArray, ArrayType
<1>4. a.cells \in [0..(a.capacity - 1) -> Element \cup {NULL, Garbage}]
  BY <1>2, <1>3
<1> QED
  BY <1>4 DEF IsArray, ArrayType

LEMMA GrowthIsReal ==
  ASSUME NEW n \in Nat, n # 0
  PROVE  n * GROWTH_FACTOR \in Nat /\ n < n * GROWTH_FACTOR
<1>1. PICK k \in Nat : GROWTH_FACTOR = k + 2
  <2>1. GROWTH_FACTOR \in Nat /\ GROWTH_FACTOR # 0 /\ GROWTH_FACTOR # 1
    BY ArraysAssumption
  <2>2. GROWTH_FACTOR - 2 \in Nat /\ GROWTH_FACTOR = (GROWTH_FACTOR - 2) + 2
    BY <2>1
  <2> QED
    BY <2>2
<1>2. n * GROWTH_FACTOR = n * k + n + n
  BY <1>1
<1>3. n * k \in Nat
  OBVIOUS
<1> QED
  BY <1>2, <1>3

LEMMA CreatedArray ==
  ASSUME NEW Element
  PROVE  /\ IsArray(array_create, Element)
         /\ array_create.size = 0 /\ Used(array_create) = {}
<1> DEFINE a == array_create
<1>1. /\ a.cells = calloc(INITIAL_CAPACITY) /\ a.size = 0
      /\ a.capacity = INITIAL_CAPACITY
  BY DEF array_create
<1>2. INITIAL_CAPACITY \in Nat /\ INITIAL_CAPACITY # 0
  BY ArraysAssumption
<1>3. calloc(INITIAL_CAPACITY)
        \in [0..(INITIAL_CAPACITY - 1) -> Element \cup {NULL, Garbage}]
  BY DEF calloc
<1>4. calloc(INITIAL_CAPACITY) \in Block(Element)
  BY <1>2, <1>3, BlockOf
<1>5. Used(a) = {}
  BY <1>1 DEF Used
<1>6. a \in Array(Element)
  BY <1>2, <1>4 DEF array_create, Array
<1> HIDE DEF a
<1>7. DOMAIN a.cells = 0..(a.capacity - 1)
  BY <1>1, <1>3
<1>8. ArrayType(a, Element)
  BY <1>1, <1>2, <1>5, <1>7 DEF ArrayType
<1> QED
  BY <1>1, <1>5, <1>6, <1>8 DEF IsArray, a

LEMMA StoredArray ==
  ASSUME NEW Element, NEW a, IsArray(a, Element), a.size < a.capacity,
         NEW element \in Element
  PROVE  LET b == Stored(a, element) IN
         /\ IsArray(b, Element) /\ b.size = a.size + 1
         /\ \A i \in Used(a) : b.cells[i] = a.cells[i]
         /\ b.cells[a.size] = element
<1> DEFINE b == Stored(a, element)
           block == [a.cells EXCEPT ![a.size] = element]
<1>1. /\ a \in Array(Element)
      /\ a.size \in Nat /\ a.capacity \in Nat /\ a.capacity # 0
      /\ a.cells \in [0..(a.capacity - 1) -> Element \cup {NULL, Garbage}]
      /\ \A i \in Used(a) : a.cells[i] \in Element
  BY ArrayFacts
<1>2. a.size \in 0..(a.capacity - 1) /\ a.size + 1 \in Nat
  BY <1>1
<1>3. block \in [0..(a.capacity - 1) -> Element \cup {NULL, Garbage}]
  BY <1>1
<1>4. block \in Block(Element)
  BY <1>1, <1>3, BlockOf
<1>5. /\ block[a.size] = element
      /\ \A i \in 0..(a.capacity - 1) : i # a.size => block[i] = a.cells[i]
      /\ DOMAIN block = 0..(a.capacity - 1)
  BY <1>1, <1>2
<1>6. b = [a EXCEPT !.cells = block, !.size = a.size + 1]
  BY DEF Stored
<1> HIDE DEF block, b
<1>7. /\ b \in Array(Element)
      /\ b.cells = block /\ b.size = a.size + 1 /\ b.capacity = a.capacity
  BY <1>1, <1>2, <1>4, <1>6 DEF Array
<1>8. /\ \A i \in Used(a) : i \in 0..(a.capacity - 1) /\ i # a.size
      /\ \A i \in Used(b) : i \in Used(a) \/ i = a.size
  BY <1>1, <1>2, <1>7 DEF Used
<1>9. \A i \in Used(b) : b.cells[i] \in Element
  BY <1>1, <1>5, <1>7, <1>8
<1>10. ArrayType(b, Element)
  <2>1. b.size \in Nat /\ b.size <= b.capacity
    BY <1>1, <1>2, <1>7
  <2> QED
    BY <2>1, <1>1, <1>5, <1>7, <1>9 DEF ArrayType
<1>11. \A i \in Used(a) : b.cells[i] = a.cells[i]
  BY <1>5, <1>7, <1>8
<1> QED
  BY <1>5, <1>7, <1>10, <1>11 DEF IsArray, b

LEMMA GrownArray ==
  ASSUME NEW Element, NEW a, IsArray(a, Element)
  PROVE  LET b == Grown(a) IN
         /\ IsArray(b, Element) /\ b.size = a.size /\ a.capacity < b.capacity
         /\ \A i \in Used(a) : b.cells[i] = a.cells[i]
<1> DEFINE b == Grown(a)
           n == a.capacity * GROWTH_FACTOR
           block == realloc(a.cells, n)
<1>1. /\ a \in Array(Element)
      /\ a.size \in Nat /\ a.capacity \in Nat /\ a.capacity # 0
      /\ a.size <= a.capacity
      /\ a.cells \in [0..(a.capacity - 1) -> Element \cup {NULL, Garbage}]
      /\ \A i \in Used(a) : a.cells[i] \in Element
  BY ArrayFacts
<1>2. n \in Nat /\ a.capacity < n
  BY <1>1, GrowthIsReal
<1>3. b = [a EXCEPT !.cells = block, !.capacity = n]
  BY DEF Grown
<1> HIDE DEF n, b
<1>4. /\ block \in [0..(n - 1) -> Element \cup {NULL, Garbage}]
      /\ \A i \in 0..(a.capacity - 1) : i \in 0..(n - 1) => block[i] = a.cells[i]
  BY <1>1 DEF realloc
<1> HIDE DEF block
<1>5. block \in Block(Element)
  BY <1>2, <1>4, BlockOf
<1>6. /\ b \in Array(Element)
      /\ b.cells = block /\ b.size = a.size /\ b.capacity = n
  BY <1>1, <1>2, <1>3, <1>5 DEF Array
<1>7. \A i \in Used(a) : i \in 0..(a.capacity - 1) /\ i \in 0..(n - 1)
  BY <1>1, <1>2 DEF Used
<1>8. \A i \in Used(a) : b.cells[i] = a.cells[i]
  BY <1>4, <1>6, <1>7
<1>9. Used(b) = Used(a)
  BY <1>6 DEF Used
<1>10. ArrayType(b, Element)
  <2>1. b.size <= b.capacity /\ b.capacity # 0
    BY <1>1, <1>2, <1>6
  <2>2. \A i \in Used(b) : b.cells[i] \in Element
    BY <1>1, <1>8, <1>9
  <2> QED
    BY <2>1, <2>2, <1>1, <1>2, <1>4, <1>6 DEF ArrayType
<1> QED
  BY <1>2, <1>6, <1>8, <1>10 DEF IsArray, b

(* A call that stores something: the element is the last one, unless the   *)
(* block was full and could not grow.                                      *)
LEMMA ExtendedArray ==
  ASSUME NEW Element, NEW a, IsArray(a, Element), NEW element \in Element,
         NEW ok \in BOOLEAN
  PROVE  LET b == Extended(a, element, ok) IN
         /\ IsArray(b, Element)
         /\ \/ ~ok /\ b = a
            \/ /\ a.size = a.capacity => ok
               /\ b.size = a.size + 1
               /\ \A i \in Used(a) : b.cells[i] = a.cells[i]
               /\ b.cells[a.size] = element
<1> DEFINE b == Extended(a, element, ok)
<1>1. a.size \in Nat /\ a.capacity \in Nat /\ a.size <= a.capacity
  BY ArrayFacts
<1>2. CASE a.size # a.capacity
  <2>1. b = Stored(a, element)
    BY <1>2 DEF Extended
  <2> QED
    BY <1>1, <1>2, <2>1, StoredArray
<1>3. CASE a.size = a.capacity /\ ok
  <2> DEFINE g == Grown(a)
  <2>1. b = Stored(g, element)
    BY <1>3 DEF Extended
  <2>2. /\ IsArray(g, Element) /\ g.size = a.size /\ a.capacity < g.capacity
        /\ \A i \in Used(a) : g.cells[i] = a.cells[i]
    BY GrownArray
  <2> HIDE DEF g
  <2>3. g.size < g.capacity /\ Used(g) = Used(a)
    BY <1>3, <2>2 DEF Used
  <2>4. /\ IsArray(Stored(g, element), Element)
        /\ Stored(g, element).size = g.size + 1
        /\ \A i \in Used(g) : Stored(g, element).cells[i] = g.cells[i]
        /\ Stored(g, element).cells[g.size] = element
    BY <2>2, <2>3, StoredArray
  <2> HIDE DEF b
  <2> QED
    BY <1>3, <2>1, <2>2, <2>3, <2>4 DEF b
<1>4. CASE a.size = a.capacity /\ ~ok
  BY <1>4 DEF Extended
<1> QED
  BY <1>2, <1>3, <1>4

LEMMA WithoutArray ==
  ASSUME NEW Element, NEW a, IsArray(a, Element), NEW p \in Used(a)
  PROVE  LET b == Without(a, p) IN
         /\ IsArray(b, Element) /\ b.size = a.size - 1
         /\ \A i \in Used(b) :
              b.cells[i] = IF i < p THEN a.cells[i] ELSE a.cells[i + 1]
<1> DEFINE b == Without(a, p)
           block == memmove(a.cells, a.size - p - 1, p, p + 1)
<1>1. /\ a \in Array(Element)
      /\ a.size \in Nat /\ a.capacity \in Nat /\ a.capacity # 0
      /\ a.size <= a.capacity
      /\ a.cells \in [0..(a.capacity - 1) -> Element \cup {NULL, Garbage}]
      /\ \A i \in Used(a) : a.cells[i] \in Element
  BY ArrayFacts
<1>2. p \in Nat /\ p < a.size /\ a.size - 1 \in Nat
  BY <1>1 DEF Used
<1>3. \A i \in 0..(a.capacity - 1) :
        i - p \in 0..(a.size - p - 1 - 1) => /\ i + 1 \in 0..(a.capacity - 1)
                                            /\ i - p + (p + 1) = i + 1
  BY <1>1, <1>2
<1>4. /\ DOMAIN block = 0..(a.capacity - 1)
      /\ \A i \in 0..(a.capacity - 1) :
           block[i] = IF i - p \in 0..(a.size - p - 1 - 1)
                      THEN a.cells[i - p + (p + 1)] ELSE a.cells[i]
      /\ block = [i \in 0..(a.capacity - 1) |-> block[i]]
  BY <1>1 DEF memmove
<1>5. b = [a EXCEPT !.cells = block, !.size = a.size - 1]
  BY DEF Without
<1> HIDE DEF block, b
<1>6. \A i \in 0..(a.capacity - 1) : block[i] \in Element \cup {NULL, Garbage}
  BY <1>1, <1>3, <1>4
<1>7. block \in [0..(a.capacity - 1) -> Element \cup {NULL, Garbage}]
  BY <1>4, <1>6
<1>8. block \in Block(Element)
  BY <1>1, <1>7, BlockOf
<1>9. /\ b \in Array(Element)
      /\ b.cells = block /\ b.size = a.size - 1 /\ b.capacity = a.capacity
  BY <1>1, <1>2, <1>5, <1>8 DEF Array
<1>10. \A i \in Used(b) :
         /\ i \in 0..(a.capacity - 1)
         /\ i \in Used(a) /\ i + 1 \in Used(a)
         /\ i < p <=> i - p \notin 0..(a.size - p - 1 - 1)
  <2> DEFINE n == a.size
             k == a.capacity
  <2>1. b.size = n - 1 /\ n \in Nat /\ k \in Nat /\ n <= k
        /\ p \in Nat /\ p < n
    BY <1>1, <1>2, <1>9
  <2> HIDE DEF n, k
  <2> SUFFICES ASSUME NEW i \in 0..(n - 2)
               PROVE  /\ i \in 0..(k - 1)
                      /\ i \in 0..(n - 1) /\ i + 1 \in 0..(n - 1)
                      /\ i < p <=> i - p \notin 0..(n - p - 1 - 1)
    <3>1. Used(b) = 0..(n - 2) /\ Used(a) = 0..(n - 1)
      <4>1. n - 1 - 1 = n - 2
        BY <2>1
      <4> QED
        BY <2>1, <4>1 DEF Used, n
    <3> QED
      BY <3>1 DEF n, k
  <2>2. i \in 0..(k - 1) /\ i \in 0..(n - 1) /\ i + 1 \in 0..(n - 1)
    BY <2>1
  <2>3. i < p => i - p \notin 0..(n - p - 1 - 1)
    BY <2>1
  <2>4. ~(i < p) => i - p \in 0..(n - p - 1 - 1)
    BY <2>1
  <2> QED
    BY <2>2, <2>3, <2>4
<1>11. \A i \in Used(b) :
         b.cells[i] = IF i < p THEN a.cells[i] ELSE a.cells[i + 1]
  <2> TAKE i \in Used(b)
  <2>1. /\ i \in 0..(a.capacity - 1)
        /\ i < p <=> i - p \notin 0..(a.size - p - 1 - 1)
    BY <1>10
  <2>2. block[i] = IF i - p \in 0..(a.size - p - 1 - 1)
                   THEN a.cells[i - p + (p + 1)] ELSE a.cells[i]
    BY <1>4, <2>1
  <2>3. i - p \in 0..(a.size - p - 1 - 1) => i - p + (p + 1) = i + 1
    BY <1>3, <2>1
  <2> QED
    BY <1>9, <2>1, <2>2, <2>3
<1>12. \A i \in Used(b) : b.cells[i] \in Element
  <2> TAKE i \in Used(b)
  <2>1. i \in Used(a) /\ i + 1 \in Used(a)
    BY <1>10
  <2>2. a.cells[i] \in Element /\ a.cells[i + 1] \in Element
    BY <1>1, <2>1
  <2> QED
    BY <1>11, <2>2
<1>13. ArrayType(b, Element)
  <2>1. b.size \in Nat /\ b.size <= b.capacity
    BY <1>1, <1>2, <1>9
  <2> QED
    BY <2>1, <1>1, <1>4, <1>9, <1>12 DEF ArrayType
<1> QED
  BY <1>9, <1>11, <1>13 DEF IsArray, b

-----------------------------------------------------------------------------
(***************************************************************************)
(* The vector of names, and the list it stands for.                        *)
(***************************************************************************)
Distinct(v) == \A i, j \in Used(v) : v.cells[i] = v.cells[j] => i = j

IsVector(v) == IsArray(v, Name) /\ Distinct(v)

List(v) == [i \in 1..v.size |-> v.cells[i - 1]]

LEMMA ListIsSeq ==
  ASSUME NEW v, IsArray(v, Name)
  PROVE  /\ List(v) \in Seq(Name) /\ Len(List(v)) = v.size
         /\ \A i \in 1..v.size : List(v)[i] = v.cells[i - 1]
<1>1. v.size \in Nat /\ \A i \in Used(v) : v.cells[i] \in Name
  BY ArrayFacts
<1>2. \A i \in 1..v.size : v.cells[i - 1] \in Name
  BY <1>1 DEF Used
<1> DEFINE e(i) == v.cells[i - 1]
<1>3. [i \in 1..v.size |-> e(i)] \in Seq(Name)
  <2> HIDE DEF e
  <2>1. \A i \in 1..v.size : e(i) \in Name
    BY <1>2 DEF e
  <2> QED
    BY <1>1, <2>1, IsASeq
<1>4. Len(List(v)) = v.size
  BY <1>1 DEF List
<1> QED
  BY <1>3, <1>4 DEF List

(* The search finds the one cell that holds the name.                      *)
LEMMA MatchIs ==
  ASSUME NEW v, IsVector(v), NEW name
  PROVE  Match(v, name) = {i \in Used(v) : v.cells[i] = name}
<1>1. v.size \in Nat
  BY ArrayFacts DEF IsVector
<1>2. \A i \in Used(v) : vector_get(v, i) = v.cells[i]
  BY <1>1 DEF Used, vector_get
<1>3. \A i \in Used(v) : \A j \in 0..(i - 1) : j \in Used(v) /\ j # i
  BY <1>1 DEF Used
<1>4. ASSUME NEW i \in Used(v), v.cells[i] = name, NEW j \in 0..(i - 1)
      PROVE  vector_get(v, j) # name
  BY <1>2, <1>3, <1>4 DEF IsVector, Distinct
<1> QED
  BY <1>2, <1>4 DEF Match, Used, vector_size

LEMMA ListedIs ==
  ASSUME NEW v, IsVector(v), NEW name
  PROVE  name \in Abstract!Listed(List(v)) <=> Match(v, name) # {}
<1>1. v.size \in Nat /\ Len(List(v)) = v.size
      /\ \A i \in 1..v.size : List(v)[i] = v.cells[i - 1]
  BY ArrayFacts, ListIsSeq DEF IsVector
<1>2. ASSUME NEW k \in 1..v.size, List(v)[k] = name PROVE Match(v, name) # {}
  <2>1. k - 1 \in Used(v) /\ v.cells[k - 1] = name
    BY <1>1, <1>2 DEF Used
  <2> QED
    BY <2>1, MatchIs
<1>3. ASSUME NEW k \in Match(v, name) PROVE \E i \in 1..v.size : List(v)[i] = name
  <2>1. k \in Used(v) /\ v.cells[k] = name
    BY <1>3, MatchIs
  <2>2. k + 1 \in 1..v.size /\ (k + 1) - 1 = k
    BY <1>1, <2>1 DEF Used
  <2> QED
    BY <1>1, <2>1, <2>2
<1> QED
  BY <1>1, <1>2, <1>3 DEF Abstract!Listed

(* Adding a name appends it, unless it is there or memory has run out.     *)
LEMMA AddedName ==
  ASSUME NEW v, IsVector(v), NEW name \in Name, NEW ok \in BOOLEAN
  PROVE  LET w == add_file_to_list(v, name, ok) IN
         /\ IsVector(w)
         /\ ok => List(w) = Abstract!add_file_to_list(List(v), name)
         /\ ~ok /\ v.size = v.capacity => w = v
<1> DEFINE w == add_file_to_list(v, name, ok)
<1>1. CASE Match(v, name) # {}
  <2>1. w = v
    BY <1>1 DEF add_file_to_list
  <2> HIDE DEF w
  <2>2. Abstract!add_file_to_list(List(v), name) = List(v)
    BY <1>1, ListedIs DEF Abstract!add_file_to_list
  <2> QED
    BY <2>1, <2>2 DEF w
<1>2. CASE Match(v, name) = {}
  <2>1. w = Extended(v, name, ok)
    BY <1>2 DEF add_file_to_list, vector_push_back
  <2>2. /\ IsArray(w, Name)
        /\ \/ ~ok /\ w = v
           \/ /\ v.size = v.capacity => ok
              /\ w.size = v.size + 1
              /\ \A i \in Used(v) : w.cells[i] = v.cells[i]
              /\ w.cells[v.size] = name
    BY <2>1, ExtendedArray DEF IsVector
  <2> HIDE DEF w
  <2>3. CASE ~ok /\ w = v
    BY <2>3 DEF w
  <2>4. CASE /\ v.size = v.capacity => ok
             /\ w.size = v.size + 1
             /\ \A i \in Used(v) : w.cells[i] = v.cells[i]
             /\ w.cells[v.size] = name
    <3>1. /\ v.size \in Nat
          /\ \A i \in Used(w) : i \in Used(v) \/ i = v.size
      BY <2>4, ArrayFacts DEF IsVector, Used
    <3>2. \A i \in Used(v) : v.cells[i] # name
      BY <1>2, MatchIs
    <3>3. Distinct(w)
      BY <2>4, <3>1, <3>2 DEF IsVector, Distinct
    <3>4. List(w) = Append(List(v), name)
      <4>1. /\ List(v) \in Seq(Name) /\ Len(List(v)) = v.size
            /\ \A i \in 1..v.size : List(v)[i] = v.cells[i - 1]
        BY ListIsSeq DEF IsVector
      <4>2. /\ List(w) \in Seq(Name) /\ Len(List(w)) = v.size + 1
            /\ \A i \in 1..(v.size + 1) : List(w)[i] = w.cells[i - 1]
        BY <2>2, <2>4, ListIsSeq
      <4>3. /\ Append(List(v), name) \in Seq(Name)
            /\ Len(Append(List(v), name)) = v.size + 1
            /\ \A i \in 1..v.size : Append(List(v), name)[i] = List(v)[i]
            /\ Append(List(v), name)[v.size + 1] = name
        BY <4>1, AppendProperties
      <4>4. ASSUME NEW i \in 1..(v.size + 1)
            PROVE  List(w)[i] = Append(List(v), name)[i]
        <5>1. CASE i = v.size + 1
          BY <2>4, <3>1, <4>2, <4>3, <5>1
        <5>2. CASE i # v.size + 1
          <6>1. i \in 1..v.size /\ i - 1 \in Used(v)
            BY <3>1, <5>2 DEF Used
          <6> QED
            BY <2>4, <4>1, <4>2, <4>3, <6>1
        <5> QED
          BY <5>1, <5>2
      <4> QED
        BY <4>2, <4>3, <4>4, SeqEqual
    <3>5. Abstract!add_file_to_list(List(v), name) = Append(List(v), name)
      BY <1>2, ListedIs
      DEF Abstract!add_file_to_list, Abstract!vector_push_back
    <3> QED
      BY <2>2, <2>4, <3>3, <3>4, <3>5 DEF IsVector, w
  <2> QED
    BY <2>2, <2>3, <2>4
<1> QED
  BY <1>1, <1>2

(* Closing a gap keeps different elements different.                       *)
LEMMA ClosedUp ==
  ASSUME NEW v, NEW w, v.size \in Nat, NEW p \in Used(v), w.size = v.size - 1,
         \A i \in Used(w) :
           w.cells[i] = IF i < p THEN v.cells[i] ELSE v.cells[i + 1],
         Distinct(v)
  PROVE  Distinct(w)
<1> SUFFICES ASSUME NEW i \in Used(w), NEW j \in Used(w), w.cells[i] = w.cells[j]
             PROVE  i = j
  BY DEF Distinct
<1> DEFINE from(k) == IF k < p THEN k ELSE k + 1
<1>1. \A k \in Used(w) : from(k) \in Used(v) /\ w.cells[k] = v.cells[from(k)]
  BY DEF Used
<1>2. from(i) = from(j)
  <2> HIDE DEF from
  <2> QED
    BY <1>1 DEF Distinct
<1> QED
  BY <1>2 DEF Used

(* Cutting a cell out of the block cuts the name out of the list.          *)
LEMMA ErasedName ==
  ASSUME NEW v, IsVector(v), NEW p \in Used(v)
  PROVE  List(Without(v, p)) = Abstract!vector_erase(List(v), p + 1)
<1> DEFINE w == Without(v, p)
           L == v.size
           s == List(v)
           left == SubSeq(s, 1, p)
           right == SubSeq(s, p + 2, L)
           new == left \o right
<1>1. /\ L \in Nat /\ p \in Nat /\ p < L
      /\ s \in Seq(Name) /\ Len(s) = L
      /\ \A i \in 1..L : s[i] = v.cells[i - 1] /\ s[i] \in Name
  BY ArrayFacts, ListIsSeq, ElementOfSeq DEF IsVector, Used
<1>2. /\ IsArray(w, Name) /\ w.size = L - 1
      /\ \A i \in Used(w) :
           w.cells[i] = IF i < p THEN v.cells[i] ELSE v.cells[i + 1]
  BY WithoutArray DEF IsVector
<1> HIDE DEF w
<1>3. /\ List(w) \in Seq(Name) /\ Len(List(w)) = L - 1
      /\ \A i \in 1..(L - 1) : List(w)[i] = w.cells[i - 1]
  BY <1>2, ListIsSeq
<1>4. Abstract!vector_erase(s, p + 1) = new
  <2>1. (p + 1) - 1 = p /\ (p + 1) + 1 = p + 2
    BY <1>1
  <2> QED
    BY <1>1, <2>1 DEF Abstract!vector_erase
<1> HIDE DEF s, L
<1>5. /\ left \in Seq(Name) /\ Len(left) = p
      /\ \A i \in 1..p : left[i] = s[i]
  <2>1. \A i \in 1..p : s[i] \in Name
    BY <1>1
  <2> QED
    BY <1>1, <2>1, SubSeqProperties
<1>6. /\ right \in Seq(Name) /\ Len(right) = L - p - 1
      /\ \A i \in 1..(L - p - 1) : right[i] = s[p + 1 + i]
  <2>1. \A i \in (p + 2)..L : s[i] \in Name
    BY <1>1
  <2>2. /\ right \in Seq(Name)
        /\ Len(right) = IF p + 2 <= L THEN L - (p + 2) + 1 ELSE 0
        /\ \A i \in 1..(L - (p + 2) + 1) : right[i] = s[p + 2 + i - 1]
    BY <1>1, <2>1, SubSeqProperties
  <2> HIDE DEF right
  <2>3. Len(right) = L - p - 1 /\ L - (p + 2) + 1 = L - p - 1
    BY <1>1, <2>2
  <2>4. \A i \in 1..(L - p - 1) : p + 2 + i - 1 = p + 1 + i
    BY <1>1
  <2> QED
    BY <2>2, <2>3, <2>4
<1> HIDE DEF left, right
<1>7. /\ new \in Seq(Name) /\ Len(new) = Len(left) + Len(right)
      /\ \A i \in 1..(Len(left) + Len(right)) :
           new[i] = IF i <= Len(left) THEN left[i] ELSE right[i - Len(left)]
  BY <1>5, <1>6, ConcatProperties
<1> HIDE DEF new
<1>8. Len(new) = L - 1 /\ Len(left) + Len(right) = L - 1
  BY <1>1, <1>5, <1>6, <1>7
<1>9. ASSUME NEW i \in 1..(L - 1) PROVE List(w)[i] = new[i]
  <2>1. /\ i - 1 \in Used(w) /\ i - 1 + 1 = i
        /\ i \in 1..L /\ i + 1 \in 1..L /\ i + 1 - 1 = i
    BY <1>1, <1>2 DEF Used
  <2>2. List(w)[i] = IF i <= p THEN s[i] ELSE s[i + 1]
    <3>1. w.cells[i - 1] = IF i - 1 < p THEN v.cells[i - 1] ELSE v.cells[i]
      BY <1>2, <2>1
    <3>2. i - 1 < p <=> i <= p
      BY <1>1
    <3>3. s[i] = v.cells[i - 1] /\ s[i + 1] = v.cells[i]
      BY <1>1, <2>1
    <3> QED
      BY <1>3, <3>1, <3>2, <3>3
  <2>3. CASE i <= p
    BY <1>1, <1>5, <1>7, <1>8, <2>2, <2>3
  <2>4. CASE ~(i <= p)
    <3>1. i - p \in 1..(L - p - 1) /\ p + 1 + (i - p) = i + 1
      BY <1>1, <2>4
    <3>2. right[i - p] = s[i + 1]
      BY <1>6, <3>1
    <3> QED
      BY <1>5, <1>7, <1>8, <2>2, <2>4, <3>2
  <2> QED
    BY <2>3, <2>4
<1>10. List(w) = new
  BY <1>3, <1>7, <1>8, <1>9, SeqEqual
<1> QED
  BY <1>4, <1>10 DEF w, s

LEMMA RemovedName ==
  ASSUME NEW v, IsVector(v), NEW name
  PROVE  LET w == remove_file_from_list(v, name) IN
         /\ IsVector(w)
         /\ List(w) = Abstract!remove_file_from_list(List(v), name)
<1> DEFINE w == remove_file_from_list(v, name)
<1>1. CASE Match(v, name) = {}
  <2>1. w = v
    BY <1>1 DEF remove_file_from_list
  <2>2. Abstract!remove_file_from_list(List(v), name) = List(v)
    BY <1>1, ListedIs DEF Abstract!remove_file_from_list
  <2> QED
    BY <2>1, <2>2
<1>2. CASE Match(v, name) # {}
  <2> DEFINE p == CHOOSE i \in Match(v, name) : TRUE
  <2>1. p \in Match(v, name)
    BY <1>2
  <2>2. p \in Used(v) /\ v.cells[p] = name
    BY <2>1, MatchIs
  <2>3. w = Without(v, p)
    <3>1. w = vector_erase(v, p)
      BY <1>2 DEF remove_file_from_list
    <3> HIDE DEF p, w
    <3>2. v.size \in Nat
      BY ArrayFacts DEF IsVector
    <3>3. ~(p >= v.size)
      BY <2>2, <3>2 DEF Used
    <3> QED
      BY <3>1, <3>3 DEF vector_erase
  <2> HIDE DEF w, p
  <2>4. /\ v.size \in Nat /\ Len(List(v)) = v.size
        /\ \A i \in 1..v.size : List(v)[i] = v.cells[i - 1]
    BY ArrayFacts, ListIsSeq DEF IsVector
  <2>5. Abstract!FirstIndex(List(v), name) = p + 1
    <3>1. p + 1 \in 1..v.size /\ (p + 1) - 1 = p
      BY <2>2, <2>4 DEF Used
    <3>2. ASSUME NEW i \in 1..v.size, List(v)[i] = name PROVE i = p + 1
      <4>1. i - 1 \in Used(v) /\ v.cells[i - 1] = name
        BY <2>4, <3>2 DEF Used
      <4>2. i - 1 = p
        BY <2>2, <4>1 DEF IsVector, Distinct
      <4> QED
        BY <4>2
    <3>3. \A j \in 1..(p + 1 - 1) : j \in 1..v.size /\ j # p + 1
      BY <2>4, <3>1
    <3>4. List(v)[p + 1] = name
      BY <2>2, <2>4, <3>1
    <3>5. \A j \in 1..(p + 1 - 1) : List(v)[j] # name
      BY <3>2, <3>3
    <3> QED
      BY <2>4, <3>1, <3>2, <3>4, <3>5 DEF Abstract!FirstIndex
  <2>6. Abstract!remove_file_from_list(List(v), name)
          = Abstract!vector_erase(List(v), p + 1)
    BY <1>2, <2>5, ListedIs DEF Abstract!remove_file_from_list
  <2>7. List(w) = Abstract!vector_erase(List(v), p + 1)
    BY <2>2, <2>3, ErasedName
  <2>8. /\ IsArray(w, Name) /\ w.size = v.size - 1
        /\ \A i \in Used(w) :
             w.cells[i] = IF i < p THEN v.cells[i] ELSE v.cells[i + 1]
    BY <2>2, <2>3, WithoutArray DEF IsVector
  <2>9. Distinct(w)
    BY <2>2, <2>4, <2>8, ClosedUp DEF IsVector
  <2> QED
    BY <2>6, <2>7, <2>8, <2>9 DEF IsVector, w
<1> QED
  BY <1>1, <1>2

-----------------------------------------------------------------------------
(***************************************************************************)
(* The dictionary, and the map it stands for.                              *)
(***************************************************************************)
DistinctKeys(d) ==
  \A i, j \in Used(d) : d.cells[i].key = d.cells[j].key => i = j

IsDictionary(d) == IsArray(d, Entry) /\ DistinctKeys(d)

Map(d) == [key \in Key |-> dictionary_get(d, key)]

LEMMA FoundIs ==
  ASSUME NEW d, IsDictionary(d), NEW key
  PROVE  Found(d, key) = {i \in Used(d) : d.cells[i].key = key}
<1>1. d.size \in Nat
  BY ArrayFacts DEF IsDictionary
<1>2. \A i \in Used(d) : \A j \in 0..(i - 1) : j \in Used(d) /\ j # i
  BY <1>1 DEF Used
<1>3. ASSUME NEW i \in Used(d), d.cells[i].key = key, NEW j \in 0..(i - 1)
      PROVE  d.cells[j].key # key
  BY <1>2, <1>3 DEF IsDictionary, DistinctKeys
<1> QED
  BY <1>3 DEF Found

(* What a key leads to.                                                    *)
LEMMA GetIs ==
  ASSUME NEW d, IsDictionary(d), NEW key
  PROVE  /\ \A i \in Used(d) :
              d.cells[i].key = key => dictionary_get(d, key) = d.cells[i].value
         /\ (\A i \in Used(d) : d.cells[i].key # key)
              => dictionary_get(d, key) = NULL
<1>1. ASSUME NEW i \in Used(d), d.cells[i].key = key
      PROVE  dictionary_get(d, key) = d.cells[i].value
  <2> DEFINE p == CHOOSE k \in Found(d, key) : TRUE
  <2>1. i \in Found(d, key)
    BY <1>1, FoundIs
  <2>2. p \in Found(d, key)
    BY <2>1
  <2>3. dictionary_get(d, key) = d.cells[p].value
    BY <2>1 DEF dictionary_get
  <2> HIDE DEF p
  <2>4. p = i
    BY <1>1, <2>2, FoundIs DEF IsDictionary, DistinctKeys
  <2> QED
    BY <2>3, <2>4
<1>2. ASSUME \A i \in Used(d) : d.cells[i].key # key
      PROVE  dictionary_get(d, key) = NULL
  <2>1. Found(d, key) = {}
    BY <1>2, FoundIs
  <2> QED
    BY <2>1 DEF dictionary_get
<1> QED
  BY <1>1, <1>2

(* A new value for a key that is there: the entry stays where it is.       *)
LEMMA ReplacedValue ==
  ASSUME NEW d, IsDictionary(d), NEW value \in Value, NEW p \in Used(d)
  PROVE  LET w == [d EXCEPT !.cells[p].value = value] IN
         /\ IsDictionary(w)
         /\ Map(w) = [Map(d) EXCEPT ![d.cells[p].key] = value]
<1> DEFINE w == [d EXCEPT !.cells[p].value = value]
           entry == [d.cells[p] EXCEPT !.value = value]
           block == [d.cells EXCEPT ![p] = entry]
<1>1. /\ d \in Array(Entry)
      /\ d.size \in Nat /\ d.capacity \in Nat /\ d.capacity # 0
      /\ d.size <= d.capacity
      /\ d.cells \in [0..(d.capacity - 1) -> Entry \cup {NULL, Garbage}]
      /\ \A i \in Used(d) : d.cells[i] \in Entry
  BY ArrayFacts DEF IsDictionary
<1>2. /\ entry \in Entry /\ entry.key = d.cells[p].key /\ entry.value = value
  <2>1. d.cells[p] \in Entry
    BY <1>1
  <2> DEFINE old == d.cells[p]
  <2> HIDE DEF old
  <2>2. old \in Entry => /\ [old EXCEPT !.value = value] \in Entry
                         /\ [old EXCEPT !.value = value].key = old.key
                         /\ [old EXCEPT !.value = value].value = value
    BY DEF Entry
  <2> QED
    BY <2>1, <2>2 DEF old
<1>3. w = [d EXCEPT !.cells = block]
  OBVIOUS
<1> HIDE DEF entry, w
<1>4. /\ block \in [0..(d.capacity - 1) -> Entry \cup {NULL, Garbage}]
      /\ \A i \in 0..(d.capacity - 1) :
           block[i] = IF i = p THEN entry ELSE d.cells[i]
  BY <1>1, <1>2
<1> HIDE DEF block
<1>5. block \in Block(Entry)
  BY <1>1, <1>4, BlockOf
<1>6. /\ w \in Array(Entry)
      /\ w.cells = block /\ w.size = d.size /\ w.capacity = d.capacity
  BY <1>1, <1>3, <1>5 DEF Array
<1>7. /\ Used(w) = Used(d)
      /\ \A i \in Used(d) : w.cells[i] = IF i = p THEN entry ELSE d.cells[i]
  <2>1. \A i \in Used(d) : i \in 0..(d.capacity - 1)
    BY <1>1 DEF Used
  <2> QED
    BY <1>4, <1>6, <2>1 DEF Used
<1>8. \A i \in Used(d) : w.cells[i] \in Entry /\ w.cells[i].key = d.cells[i].key
  BY <1>1, <1>2, <1>7
<1>9. IsDictionary(w)
  <2>1. ArrayType(w, Entry)
    BY <1>1, <1>4, <1>6, <1>7, <1>8 DEF ArrayType
  <2>2. DistinctKeys(w)
    BY <1>7, <1>8 DEF IsDictionary, DistinctKeys
  <2> QED
    BY <1>6, <2>1, <2>2 DEF IsDictionary, IsArray
<1>10. ASSUME NEW k \in Key
       PROVE  dictionary_get(w, k)
                = IF k = d.cells[p].key THEN value ELSE dictionary_get(d, k)
  <2>1. CASE k = d.cells[p].key
    <3>1. w.cells[p] = entry /\ p \in Used(w)
      BY <1>7
    <3>2. w.cells[p].key = k /\ w.cells[p].value = value
      BY <1>2, <2>1, <3>1
    <3> QED
      BY <1>9, <2>1, <3>1, <3>2, GetIs
  <2>2. CASE /\ k # d.cells[p].key
             /\ \E i \in Used(d) : d.cells[i].key = k
    <3>1. PICK i \in Used(d) : d.cells[i].key = k
      BY <2>2
    <3>2. i # p /\ w.cells[i] = d.cells[i] /\ i \in Used(w)
      BY <1>7, <2>2, <3>1
    <3>3. dictionary_get(d, k) = d.cells[i].value
      BY <3>1, GetIs
    <3>4. dictionary_get(w, k) = w.cells[i].value
      BY <1>9, <3>1, <3>2, GetIs
    <3> QED
      BY <2>2, <3>2, <3>3, <3>4
  <2>3. CASE /\ k # d.cells[p].key
             /\ \A i \in Used(d) : d.cells[i].key # k
    <3>1. \A i \in Used(w) : w.cells[i].key # k
      BY <1>7, <1>8, <2>3
    <3>2. dictionary_get(w, k) = NULL /\ dictionary_get(d, k) = NULL
      BY <1>9, <2>3, <3>1, GetIs
    <3> QED
      BY <2>3, <3>2
  <2> QED
    BY <2>1, <2>2, <2>3
<1>11. Map(w) = [Map(d) EXCEPT ![d.cells[p].key] = value]
  BY <1>10 DEF Map
<1> QED
  BY <1>9, <1>11 DEF w

(* A new key goes behind the last entry.                                   *)
LEMMA NewEntry ==
  ASSUME NEW d, IsDictionary(d), NEW key \in Key, NEW value \in Value,
         \A i \in Used(d) : d.cells[i].key # key,
         NEW w, IsArray(w, Entry), w.size = d.size + 1,
         \A i \in Used(d) : w.cells[i] = d.cells[i],
         w.cells[d.size] = [key |-> key, value |-> value]
  PROVE  IsDictionary(w) /\ Map(w) = [Map(d) EXCEPT ![key] = value]
<1>1. d.size \in Nat
  BY ArrayFacts DEF IsDictionary
<1>2. /\ \A i \in Used(w) : i \in Used(d) \/ i = d.size
      /\ \A i \in Used(d) : i \in Used(w) /\ i # d.size
      /\ d.size \in Used(w)
  BY <1>1 DEF Used
<1>3. w.cells[d.size].key = key /\ w.cells[d.size].value = value
  OBVIOUS
<1>4. IsDictionary(w)
  BY <1>2, <1>3 DEF IsDictionary, DistinctKeys
<1>5. ASSUME NEW k \in Key
      PROVE  dictionary_get(w, k)
               = IF k = key THEN value ELSE dictionary_get(d, k)
  <2>1. CASE k = key
    BY <1>2, <1>3, <1>4, <2>1, GetIs
  <2>2. CASE k # key /\ \E i \in Used(d) : d.cells[i].key = k
    <3>1. PICK i \in Used(d) : d.cells[i].key = k
      BY <2>2
    <3>2. w.cells[i] = d.cells[i] /\ i \in Used(w)
      BY <1>2, <3>1
    <3>3. dictionary_get(d, k) = d.cells[i].value
      BY <3>1, GetIs
    <3>4. dictionary_get(w, k) = w.cells[i].value
      BY <1>4, <3>1, <3>2, GetIs
    <3> QED
      BY <2>2, <3>2, <3>3, <3>4
  <2>3. CASE k # key /\ \A i \in Used(d) : d.cells[i].key # k
    <3>1. \A i \in Used(w) : w.cells[i].key # k
      BY <1>2, <1>3, <2>3
    <3>2. dictionary_get(w, k) = NULL /\ dictionary_get(d, k) = NULL
      BY <1>4, <2>3, <3>1, GetIs
    <3> QED
      BY <2>3, <3>2
  <2> QED
    BY <2>1, <2>2, <2>3
<1>6. Map(w) = [Map(d) EXCEPT ![key] = value]
  BY <1>5 DEF Map
<1> QED
  BY <1>4, <1>6

LEMMA SetEntry ==
  ASSUME NEW d, IsDictionary(d), NEW key \in Key, NEW value \in Value,
         NEW ok \in BOOLEAN
  PROVE  LET w == dictionary_set(d, key, value, ok) IN
         /\ IsDictionary(w)
         /\ ok => Map(w) = [Map(d) EXCEPT ![key] = value]
         /\ ~ok /\ Found(d, key) = {} /\ d.size = d.capacity => w = d
<1> DEFINE w == dictionary_set(d, key, value, ok)
<1>1. CASE Found(d, key) # {}
  <2> DEFINE p == CHOOSE i \in Found(d, key) : TRUE
  <2>1. p \in Found(d, key)
    BY <1>1
  <2>2. w = [d EXCEPT !.cells[p].value = value]
    BY <1>1 DEF dictionary_set
  <2> HIDE DEF p, w
  <2>3. p \in Used(d) /\ d.cells[p].key = key
    BY <2>1, FoundIs
  <2>4. IsDictionary(w) /\ Map(w) = [Map(d) EXCEPT ![key] = value]
    BY <2>2, <2>3, ReplacedValue
  <2> QED
    BY <1>1, <2>4 DEF w
<1>2. CASE Found(d, key) = {}
  <2> DEFINE entry == [key |-> key, value |-> value]
  <2>1. w = Extended(d, entry, ok)
    BY <1>2 DEF dictionary_set
  <2>2. entry \in Entry
    BY DEF Entry
  <2>3. \A i \in Used(d) : d.cells[i].key # key
    BY <1>2, FoundIs
  <2> HIDE DEF entry
  <2>4. /\ IsArray(w, Entry)
        /\ \/ ~ok /\ w = d
           \/ /\ d.size = d.capacity => ok
              /\ w.size = d.size + 1
              /\ \A i \in Used(d) : w.cells[i] = d.cells[i]
              /\ w.cells[d.size] = entry
    BY <2>1, <2>2, ExtendedArray DEF IsDictionary
  <2> HIDE DEF w
  <2>5. CASE ~ok /\ w = d
    BY <2>5 DEF w
  <2>6. CASE /\ d.size = d.capacity => ok
             /\ w.size = d.size + 1
             /\ \A i \in Used(d) : w.cells[i] = d.cells[i]
             /\ w.cells[d.size] = entry
    <3>1. IsDictionary(w) /\ Map(w) = [Map(d) EXCEPT ![key] = value]
      BY <2>3, <2>4, <2>6, NewEntry DEF entry
    <3> QED
      BY <2>6, <3>1 DEF w
  <2> QED
    BY <2>4, <2>5, <2>6
<1> QED
  BY <1>1, <1>2

LEMMA RemovedEntry ==
  ASSUME NEW d, IsDictionary(d), NEW key \in Key
  PROVE  LET w == dictionary_remove(d, key) IN
         IsDictionary(w) /\ Map(w) = [Map(d) EXCEPT ![key] = NULL]
<1> DEFINE w == dictionary_remove(d, key)
<1>1. CASE Found(d, key) = {}
  <2>1. w = d
    BY <1>1 DEF dictionary_remove
  <2> HIDE DEF w
  <2>2. dictionary_get(d, key) = NULL
    BY <1>1 DEF dictionary_get
  <2>3. Map(d) = [Map(d) EXCEPT ![key] = NULL]
    BY <2>2 DEF Map
  <2> QED
    BY <2>1, <2>3 DEF w
<1>2. CASE Found(d, key) # {}
  <2> DEFINE p == CHOOSE i \in Found(d, key) : TRUE
  <2>1. p \in Found(d, key)
    BY <1>2
  <2>2. w = Without(d, p)
    BY <1>2 DEF dictionary_remove
  <2> HIDE DEF p, w
  <2>3. p \in Used(d) /\ d.cells[p].key = key
    BY <2>1, FoundIs
  <2>4. /\ IsArray(w, Entry) /\ w.size = d.size - 1
        /\ \A i \in Used(w) :
             w.cells[i] = IF i < p THEN d.cells[i] ELSE d.cells[i + 1]
    BY <2>2, <2>3, WithoutArray DEF IsDictionary
  <2>5. d.size \in Nat
    BY ArrayFacts DEF IsDictionary
  <2> DEFINE from(i) == IF i < p THEN i ELSE i + 1
  <2>6. \A i \in Used(w) : /\ from(i) \in Used(d) /\ from(i) # p
                           /\ w.cells[i] = d.cells[from(i)]
    BY <2>3, <2>4, <2>5 DEF Used
  <2>7. \A i \in Used(d) : i # p => \E j \in Used(w) : w.cells[j] = d.cells[i]
    <3> SUFFICES ASSUME NEW i \in Used(d), i # p
                 PROVE  \E j \in Used(w) : w.cells[j] = d.cells[i]
      OBVIOUS
    <3> DEFINE j == IF i < p THEN i ELSE i - 1
    <3>1. j \in Used(w) /\ (IF j < p THEN j ELSE j + 1) = i
      BY <2>3, <2>4, <2>5 DEF Used
    <3> HIDE DEF j
    <3>2. w.cells[j] = d.cells[i]
      BY <2>6, <3>1
    <3> QED
      BY <3>1, <3>2
  <2>8. \A i, j \in Used(w) : from(i) = from(j) => i = j
    BY <2>3, <2>4, <2>5 DEF Used
  <2> HIDE DEF from
  <2>9. IsDictionary(w)
    BY <2>4, <2>6, <2>8 DEF IsDictionary, DistinctKeys
  <2>10. ASSUME NEW k \in Key
         PROVE  dictionary_get(w, k)
                  = IF k = key THEN NULL ELSE dictionary_get(d, k)
    <3>1. CASE k = key
      <4>1. \A i \in Used(w) : w.cells[i].key # k
        BY <2>3, <2>6, <3>1 DEF IsDictionary, DistinctKeys
      <4> QED
        BY <2>9, <3>1, <4>1, GetIs
    <3>2. CASE k # key /\ \E i \in Used(d) : d.cells[i].key = k
      <4>1. PICK i \in Used(d) : d.cells[i].key = k
        BY <3>2
      <4>2. PICK j \in Used(w) : w.cells[j] = d.cells[i]
        BY <2>3, <2>7, <3>2, <4>1
      <4>3. dictionary_get(d, k) = d.cells[i].value
        BY <4>1, GetIs
      <4>4. dictionary_get(w, k) = w.cells[j].value
        BY <2>9, <4>1, <4>2, GetIs
      <4> QED
        BY <3>2, <4>2, <4>3, <4>4
    <3>3. CASE k # key /\ \A i \in Used(d) : d.cells[i].key # k
      <4>1. \A i \in Used(w) : w.cells[i].key # k
        BY <2>6, <3>3
      <4>2. dictionary_get(w, k) = NULL /\ dictionary_get(d, k) = NULL
        BY <2>9, <3>3, <4>1, GetIs
      <4> QED
        BY <3>3, <4>2
    <3> QED
      BY <3>1, <3>2, <3>3
  <2>11. Map(w) = [Map(d) EXCEPT ![key] = NULL]
    BY <2>10 DEF Map
  <2> QED
    BY <2>9, <2>11 DEF w
<1> QED
  BY <1>1, <1>2

-----------------------------------------------------------------------------
(***************************************************************************)
(* The calls.                                                              *)
(***************************************************************************)
IInv == IsVector(server_files) /\ IsDictionary(fd_to_client)

LEMMA Created == Init => IInv
<1> SUFFICES ASSUME Init PROVE IInv
  OBVIOUS
<1>1. server_files = array_create /\ fd_to_client = array_create
  BY DEF Init, vector_create, dictionary_create
<1>2. IsArray(server_files, Name) /\ Used(server_files) = {}
  BY <1>1, CreatedArray
<1>3. IsArray(fd_to_client, Entry) /\ Used(fd_to_client) = {}
  BY <1>1, CreatedArray
<1>4. IsVector(server_files)
  BY <1>2 DEF IsVector, Distinct
<1>5. IsDictionary(fd_to_client)
  BY <1>3 DEF IsDictionary, DistinctKeys
<1> QED
  BY <1>4, <1>5 DEF IInv

(* Every call keeps the arrays as they should be, and is the same call on  *)
(* the list or the map, or is dropped for want of memory.                  *)
LEMMA EachCall ==
  ASSUME IInv, Next
  PROVE  IInv' /\ Abstract!Next
<1>1. ASSUME NEW name \in Name, AddFile(name) PROVE IInv' /\ Abstract!Next
  <2> DEFINE free == IF Match(server_files, name) = {} THEN Outcome(server_files)
                                                        ELSE {TRUE}
  <2>1. PICK ok \in free :
          /\ server_files' = add_file_to_list(server_files, name, ok)
          /\ call' = <<"add", name, ok>>
    BY <1>1 DEF AddFile
  <2>2. /\ ok \in BOOLEAN
        /\ ~ok => /\ Match(server_files, name) = {}
                  /\ server_files.size = server_files.capacity
    BY DEF Outcome
  <2>3. UNCHANGED fd_to_client
    BY <1>1 DEF AddFile
  <2> HIDE DEF free
  <2>4. /\ IsVector(server_files')
        /\ ok => List(server_files')
                   = Abstract!add_file_to_list(List(server_files), name)
        /\ ~ok => server_files' = server_files
    BY <2>1, <2>2, AddedName DEF IInv
  <2>5. IInv'
    BY <2>3, <2>4 DEF IInv
  <2>6. CASE ok
    <3>1. Abstract!AddFile(name)
      BY <2>1, <2>3, <2>4, <2>6 DEF Abstract!AddFile, List
    <3> QED
      BY <2>5, <3>1 DEF Abstract!Next
  <2>7. CASE ~ok
    <3>1. name \notin Abstract!Listed(List(server_files))
      BY <2>2, <2>7, ListedIs DEF IInv
    <3>2. call' = <<"add", name, FALSE>> /\ server_files' = server_files
      BY <2>1, <2>2, <2>4, <2>7
    <3>3. Abstract!Dropped
      BY <2>3, <3>1, <3>2 DEF Abstract!Dropped, List
    <3> QED
      BY <2>5, <3>3 DEF Abstract!Next
  <2> QED
    BY <2>6, <2>7
<1>2. ASSUME NEW name \in Name, RemoveFile(name) PROVE IInv' /\ Abstract!Next
  <2>1. /\ server_files' = remove_file_from_list(server_files, name)
        /\ call' = <<"erase", name>>
        /\ UNCHANGED fd_to_client
    BY <1>2 DEF RemoveFile
  <2>2. /\ IsVector(server_files')
        /\ List(server_files')
             = Abstract!remove_file_from_list(List(server_files), name)
    BY <2>1, RemovedName DEF IInv
  <2>3. IInv'
    BY <2>1, <2>2 DEF IInv
  <2>4. Abstract!RemoveFile(name)
    BY <2>1, <2>2 DEF Abstract!RemoveFile, List
  <2> QED
    BY <2>3, <2>4 DEF Abstract!Next
<1>3. ASSUME NEW key \in Key, NEW value \in Value, SetClient(key, value)
      PROVE  IInv' /\ Abstract!Next
  <2> DEFINE free == IF Found(fd_to_client, key) = {} THEN Outcome(fd_to_client)
                                                       ELSE {TRUE}
  <2>1. PICK ok \in free :
          /\ fd_to_client' = dictionary_set(fd_to_client, key, value, ok)
          /\ call' = <<"set", key, value, ok>>
    BY <1>3 DEF SetClient
  <2>2. /\ ok \in BOOLEAN
        /\ ~ok => /\ Found(fd_to_client, key) = {}
                  /\ fd_to_client.size = fd_to_client.capacity
    BY DEF Outcome
  <2>3. UNCHANGED server_files
    BY <1>3 DEF SetClient
  <2> HIDE DEF free
  <2>4. /\ IsDictionary(fd_to_client')
        /\ ok => Map(fd_to_client') = [Map(fd_to_client) EXCEPT ![key] = value]
        /\ ~ok => fd_to_client' = fd_to_client
    BY <2>1, <2>2, SetEntry DEF IInv
  <2>5. IInv'
    BY <2>3, <2>4 DEF IInv
  <2>6. CASE ok
    <3>1. Abstract!SetClient(key, value)
      BY <2>1, <2>3, <2>4, <2>6 DEF Abstract!SetClient, Map
    <3> QED
      BY <2>5, <3>1 DEF Abstract!Next
  <2>7. CASE ~ok
    <3>1. Map(fd_to_client)[key] = NULL
      BY <2>2, <2>7 DEF Map, dictionary_get
    <3>2. key \in Key \ Abstract!Mapped
      BY <3>1 DEF Abstract!Mapped, Map
    <3>3. call' = <<"set", key, value, FALSE>> /\ fd_to_client' = fd_to_client
      BY <2>1, <2>2, <2>4, <2>7
    <3>4. Abstract!Dropped
      BY <2>3, <3>2, <3>3 DEF Abstract!Dropped
    <3> QED
      BY <2>5, <3>4 DEF Abstract!Next
  <2> QED
    BY <2>6, <2>7
<1>4. ASSUME NEW key \in Key, RemoveClient(key) PROVE IInv' /\ Abstract!Next
  <2>1. /\ fd_to_client' = dictionary_remove(fd_to_client, key)
        /\ call' = <<"remove", key>>
        /\ UNCHANGED server_files
    BY <1>4 DEF RemoveClient
  <2>2. /\ IsDictionary(fd_to_client')
        /\ Map(fd_to_client') = [Map(fd_to_client) EXCEPT ![key] = NULL]
    BY <2>1, RemovedEntry DEF IInv
  <2>3. IInv'
    BY <2>1, <2>2 DEF IInv
  <2>4. Abstract!RemoveClient(key)
    BY <2>1, <2>2 DEF Abstract!RemoveClient, Map
  <2> QED
    BY <2>3, <2>4 DEF Abstract!Next
<1> QED
  BY <1>1, <1>2, <1>3, <1>4 DEF Next

LEMMA CreatedAbstract == Init => Abstract!Init
<1> SUFFICES ASSUME Init PROVE Abstract!Init
  OBVIOUS
<1>1. /\ server_files = array_create /\ fd_to_client = array_create
      /\ call = <<"create">>
  BY DEF Init, vector_create, dictionary_create
<1>2. List(server_files) = <<>>
  BY <1>1, CreatedArray DEF List
<1>3. \A key \in Key : dictionary_get(fd_to_client, key) = NULL
  <2>1. Used(fd_to_client) = {}
    BY <1>1, CreatedArray
  <2> QED
    BY <2>1 DEF dictionary_get, Found
<1> QED
  BY <1>1, <1>2, <1>3 DEF Abstract!Init, List

LEMMA AlwaysIInv == Spec => []IInv
<1>1. IInv /\ [Next]_vars => IInv'
  <2>1. IInv /\ UNCHANGED vars => IInv'
    BY DEF IInv, vars
  <2> QED
    BY <2>1, EachCall
<1> QED
  BY <1>1, Created, PTL DEF Spec

-----------------------------------------------------------------------------
(* For blocks of every size: no call overruns its block, and no name and   *)
(* no descriptor number is in a collection twice (collections.c:65-98,     *)
(* 150-211, server.c:260-275).                                    *)
THEOREM ArraysCorrect == Spec => []ArraysOK
<1>1. IInv => ArraysOK
  <2> SUFFICES ASSUME IInv PROVE ArraysOK
    OBVIOUS
  <2>1. ArrayType(server_files, Name) /\ ArrayType(fd_to_client, Entry)
    BY DEF IInv, IsVector, IsDictionary, IsArray
  <2>2. Distinct(server_files) /\ DistinctKeys(fd_to_client)
    BY DEF IInv, IsVector, IsDictionary
  <2> QED
    BY <2>1, <2>2 DEF ArraysOK, Distinct, DistinctKeys
<1> QED
  BY <1>1, AlwaysIInv, PTL

(* For blocks of every size: every call on the arrays is the same call on  *)
(* a list of names or on a map from descriptors to clients, or changes     *)
(* nothing because the block was full and could not grow                   *)
(* (collections.c:65-98, 150-211).                                         *)
THEOREM ArraysRefine == Spec => ArraysImplement
<1>1. IInv /\ [Next]_vars => [Abstract!Next]_(Abstract!vars)
  <2>1. UNCHANGED vars => UNCHANGED Abstract!vars
    BY DEF vars, Abstract!vars, dictionary_get, Found, Used
  <2> QED
    BY <2>1, EachCall
<1> QED
  BY <1>1, CreatedAbstract, AlwaysIInv, PTL DEF Spec, ArraysImplement, Abstract!Spec

=============================================================================
