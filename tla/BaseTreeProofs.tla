--------------------------- MODULE BaseTreeProofs ---------------------------
(***************************************************************************)
(* Theorems about BaseTree, for keys of every length and all bounds: no    *)
(* insert changes what a lookup at a finished epoch finds, and no lookup   *)
(* meets a node that its assertions forbid.                                *)
(***************************************************************************)
EXTENDS BaseTree, SequenceLemmas

(***************************************************************************)
(* Heaps.  Level gives each object of a heap the number of bits that are   *)
(* spelled down to and including it, which no operation changes.           *)
(***************************************************************************)

Fields == { "hash", "values", "epoch", "prefix", "next", "leftChild", "rightChild", "parent" }

Objects(heap) == 1 .. Len(heap)

IsHeap(heap) ==
  /\ heap \in Seq(ToSet(heap))
  /\ \A a \in Objects(heap) : DOMAIN heap[a] = Fields

\* The parent of a node is where its label starts, and only roots have none.
ParentOK(heap, level, a) ==
  /\ heap[a].prefix \in Seq({0, 1})
  /\ heap[a].parent \in Objects(heap) \cup {Nil}
  /\ heap[a].parent = Nil => heap[a].prefix = <<>> /\ level[a] = 0
  /\ heap[a].parent # Nil =>
       /\ heap[a].prefix # <<>>
       /\ level[a] = level[heap[a].parent] + Len(heap[a].prefix)

\* A child is not newer than its parent, its label starts where the parent's ends and
\* with the bit that it is found under.
ChildOK(heap, level, a, bit) ==
  LET c == Child(heap, a, bit)
  IN  /\ c \in Objects(heap) \cup {Nil}
      /\ c # Nil => /\ heap[c].epoch <= heap[a].epoch
                    /\ heap[c].parent # Nil
                    /\ heap[c].prefix[1] = bit
                    /\ level[c] = level[a] + Len(heap[c].prefix)

\* Only a root has exactly one child, and only what spells a whole key has none.
ShapeOK(heap, level, bits, a) ==
  heap[a].prefix # <<>> =>
    /\ (heap[a].leftChild = Nil) = (heap[a].rightChild = Nil)
    /\ heap[a].leftChild = Nil => level[a] = bits

\* Of what a node hashes, a root has the children alone.
ObjectOK(heap, level, bits, epoch, a) ==
  /\ heap[a].epoch \in 0 .. epoch
  /\ heap[a].prefix = <<>> => heap[a].values = <<>>
  /\ heap[a].next \in Objects(heap) \cup {Nil}
  /\ heap[a].next # Nil => heap[heap[a].next].prefix = heap[a].prefix
  /\ ParentOK(heap, level, a)
  /\ \A bit \in {0, 1} : ChildOK(heap, level, a, bit)

\* A heap at an epoch, for keys of so many bits.  The objects in open, of this epoch,
\* are still being built.
HeapOK(heap, level, bits, epoch, open) ==
  /\ IsHeap(heap)
  /\ epoch \in Nat /\ bits \in Nat
  /\ level \in [Objects(heap) -> 0 .. bits]
  /\ \A a \in Objects(heap) : ObjectOK(heap, level, bits, epoch, a)
  /\ \A a \in Objects(heap) : a \notin open => ShapeOK(heap, level, bits, a)
  /\ \A a \in open : a \in Objects(heap) /\ heap[a].epoch = epoch

\* What no step may do to the objects there are: those of earlier epochs keep all that
\* a lookup reads; a label and an epoch never change, and a child is at most replaced.
Kept(heap, new, epoch) ==
  /\ Len(heap) <= Len(new)
  /\ \A a \in Objects(heap) :
       /\ new[a].epoch = heap[a].epoch /\ new[a].prefix = heap[a].prefix
       /\ \A bit \in {0, 1} : Child(heap, a, bit) # Nil => Child(new, a, bit) # Nil
       /\ heap[a].epoch < epoch =>
            /\ new[a].hash = heap[a].hash /\ new[a].values = heap[a].values
            /\ new[a].leftChild = heap[a].leftChild /\ new[a].rightChild = heap[a].rightChild

\* The levels of a heap are those of an older one for the objects of that one.
SameLevels(heap, level, new) == \A a \in Objects(heap) : new[a] = level[a]

\* Two kept steps after one another.
LEMMA KeptTransitive ==
  ASSUME NEW h1, NEW h2, NEW h3, NEW epoch, IsHeap(h1), IsHeap(h2), IsHeap(h3),
         Kept(h1, h2, epoch), Kept(h2, h3, epoch)
  PROVE  Kept(h1, h3, epoch)
<1>1. Len(h1) \in Nat /\ Len(h2) \in Nat /\ Len(h3) \in Nat
  BY DEF IsHeap
<1>2. Len(h1) <= Len(h3) /\ \A a \in Objects(h1) : a \in Objects(h2)
  BY <1>1 DEF Kept, Objects
<1> QED
  BY <1>2, Zenon DEF Kept

\* A step that does nothing.
LEMMA KeptReflexive ==
  ASSUME NEW heap, NEW epoch, IsHeap(heap)
  PROVE  Kept(heap, heap, epoch)
  BY DEF Kept, IsHeap

(***************************************************************************)
(* Single assignments.                                                     *)
(***************************************************************************)

\* A heap with another object.
LEMMA AppendHeap ==
  ASSUME NEW heap, IsHeap(heap), NEW object, DOMAIN object = Fields
  PROVE  /\ IsHeap(Append(heap, object))
         /\ Len(Append(heap, object)) = Len(heap) + 1
         /\ Append(heap, object)[Len(heap) + 1] = object
         /\ \A a \in Objects(heap) : Append(heap, object)[a] = heap[a]
<1> DEFINE S == ToSet(heap) \cup {object}
           new == Append(heap, object)
<1>1. heap \in Seq(S) /\ object \in S /\ Len(heap) \in Nat
  BY DEF IsHeap
<1>2. /\ new \in Seq(S) /\ Len(new) = Len(heap) + 1 /\ new[Len(heap) + 1] = object
      /\ \A a \in Objects(heap) : new[a] = heap[a]
  <2> HIDE DEF S
  <2> QED
    BY <1>1 DEF Objects
<1> HIDE DEF new, S
<1>3. new \in Seq(ToSet(new))
  <2>1. \A a \in 1 .. Len(new) : new[a] \in ToSet(new)
    BY <1>2 DEF ToSet
  <2>2. new = [ a \in 1 .. Len(new) |-> new[a] ] /\ Len(new) \in Nat
    BY <1>1, <1>2
  <2> QED
    BY <2>1, <2>2
<1>4. \A a \in Objects(new) : a \in Objects(heap) \/ a = Len(heap) + 1
  BY <1>1, <1>2 DEF Objects
<1>5. \A a \in Objects(new) : DOMAIN new[a] = Fields
  BY <1>2, <1>4 DEF IsHeap
<1> QED
  BY <1>2, <1>3, <1>5 DEF new, IsHeap

Replaced(heap, new, a, object) == new = [heap EXCEPT ![a] = object]

\* A heap with another value of one object.
LEMMA ReplaceInHeap ==
  ASSUME NEW heap, IsHeap(heap), NEW a \in Objects(heap), NEW object, DOMAIN object = Fields,
         NEW new, Replaced(heap, new, a, object)
  PROVE  /\ IsHeap(new)
         /\ Len(new) = Len(heap) /\ Objects(new) = Objects(heap)
         /\ new[a] = object
         /\ \A b \in Objects(heap) : b # a => new[b] = heap[b]
<1>1. DOMAIN heap = 1 .. Len(heap) /\ Len(heap) \in Nat
  BY DEF IsHeap
<1>2. DOMAIN new = 1 .. Len(heap) /\ \A b \in 1 .. Len(heap) : new[b] \in ToSet(new)
  BY <1>1 DEF ToSet, Replaced
<1>3. new \in Seq(ToSet(new)) /\ Len(new) = Len(heap)
  <2> DEFINE n == Len(heap)
             S == ToSet(new)
  <2>1. n \in Nat /\ new = [ b \in 1 .. n |-> new[b] ] /\ \A b \in 1 .. n : new[b] \in S
    <3>1. new = [ b \in DOMAIN new |-> new[b] ]
      BY DEF Replaced
    <3> QED
      BY <1>1, <1>2, <3>1
  <2>2. DOMAIN new = 1 .. n
    BY <1>2
  <2> HIDE DEF n, S
  <2>3. [ b \in 1 .. n |-> new[b] ] \in Seq(S)
    BY <2>1
  <2>4. new \in Seq(S)
    BY <2>1, <2>3
  <2>5. DOMAIN new = 1 .. Len(new) /\ Len(new) \in Nat
    BY <2>4
  <2>6. Len(new) = n
    BY <2>1, <2>2, <2>5
  <2> QED
    BY <2>4, <2>6 DEF n, S
<1>4. new[a] = object /\ \A b \in Objects(heap) : b # a => new[b] = heap[b]
  BY <1>1 DEF Objects, Replaced
<1>5. \A b \in Objects(heap) : DOMAIN new[b] = Fields
  BY <1>4 DEF IsHeap
<1> QED
  BY <1>3, <1>4, <1>5 DEF IsHeap, Objects

\* What an assignment to a field does not change.
OnlyField(heap, new, a, field) ==
  /\ Len(new) = Len(heap) /\ Objects(new) = Objects(heap)
  /\ \A g \in Fields \ {field} : new[a][g] = heap[a][g]
  /\ \A b \in Objects(heap) : b # a => new[b] = heap[b]

Assigned(heap, new, a, field, value) ==
  new = [heap EXCEPT ![a] = [heap[a] EXCEPT ![field] = value]]

\* An assignment to a field of an object.
LEMMA AssignField ==
  ASSUME NEW heap, IsHeap(heap), NEW a \in Objects(heap), NEW field \in Fields, NEW value,
         NEW new, Assigned(heap, new, a, field, value)
  PROVE  IsHeap(new) /\ OnlyField(heap, new, a, field) /\ new[a][field] = value
<1> DEFINE object == [heap[a] EXCEPT ![field] = value]
<1>1. DOMAIN heap[a] = Fields
  BY DEF IsHeap
<1>2. DOMAIN object = Fields /\ object[field] = value
      /\ \A g \in Fields \ {field} : object[g] = heap[a][g]
  BY <1>1
<1> HIDE DEF object
<1>3. Replaced(heap, new, a, object)
  BY DEF object, Replaced, Assigned
<1> QED
  BY <1>2, <1>3, ReplaceInHeap DEF OnlyField

\* An assignment to the stored hash.
LEMMA AssignHash ==
  ASSUME NEW heap, IsHeap(heap), NEW a \in Objects(heap), NEW value,
         NEW new, new = [heap EXCEPT ![a].hash = value]
  PROVE  IsHeap(new) /\ OnlyField(heap, new, a, "hash")
<1>1. Assigned(heap, new, a, "hash", value)
  BY DEF Assigned
<1>2. "hash" \in Fields
  BY DEF Fields
<1> QED
  BY <1>1, <1>2, AssignField

\* An assignment to the values of a leaf.
LEMMA AssignValues ==
  ASSUME NEW heap, IsHeap(heap), NEW a \in Objects(heap), NEW value,
         NEW new, new = [heap EXCEPT ![a].values = value]
  PROVE  IsHeap(new) /\ OnlyField(heap, new, a, "values")
<1>1. Assigned(heap, new, a, "values", value)
  BY DEF Assigned
<1>2. "values" \in Fields
  BY DEF Fields
<1> QED
  BY <1>1, <1>2, AssignField

WithNext(heap, a, copy) == [heap EXCEPT ![a].next = copy]

\* An assignment to the pointer to the newer copy.
LEMMA AssignNext ==
  ASSUME NEW heap, IsHeap(heap), NEW a \in Objects(heap), NEW value,
         NEW new, new = WithNext(heap, a, value)
  PROVE  IsHeap(new) /\ OnlyField(heap, new, a, "next") /\ new[a].next = value
<1>1. Assigned(heap, new, a, "next", value)
  BY DEF Assigned, WithNext
<1>2. "next" \in Fields
  BY DEF Fields
<1>3. IsHeap(new) /\ OnlyField(heap, new, a, "next")
  BY <1>1, <1>2, AssignField
<1>4. new[a].next = value
  BY DEF IsHeap, Objects, Fields, WithNext
<1> QED
  BY <1>3, <1>4

\* An assignment to the parent pointer.
LEMMA AssignParent ==
  ASSUME NEW heap, IsHeap(heap), NEW a \in Objects(heap), NEW value,
         NEW new, new = SetParent(heap, a, value)
  PROVE  IsHeap(new) /\ OnlyField(heap, new, a, "parent") /\ new[a].parent = value
<1>1. a # Nil
  BY DEF IsHeap, Objects, Nil
<1>2. Assigned(heap, new, a, "parent", value)
  BY <1>1 DEF Assigned, SetParent
<1>3. "parent" \in Fields
  BY DEF Fields
<1>4. IsHeap(new) /\ OnlyField(heap, new, a, "parent")
  BY <1>2, <1>3, AssignField
<1>5. new[a].parent = value
  BY <1>1 DEF IsHeap, Objects, Fields, SetParent
<1> QED
  BY <1>4, <1>5

\* An assignment to a child pointer.
LEMMA AssignChild ==
  ASSUME NEW heap, IsHeap(heap), NEW a \in Objects(heap), NEW bit \in {0, 1}, NEW value,
         NEW new, new = SetChild(heap, a, bit, value)
  PROVE  /\ IsHeap(new)
         /\ OnlyField(heap, new, a, IF bit = 0 THEN "leftChild" ELSE "rightChild")
         /\ Child(new, a, bit) = value
<1> DEFINE field == IF bit = 0 THEN "leftChild" ELSE "rightChild"
<1>1. Assigned(heap, new, a, field, value)
  BY DEF SetChild, Assigned
<1>2. field \in Fields
  BY DEF Fields
<1>3. Child(new, a, bit) = new[a][field]
  BY DEF Child
<1> HIDE DEF field
<1>4. IsHeap(new) /\ OnlyField(heap, new, a, field) /\ new[a][field] = value
  BY <1>1, <1>2, AssignField
<1> QED
  BY <1>3, <1>4 DEF field

WithHash(heap, a, value) == [heap EXCEPT ![a].hash = value]

WithValues(heap, a, value) == [heap EXCEPT ![a].values = value]

\* An object of this epoch may be given another hash, and unless it is a root other values.
LEMMA HashAndValuesAreFree ==
  ASSUME NEW heap, NEW level, NEW bits, NEW epoch, NEW open, HeapOK(heap, level, bits, epoch, open),
         NEW a \in Objects(heap), heap[a].epoch = epoch, NEW new, NEW value,
         new = WithHash(heap, a, value) \/ (heap[a].prefix # <<>> /\ new = WithValues(heap, a, value))
  PROVE  HeapOK(new, level, bits, epoch, open) /\ Kept(heap, new, epoch) /\ Len(new) = Len(heap)
<1>1. IsHeap(heap) /\ epoch \in Nat /\ Len(heap) \in Nat
  BY DEF HeapOK, IsHeap
<1>2. IsHeap(new) /\ (OnlyField(heap, new, a, "hash") \/ OnlyField(heap, new, a, "values"))
  BY <1>1, AssignHash, AssignValues DEF WithHash, WithValues
<1>3. Len(new) = Len(heap) /\ Objects(new) = Objects(heap)
  BY <1>2 DEF OnlyField
<1>4. \A b \in Objects(heap) :
        /\ new[b].epoch = heap[b].epoch /\ new[b].prefix = heap[b].prefix
        /\ new[b].next = heap[b].next /\ new[b].parent = heap[b].parent
        /\ new[b].leftChild = heap[b].leftChild /\ new[b].rightChild = heap[b].rightChild
        /\ b # a => new[b].hash = heap[b].hash /\ new[b].values = heap[b].values
  BY <1>2 DEF OnlyField, Fields
<1>5. Kept(heap, new, epoch)
  BY <1>1, <1>3, <1>4 DEF Kept, Child
<1>6. ASSUME NEW b \in Objects(heap) PROVE ObjectOK(new, level, bits, epoch, b)
  <2>1. ObjectOK(heap, level, bits, epoch, b)
    BY DEF HeapOK
  <2>2. ASSUME NEW bit \in {0, 1} PROVE ChildOK(new, level, b, bit)
    BY <1>3, <1>4, <2>1 DEF ObjectOK, ChildOK, Child
  <2>3. ParentOK(new, level, b)
    BY <1>3, <1>4, <2>1 DEF ObjectOK, ParentOK
  <2>4. new[b].prefix = <<>> => new[b].values = <<>>
    <3>1. new[b].values = heap[b].values \/ (b = a /\ heap[a].prefix # <<>>)
      <4>1. CASE new = WithHash(heap, a, value)
        <5>1. OnlyField(heap, new, a, "hash")
          BY <1>1, <4>1, AssignHash DEF WithHash
        <5> QED
          BY <5>1 DEF OnlyField, Fields
      <4>2. CASE heap[a].prefix # <<>>
        BY <1>4, <4>2
      <4> QED
        BY <4>1, <4>2
    <3> QED
      BY <1>4, <2>1, <3>1 DEF ObjectOK
  <2> QED
    BY <1>3, <1>4, <2>1, <2>2, <2>3, <2>4 DEF ObjectOK
<1>7. ASSUME NEW b \in Objects(heap), b \notin open PROVE ShapeOK(new, level, bits, b)
  BY <1>4, <1>7 DEF HeapOK, ShapeOK
<1>8. HeapOK(new, level, bits, epoch, open)
  BY <1>2, <1>3, <1>4, <1>6, <1>7 DEF HeapOK
<1> QED
  BY <1>3, <1>5, <1>8

\* The pointer to the newer copy is free, as long as it leads to a copy.
LEMMA NextIsFree ==
  ASSUME NEW heap, NEW level, NEW bits, NEW epoch, NEW open, HeapOK(heap, level, bits, epoch, open),
         NEW a \in Objects(heap), NEW copy \in Objects(heap), heap[copy].prefix = heap[a].prefix,
         NEW new, new = WithNext(heap, a, copy)
  PROVE  HeapOK(new, level, bits, epoch, open) /\ Kept(heap, new, epoch) /\ Len(new) = Len(heap)
<1>1. IsHeap(heap) /\ epoch \in Nat /\ Len(heap) \in Nat
  BY DEF HeapOK, IsHeap
<1>2. IsHeap(new) /\ OnlyField(heap, new, a, "next") /\ new[a].next = copy
  BY <1>1, AssignNext
<1>3. Len(new) = Len(heap) /\ Objects(new) = Objects(heap)
  BY <1>2 DEF OnlyField
<1>4. \A b \in Objects(heap) :
        /\ new[b].epoch = heap[b].epoch /\ new[b].prefix = heap[b].prefix
        /\ new[b].hash = heap[b].hash /\ new[b].values = heap[b].values
        /\ new[b].leftChild = heap[b].leftChild /\ new[b].rightChild = heap[b].rightChild
        /\ new[b].parent = heap[b].parent
        /\ b # a => new[b].next = heap[b].next
  BY <1>2 DEF OnlyField, Fields
<1>5. Kept(heap, new, epoch)
  BY <1>1, <1>3, <1>4 DEF Kept, Child
<1>6. ASSUME NEW b \in Objects(heap) PROVE ObjectOK(new, level, bits, epoch, b)
  <2>1. ObjectOK(heap, level, bits, epoch, b)
    BY DEF HeapOK
  <2>2. ASSUME NEW bit \in {0, 1} PROVE ChildOK(new, level, b, bit)
    <3>1. Child(new, b, bit) = Child(heap, b, bit) /\ ChildOK(heap, level, b, bit)
      BY <1>4, <2>1 DEF Child, ObjectOK
    <3> QED
      BY <1>3, <1>4, <3>1 DEF ChildOK
  <2>3. ParentOK(new, level, b)
    BY <1>3, <1>4, <2>1 DEF ObjectOK, ParentOK
  <2>4. /\ new[b].next \in Objects(heap) \cup {Nil}
        /\ new[b].next # Nil => new[new[b].next].prefix = new[b].prefix
    BY <1>2, <1>4, <2>1 DEF ObjectOK
  <2> QED
    BY <1>3, <1>4, <2>1, <2>2, <2>3, <2>4 DEF ObjectOK
<1>7. ASSUME NEW b \in Objects(heap), b \notin open PROVE ShapeOK(new, level, bits, b)
  BY <1>4, <1>7 DEF HeapOK, ShapeOK
<1>8. HeapOK(new, level, bits, epoch, open)
  BY <1>2, <1>3, <1>4, <1>6, <1>7 DEF HeapOK
<1> QED
  BY <1>3, <1>5, <1>8

\* What is not a root may be given another parent that ends where the first one does.
LEMMA ParentIsFree ==
  ASSUME NEW heap, NEW level, NEW bits, NEW epoch, NEW open, HeapOK(heap, level, bits, epoch, open),
         NEW a \in Objects(heap), NEW p \in Objects(heap),
         heap[a].prefix # <<>>, level[a] = level[p] + Len(heap[a].prefix),
         NEW new, new = SetParent(heap, a, p)
  PROVE  HeapOK(new, level, bits, epoch, open) /\ Kept(heap, new, epoch) /\ Len(new) = Len(heap)
<1>1. IsHeap(heap) /\ epoch \in Nat /\ Len(heap) \in Nat
  BY DEF HeapOK, IsHeap
<1>2. IsHeap(new) /\ OnlyField(heap, new, a, "parent") /\ new[a].parent = p
  BY <1>1, AssignParent
<1>3. Len(new) = Len(heap) /\ Objects(new) = Objects(heap) /\ p # Nil
  BY <1>1, <1>2 DEF OnlyField, Objects, Nil
<1>4. \A b \in Objects(heap) :
        /\ new[b].epoch = heap[b].epoch /\ new[b].prefix = heap[b].prefix
        /\ new[b].hash = heap[b].hash /\ new[b].values = heap[b].values
        /\ new[b].leftChild = heap[b].leftChild /\ new[b].rightChild = heap[b].rightChild
        /\ new[b].next = heap[b].next
        /\ b # a => new[b].parent = heap[b].parent
  BY <1>2 DEF OnlyField, Fields
<1>5. Kept(heap, new, epoch)
  BY <1>1, <1>3, <1>4 DEF Kept, Child
<1>6. ASSUME NEW b \in Objects(heap) PROVE ObjectOK(new, level, bits, epoch, b)
  <2>1. ObjectOK(heap, level, bits, epoch, b)
    BY DEF HeapOK
  <2>2. \A c \in Objects(heap) : heap[c].parent # Nil => new[c].parent # Nil
    BY <1>2, <1>3, <1>4
  <2>3. ASSUME NEW bit \in {0, 1} PROVE ChildOK(new, level, b, bit)
    <3>1. Child(new, b, bit) = Child(heap, b, bit) /\ ChildOK(heap, level, b, bit)
      BY <1>4, <2>1 DEF Child, ObjectOK
    <3> QED
      BY <1>3, <1>4, <2>2, <3>1 DEF ChildOK
  <2>4. ParentOK(new, level, b)
    <3>1. CASE b = a
      BY <1>2, <1>3, <1>4, <2>1, <3>1 DEF ObjectOK, ParentOK
    <3>2. CASE b # a
      BY <1>3, <1>4, <2>1, <3>2 DEF ObjectOK, ParentOK
    <3> QED
      BY <3>1, <3>2
  <2> QED
    BY <1>3, <1>4, <2>1, <2>3, <2>4 DEF ObjectOK
<1>7. ASSUME NEW b \in Objects(heap), b \notin open PROVE ShapeOK(new, level, bits, b)
  BY <1>4, <1>7 DEF HeapOK, ShapeOK
<1>8. HeapOK(new, level, bits, epoch, open)
  BY <1>2, <1>3, <1>4, <1>6, <1>7 DEF HeapOK
<1> QED
  BY <1>3, <1>5, <1>8

\* An object of this epoch may be given any child whose label starts where its own ends.
LEMMA ChildIsFree ==
  ASSUME NEW heap, NEW level, NEW bits, NEW epoch, NEW open, HeapOK(heap, level, bits, epoch, open),
         NEW a \in Objects(heap), heap[a].epoch = epoch, NEW bit \in {0, 1}, NEW c \in Objects(heap),
         heap[c].prefix[1] = bit, heap[c].prefix # <<>>, level[c] = level[a] + Len(heap[c].prefix),
         NEW new, new = SetChild(heap, a, bit, c)
  PROVE  /\ HeapOK(new, level, bits, epoch, open) /\ Kept(heap, new, epoch) /\ Len(new) = Len(heap)
         /\ Child(new, a, bit) = c
<1>1. IsHeap(heap) /\ epoch \in Nat /\ Len(heap) \in Nat
  BY DEF HeapOK, IsHeap
<1>2. /\ IsHeap(new)
      /\ OnlyField(heap, new, a, IF bit = 0 THEN "leftChild" ELSE "rightChild")
      /\ Child(new, a, bit) = c
  BY <1>1, AssignChild
<1>3. Len(new) = Len(heap) /\ Objects(new) = Objects(heap) /\ c # Nil
  BY <1>1, <1>2 DEF OnlyField, Objects, Nil
<1>4. \A b \in Objects(heap) :
        /\ new[b].epoch = heap[b].epoch /\ new[b].prefix = heap[b].prefix
        /\ new[b].next = heap[b].next /\ new[b].parent = heap[b].parent
        /\ new[b].hash = heap[b].hash /\ new[b].values = heap[b].values
        /\ b # a => /\ new[b].leftChild = heap[b].leftChild
                    /\ new[b].rightChild = heap[b].rightChild
  BY <1>2 DEF OnlyField, Fields
<1>5. ASSUME NEW b \in Objects(heap), NEW side \in {0, 1}
      PROVE  Child(new, b, side) = IF b = a /\ side = bit THEN c ELSE Child(heap, b, side)
  BY <1>2, <1>4 DEF OnlyField, Fields, Child
<1>6. Kept(heap, new, epoch)
  BY <1>1, <1>3, <1>4, <1>5 DEF Kept
<1>7. ASSUME NEW b \in Objects(heap) PROVE ObjectOK(new, level, bits, epoch, b)
  <2>1. ObjectOK(heap, level, bits, epoch, b)
    BY DEF HeapOK
  <2>2. heap[c].epoch <= epoch /\ heap[c].parent # Nil
    BY <1>1 DEF HeapOK, ObjectOK, ParentOK
  <2>3. ASSUME NEW side \in {0, 1} PROVE ChildOK(new, level, b, side)
    BY <1>3, <1>4, <1>5, <2>1, <2>2 DEF ObjectOK, ChildOK
  <2>4. ParentOK(new, level, b)
    BY <1>3, <1>4, <2>1 DEF ObjectOK, ParentOK
  <2> QED
    BY <1>3, <1>4, <2>1, <2>3, <2>4 DEF ObjectOK
<1>8. ASSUME NEW b \in Objects(heap), b \notin open PROVE ShapeOK(new, level, bits, b)
  <2>1. ShapeOK(heap, level, bits, b)
    BY <1>8 DEF HeapOK
  <2>2. CASE b = a
    <3>1. level[a] \in 0 .. bits /\ level[c] \in 0 .. bits /\ Len(heap[c].prefix) \in Nat \ {0}
          /\ bits \in Nat
      BY DEF HeapOK, ObjectOK, ParentOK
    <3>2. level[a] # bits
      BY <3>1
    <3>3. heap[a].prefix # <<>> => Child(heap, a, 0) # Nil /\ Child(heap, a, 1) # Nil
      BY <2>1, <2>2, <3>2 DEF ShapeOK, Child
    <3>4. heap[a].prefix # <<>> => Child(new, a, 0) # Nil /\ Child(new, a, 1) # Nil
      BY <1>3, <1>5, <3>3
    <3> QED
      BY <1>4, <2>2, <3>4 DEF ShapeOK, Child
  <2>3. CASE b # a
    BY <1>4, <2>1, <2>3 DEF ShapeOK
  <2> QED
    BY <2>2, <2>3
<1>9. HeapOK(new, level, bits, epoch, open)
  BY <1>2, <1>3, <1>4, <1>7, <1>8 DEF HeapOK
<1> QED
  BY <1>2, <1>3, <1>6, <1>9

(***************************************************************************)
(* Growing heaps.                                                          *)
(***************************************************************************)

\* The new heap is a heap too, after steps that did nothing they may not do.
Grown(heap, level, new, newLevel, bits, epoch, open) ==
  /\ HeapOK(new, newLevel, bits, epoch, open)
  /\ Kept(heap, new, epoch)
  /\ SameLevels(heap, level, newLevel)

\* A heap that nothing was done to.
LEMMA GrownReflexive ==
  ASSUME NEW heap, NEW level, NEW bits, NEW epoch, NEW open, HeapOK(heap, level, bits, epoch, open)
  PROVE  Grown(heap, level, heap, level, bits, epoch, open)
  BY KeptReflexive DEF Grown, HeapOK, SameLevels

\* Two steps after one another.
LEMMA GrownTransitive ==
  ASSUME NEW h1, NEW l1, NEW h2, NEW l2, NEW h3, NEW l3, NEW bits, NEW epoch, NEW o1, NEW o2, NEW o3,
         HeapOK(h1, l1, bits, epoch, o1),
         Grown(h1, l1, h2, l2, bits, epoch, o2), Grown(h2, l2, h3, l3, bits, epoch, o3)
  PROVE  Grown(h1, l1, h3, l3, bits, epoch, o3)
<1>1. IsHeap(h1) /\ IsHeap(h2) /\ IsHeap(h3)
  BY DEF Grown, HeapOK
<1>2. Kept(h1, h3, epoch)
  BY <1>1, KeptTransitive DEF Grown
<1>3. Len(h1) \in Nat /\ Len(h2) \in Nat /\ Len(h1) <= Len(h2)
  BY <1>1 DEF IsHeap, Grown, Kept
<1>4. \A a \in Objects(h1) : a \in Objects(h2)
  BY <1>3 DEF Objects
<1> QED
  BY <1>2, <1>4 DEF Grown, SameLevels

\* An object keeps what places it in the tree.
LEMMA GrownObject ==
  ASSUME NEW heap, NEW level, NEW new, NEW newLevel, NEW bits, NEW epoch, NEW open, NEW o1,
         HeapOK(heap, level, bits, epoch, o1),
         Grown(heap, level, new, newLevel, bits, epoch, open), NEW a \in Objects(heap)
  PROVE  /\ a \in Objects(new) /\ newLevel[a] = level[a]
         /\ new[a].epoch = heap[a].epoch /\ new[a].prefix = heap[a].prefix
<1>1. Len(heap) \in Nat /\ Len(new) \in Nat /\ Len(heap) <= Len(new)
  BY DEF IsHeap, HeapOK, Grown, Kept
<1> QED
  BY <1>1 DEF Grown, Kept, SameLevels, Objects

\* The levels once there is one more object.
Leveled(heap, level, n) ==
  [ a \in 1 .. Len(heap) + 1 |-> IF a = Len(heap) + 1 THEN n ELSE level[a] ]

ChildOf(object, bit) == IF bit = 0 THEN object.leftChild ELSE object.rightChild

\* What is asked of a new object of level n.
Fits(heap, level, bits, epoch, object, n) ==
  /\ DOMAIN object = Fields
  /\ object.epoch = epoch /\ object.next = Nil
  /\ object.prefix \in Seq({0, 1}) /\ n \in 0 .. bits
  /\ object.prefix = <<>> => object.values = <<>>
  /\ object.parent \in Objects(heap) \cup {Nil}
  /\ object.parent = Nil => object.prefix = <<>> /\ n = 0
  /\ object.parent # Nil => object.prefix # <<>> /\ n = level[object.parent] + Len(object.prefix)
  /\ \A bit \in {0, 1} :
       LET c == ChildOf(object, bit)
       IN  /\ c \in Objects(heap) \cup {Nil}
           /\ c # Nil => /\ heap[c].parent # Nil /\ heap[c].prefix[1] = bit
                         /\ level[c] = n + Len(heap[c].prefix)

\* The shape of what the object may be once it is no longer open.
Shaped(object, bits, n) ==
  object.prefix # <<>> => /\ (object.leftChild = Nil) = (object.rightChild = Nil)
                          /\ object.leftChild = Nil => n = bits

Appended(heap, new, object) == new = Append(heap, object)

\* A new object, which stays open or has its shape.
LEMMA ObjectIsAdded ==
  ASSUME NEW heap, NEW level, NEW bits, NEW epoch, NEW open, HeapOK(heap, level, bits, epoch, open),
         NEW object, NEW n, Fits(heap, level, bits, epoch, object, n),
         NEW nowOpen, open \subseteq nowOpen, nowOpen \subseteq open \cup {Len(heap) + 1},
         Len(heap) + 1 \in nowOpen \/ Shaped(object, bits, n),
         NEW new, Appended(heap, new, object), NEW newLevel, newLevel = Leveled(heap, level, n)
  PROVE  /\ Grown(heap, level, new, newLevel, bits, epoch, nowOpen)
         /\ Len(new) = Len(heap) + 1 /\ Len(heap) + 1 \in Objects(new)
         /\ new[Len(heap) + 1] = object /\ newLevel[Len(heap) + 1] = n
         /\ \A a \in Objects(heap) : new[a] = heap[a]
<1> DEFINE last == Len(heap) + 1
<1>1. IsHeap(heap) /\ epoch \in Nat /\ bits \in Nat /\ Len(heap) \in Nat
  BY DEF HeapOK, IsHeap
<1>2. /\ IsHeap(new) /\ Len(new) = Len(heap) + 1 /\ new[last] = object
      /\ \A a \in Objects(heap) : new[a] = heap[a]
  <2>1. DOMAIN object = Fields
    BY DEF Fits
  <2> QED
    BY <1>1, <2>1, AppendHeap DEF Appended
<1>3. /\ Objects(new) = Objects(heap) \cup {last} /\ last \notin Objects(heap) /\ last # Nil
      /\ \A a \in Objects(heap) : a # Nil
  BY <1>1, <1>2 DEF Objects, Nil
<1>4. newLevel[last] = n /\ \A a \in Objects(heap) : newLevel[a] = level[a]
  BY <1>1 DEF Leveled, Objects
<1>5. newLevel \in [Objects(new) -> 0 .. bits]
  <2>1. DOMAIN newLevel = Objects(new) /\ newLevel = [ a \in Objects(new) |-> newLevel[a] ]
    BY <1>2 DEF Leveled, Objects
  <2>2. \A a \in Objects(new) : newLevel[a] \in 0 .. bits
    BY <1>3, <1>4 DEF HeapOK, Fits
  <2> QED
    BY <2>1, <2>2
<1> HIDE DEF last
<1>6. Kept(heap, new, epoch)
  <2>1. Len(heap) <= Len(new)
    BY <1>1, <1>2
  <2> QED
    BY <1>2, <2>1 DEF Kept, Child
<1>7. ASSUME NEW a \in Objects(heap) PROVE ObjectOK(new, newLevel, bits, epoch, a)
  <2>1. ObjectOK(heap, level, bits, epoch, a)
    BY DEF HeapOK
  <2>2. ASSUME NEW bit \in {0, 1} PROVE ChildOK(new, newLevel, a, bit)
    <3>1. Child(new, a, bit) = Child(heap, a, bit) /\ ChildOK(heap, level, a, bit)
      BY <1>2, <2>1 DEF Child, ObjectOK
    <3> QED
      BY <1>2, <1>3, <1>4, <3>1 DEF ChildOK
  <2>3. ParentOK(new, newLevel, a)
    BY <1>2, <1>3, <1>4, <2>1 DEF ObjectOK, ParentOK
  <2> QED
    BY <1>2, <1>3, <2>1, <2>2, <2>3 DEF ObjectOK
<1>8. ObjectOK(new, newLevel, bits, epoch, last)
  <2>1. ASSUME NEW bit \in {0, 1} PROVE ChildOK(new, newLevel, last, bit)
    <3> DEFINE c == Child(new, last, bit)
    <3>1. c = ChildOf(object, bit)
      BY <1>2 DEF Child, ChildOf
    <3>2. /\ c \in Objects(heap) \cup {Nil}
          /\ c # Nil => /\ heap[c].parent # Nil /\ heap[c].prefix[1] = bit
                        /\ level[c] = n + Len(heap[c].prefix)
      BY <3>1 DEF Fits
    <3>3. c # Nil => heap[c].epoch <= epoch
      BY <1>1, <3>2 DEF HeapOK, ObjectOK
    <3>4. object.epoch = epoch
      BY DEF Fits
    <3> HIDE DEF c
    <3>5. c # Nil => c \in Objects(heap) /\ new[c] = heap[c] /\ newLevel[c] = level[c]
      BY <1>2, <1>4, <3>2
    <3>6. c \in Objects(new) \cup {Nil}
      BY <1>3, <3>2
    <3>7. c # Nil => /\ new[c].epoch <= new[last].epoch /\ new[c].parent # Nil
                     /\ new[c].prefix[1] = bit
                     /\ newLevel[c] = newLevel[last] + Len(new[c].prefix)
      BY <1>2, <1>4, <3>2, <3>3, <3>4, <3>5
    <3> QED
      BY <3>6, <3>7 DEF ChildOK, c
  <2>2. ParentOK(new, newLevel, last)
    BY <1>2, <1>3, <1>4 DEF Fits, ParentOK
  <2> QED
    BY <1>1, <1>2, <1>3, <2>1, <2>2 DEF Fits, ObjectOK
<1>9. ASSUME NEW a \in Objects(new), a \notin nowOpen PROVE ShapeOK(new, newLevel, bits, a)
  <2>1. CASE a = last
    BY <1>2, <1>4, <1>9, <2>1 DEF Shaped, ShapeOK, last
  <2>2. CASE a # last
    BY <1>2, <1>3, <1>4, <1>9, <2>2 DEF HeapOK, ShapeOK
  <2> QED
    BY <2>1, <2>2
<1>10. \A a \in nowOpen : a \in Objects(new) /\ new[a].epoch = epoch
  <2>1. \A a \in open : a \in Objects(heap) /\ heap[a].epoch = epoch
    BY DEF HeapOK
  <2>2. object.epoch = epoch
    BY DEF Fits
  <2> QED
    BY <1>2, <1>3, <2>1, <2>2 DEF last
<1>11. HeapOK(new, newLevel, bits, epoch, nowOpen)
  BY <1>1, <1>2, <1>3, <1>5, <1>7, <1>8, <1>9, <1>10 DEF HeapOK
<1> QED
  BY <1>1, <1>2, <1>3, <1>4, <1>6, <1>11 DEF Grown, SameLevels, last

(***************************************************************************)
(* Copying.                                                                *)
(***************************************************************************)

\* Roots, which have no label, are at level 0.
LEMMA RootLevel ==
  ASSUME NEW heap, NEW level, NEW bits, NEW epoch, NEW open, HeapOK(heap, level, bits, epoch, open),
         NEW a \in Objects(heap), heap[a].prefix = <<>>
  PROVE  level[a] = 0 /\ heap[a].parent = Nil
  BY DEF HeapOK, ObjectOK, ParentOK

\* The copy of an object, before anything leads to it.
Copied(heap, node, epoch, parent) ==
  [heap[node] EXCEPT !.epoch = epoch, !.next = Nil, !.parent = parent]

\* What a child may be re-parented to: an object of the same level as its parent.
LEMMA ChildIsReparented ==
  ASSUME NEW heap, NEW level, NEW bits, NEW epoch, NEW open, HeapOK(heap, level, bits, epoch, open),
         NEW p \in Objects(heap), NEW c \in Objects(heap) \cup {Nil},
         c # Nil => heap[c].prefix # <<>> /\ level[c] = level[p] + Len(heap[c].prefix),
         NEW new, new = SetParent(heap, c, p)
  PROVE  Grown(heap, level, new, level, bits, epoch, open) /\ Len(new) = Len(heap)
<1>1. CASE c = Nil
  BY <1>1, GrownReflexive DEF SetParent
<1>2. CASE c # Nil
  <2>1. c \in Objects(heap)
    BY <1>2
  <2>2. HeapOK(new, level, bits, epoch, open) /\ Kept(heap, new, epoch) /\ Len(new) = Len(heap)
    BY <1>2, <2>1, ParentIsFree
  <2> QED
    BY <2>2 DEF Grown, SameLevels
<1> QED
  BY <1>1, <1>2

\* One frame of makeNextMetadata keeps the heap in order, and the copy takes the place of
\* the node in the tree.
LEMMA NodeIsCopied ==
  ASSUME NEW heap, NEW level, NEW bits, NEW epoch, NEW open, HeapOK(heap, level, bits, epoch, open),
         NEW node \in Objects(heap), heap[node].epoch < epoch,
         NEW parent \in Objects(heap) \cup {Nil},
         parent = Nil => heap[node].prefix = <<>>,
         parent # Nil => /\ heap[node].prefix # <<>> /\ heap[parent].epoch = epoch
                         /\ level[node] = level[parent] + Len(heap[node].prefix),
         NEW new, new = CopyNode(heap, node, epoch, parent)
  PROVE  \E newLevel :
           /\ Grown(heap, level, new, newLevel, bits, epoch, open)
           /\ Len(new) = Len(heap) + 1 /\ Len(new) \in Objects(new)
           /\ new[Len(new)].epoch = epoch /\ new[Len(new)].prefix = heap[node].prefix
           /\ newLevel[Len(new)] = level[node]
<1> DEFINE ret == Len(heap) + 1
           object == Copied(heap, node, epoch, parent)
           h1 == Append(heap, object)
           l1 == Leveled(heap, level, level[node])
           h2 == IF parent = Nil THEN h1 ELSE SetChild(h1, parent, heap[node].prefix[1], ret)
           h3 == SetParent(h2, heap[node].leftChild, ret)
           h4 == SetParent(h3, heap[node].rightChild, ret)
<1>1. new = WithNext(h4, node, ret)
  BY DEF CopyNode, WithNext, Copied
<1> HIDE DEF h2, h3, h4
<1>2. /\ IsHeap(heap) /\ epoch \in Nat /\ Len(heap) \in Nat
      /\ ObjectOK(heap, level, bits, epoch, node)
      /\ heap[node].prefix \in Seq({0, 1}) /\ level[node] \in 0 .. bits
  BY DEF HeapOK, IsHeap, ObjectOK, ParentOK
<1>3. /\ DOMAIN object = Fields
      /\ object.epoch = epoch /\ object.next = Nil /\ object.parent = parent
      /\ object.prefix = heap[node].prefix
      /\ object.leftChild = heap[node].leftChild /\ object.rightChild = heap[node].rightChild
      /\ object.values = heap[node].values
  <2>1. DOMAIN heap[node] = Fields
    BY <1>2 DEF IsHeap
  <2> QED
    BY <2>1 DEF Copied, Fields
<1> HIDE DEF object
<1>4. \A bit \in {0, 1} :
        /\ Child(heap, node, bit) \in Objects(heap) \cup {Nil}
        /\ Child(heap, node, bit) # Nil =>
             /\ heap[Child(heap, node, bit)].parent # Nil
             /\ heap[Child(heap, node, bit)].prefix[1] = bit
             /\ heap[Child(heap, node, bit)].prefix # <<>>
             /\ level[Child(heap, node, bit)] =
                  level[node] + Len(heap[Child(heap, node, bit)].prefix)
  BY <1>2 DEF ObjectOK, ChildOK, HeapOK, ParentOK
<1>5. Fits(heap, level, bits, epoch, object, level[node])
  <2>1. \A bit \in {0, 1} : ChildOf(object, bit) = Child(heap, node, bit)
    BY <1>3 DEF ChildOf, Child
  <2>2. parent = Nil => level[node] = 0
    BY RootLevel
  <2>3. parent # Nil => level[node] = level[parent] + Len(heap[node].prefix)
    OBVIOUS
  <2>4. object.prefix = <<>> => object.values = <<>>
    BY <1>2, <1>3 DEF ObjectOK
  <2> QED
    BY <1>2, <1>3, <1>4, <2>1, <2>2, <2>3, <2>4 DEF Fits
<1>6. Shaped(object, bits, level[node])
  <2>1. node \notin open
    BY <1>2 DEF HeapOK
  <2>2. ShapeOK(heap, level, bits, node)
    BY <2>1 DEF HeapOK
  <2> QED
    BY <1>3, <2>2 DEF Shaped, ShapeOK
<1>7. /\ Grown(heap, level, h1, l1, bits, epoch, open)
      /\ Len(h1) = ret /\ ret \in Objects(h1) /\ h1[ret] = object /\ l1[ret] = level[node]
  <2>1. Appended(heap, h1, object)
    BY DEF Appended
  <2>2. l1 = Leveled(heap, level, level[node])
    OBVIOUS
  <2> HIDE DEF h1, l1
  <2> QED
    BY <1>5, <1>6, <2>1, <2>2, ObjectIsAdded
<1> HIDE DEF h1, l1
<1>8. HeapOK(h1, l1, bits, epoch, open)
  BY <1>7 DEF Grown
<1>9. \A a \in Objects(heap) : /\ a \in Objects(h1) /\ l1[a] = level[a]
                               /\ h1[a].epoch = heap[a].epoch /\ h1[a].prefix = heap[a].prefix
  BY <1>7, GrownObject
<1>10. Grown(h1, l1, h2, l1, bits, epoch, open) /\ Len(h2) = ret
  <2>1. CASE parent = Nil
    BY <1>7, <1>8, <2>1, GrownReflexive DEF h2
  <2>2. CASE parent # Nil
    <3> DEFINE bit == heap[node].prefix[1]
    <3>1. bit \in {0, 1}
      <4>1. Len(heap[node].prefix) >= 1
        BY <1>2, <2>2
      <4> QED
        BY <1>2, <4>1
    <3> HIDE DEF bit
    <3>2. parent \in Objects(h1) /\ h1[parent].epoch = epoch
      BY <1>9, <2>2
    <3>3. /\ h1[ret].prefix = heap[node].prefix /\ h1[ret].prefix # <<>>
          /\ h1[ret].prefix[1] = bit
          /\ l1[ret] = l1[parent] + Len(h1[ret].prefix)
      BY <1>3, <1>7, <1>9, <2>2 DEF bit
    <3>4. h2 = SetChild(h1, parent, bit, ret)
      BY <2>2 DEF h2, bit
    <3>5. HeapOK(h2, l1, bits, epoch, open) /\ Kept(h1, h2, epoch) /\ Len(h2) = Len(h1)
      BY <1>7, <1>8, <3>1, <3>2, <3>3, <3>4, ChildIsFree
    <3> QED
      BY <1>7, <3>5 DEF Grown, SameLevels
  <2> QED
    BY <2>1, <2>2
<1>11. /\ HeapOK(h2, l1, bits, epoch, open) /\ Grown(heap, level, h2, l1, bits, epoch, open)
  BY <1>7, <1>8, <1>10, GrownTransitive DEF Grown
<1>12. \A a \in Objects(h1) : /\ a \in Objects(h2)
                              /\ h2[a].epoch = h1[a].epoch /\ h2[a].prefix = h1[a].prefix
  BY <1>8, <1>10, GrownObject
<1>13. ASSUME NEW bit \in {0, 1}, NEW h, Grown(h2, l1, h, l1, bits, epoch, open)
       PROVE  LET c == Child(heap, node, bit)
              IN  /\ c \in Objects(h) \cup {Nil} /\ ret \in Objects(h)
                  /\ c # Nil => h[c].prefix # <<>> /\ l1[c] = l1[ret] + Len(h[c].prefix)
  <2> DEFINE c == Child(heap, node, bit)
  <2>1. c \in Objects(heap) \cup {Nil}
        /\ (c # Nil => heap[c].prefix # <<>> /\ level[c] = level[node] + Len(heap[c].prefix))
    BY <1>4
  <2> HIDE DEF c
  <2>2. \A a \in Objects(h2) : a \in Objects(h) /\ h[a].prefix = h2[a].prefix
    BY <1>11, <1>13, GrownObject
  <2>3. c # Nil => /\ c \in Objects(h) /\ h[c].prefix = heap[c].prefix /\ l1[c] = level[c]
    BY <2>1, <2>2, <1>9, <1>12
  <2>4. ret \in Objects(h)
    BY <1>7, <1>12, <2>2
  <2>5. c # Nil => h[c].prefix # <<>> /\ l1[c] = l1[ret] + Len(h[c].prefix)
    BY <1>7, <2>1, <2>3
  <2> QED
    BY <2>1, <2>3, <2>4, <2>5 DEF c
<1>14. Child(heap, node, 0) = heap[node].leftChild /\ Child(heap, node, 1) = heap[node].rightChild
  BY DEF Child
<1>15. Grown(h2, l1, h3, l1, bits, epoch, open) /\ Len(h3) = ret
  <2>1. Grown(h2, l1, h2, l1, bits, epoch, open)
    BY <1>11, GrownReflexive
  <2>2. h3 = SetParent(h2, Child(heap, node, 0), ret)
    BY <1>14 DEF h3
  <2> DEFINE c == Child(heap, node, 0)
  <2>3. /\ c \in Objects(h2) \cup {Nil} /\ ret \in Objects(h2)
        /\ c # Nil => h2[c].prefix # <<>> /\ l1[c] = l1[ret] + Len(h2[c].prefix)
    BY <1>13, <2>1
  <2> HIDE DEF c
  <2>4. h3 = SetParent(h2, c, ret)
    BY <2>2 DEF c
  <2> QED
    BY <1>10, <1>11, <2>3, <2>4, ChildIsReparented
<1>16. HeapOK(h3, l1, bits, epoch, open)
  BY <1>15 DEF Grown
<1>17. Grown(h3, l1, h4, l1, bits, epoch, open) /\ Len(h4) = ret
  <2>1. h4 = SetParent(h3, Child(heap, node, 1), ret)
    BY <1>14 DEF h4
  <2> QED
    BY <1>13, <1>15, <1>16, <2>1, ChildIsReparented
<1>18. HeapOK(h4, l1, bits, epoch, open)
  BY <1>17 DEF Grown
<1>19. Grown(heap, level, h4, l1, bits, epoch, open)
  <2>1. Grown(heap, level, h3, l1, bits, epoch, open)
    BY <1>11, <1>15, GrownTransitive
  <2> QED
    BY <1>17, <2>1, GrownTransitive
<1>20. Grown(h2, l1, h4, l1, bits, epoch, open)
  BY <1>11, <1>15, <1>17, GrownTransitive
<1>21. /\ ret \in Objects(h4) /\ h4[ret].prefix = heap[node].prefix /\ h4[ret].epoch = epoch
       /\ node \in Objects(h4) /\ h4[node].prefix = heap[node].prefix
  <2>1. ret \in Objects(h2) /\ h2[ret].prefix = heap[node].prefix /\ h2[ret].epoch = epoch
    BY <1>3, <1>7, <1>12
  <2>2. node \in Objects(h2) /\ h2[node].prefix = heap[node].prefix
    BY <1>9, <1>12
  <2> QED
    BY <1>11, <1>20, <2>1, <2>2, GrownObject
<1>22. Grown(h4, l1, new, l1, bits, epoch, open) /\ Len(new) = ret
  <2>1. HeapOK(new, l1, bits, epoch, open) /\ Kept(h4, new, epoch) /\ Len(new) = Len(h4)
    BY <1>1, <1>18, <1>21, NextIsFree
  <2> QED
    BY <1>17, <2>1 DEF Grown, SameLevels
<1>23. Grown(heap, level, new, l1, bits, epoch, open)
  BY <1>19, <1>22, GrownTransitive
<1>24. ret \in Objects(new) /\ new[ret].prefix = heap[node].prefix /\ new[ret].epoch = epoch
  BY <1>18, <1>21, <1>22, GrownObject
<1> QED
  BY <1>7, <1>22, <1>23, <1>24

-----------------------------------------------------------------------------
(* The ancestors.                                                          *)

\* Up to the n-th ancestor, if there is one, the levels only decrease.
Above(heap, level, node, n) ==
  LET up == Upwards(heap, node)
  IN  /\ up[n] \in Objects(heap) \cup {Nil}
      /\ up[n] # Nil =>
           \A j \in 0 .. n : up[j] \in Objects(heap) /\ level[up[n]] + (n - j) <= level[up[j]]

ParentOf(heap, a) == IF a = Nil THEN Nil ELSE heap[a].parent

Rise == INSTANCE SequenceLemmas WITH
  LoopBody <- LAMBDA fixed, n, s : ParentOf(fixed, s),
  Claim <- LAMBDA fixed, n : Above(fixed.heap, fixed.level, fixed.node, n)

\* Upwards lists a node and the parents from there.
LEMMA UpwardsSteps ==
  ASSUME NEW heap, NEW node
  PROVE  /\ Upwards(heap, node)[0] = node
         /\ \A n \in Nat :
              Upwards(heap, node)[n + 1] = ParentOf(heap, Upwards(heap, node)[n])
<1>1. Upwards(heap, node) = Rise!Loop(heap, node)
  BY DEF Upwards, Rise!Loop, Rise!IsLoop, ParentOf
<1>2. /\ Rise!Loop(heap, node)[0] = node
      /\ \A n \in Nat : Rise!Loop(heap, node)[n + 1] = ParentOf(heap, Rise!Loop(heap, node)[n])
  BY Rise!LoopRounds
<1> QED
  BY <1>1, <1>2

\* The levels decrease on the way up.
LEMMA ParentsAreAbove ==
  ASSUME NEW heap, NEW level, NEW bits, NEW epoch, NEW open, HeapOK(heap, level, bits, epoch, open),
         NEW node \in Objects(heap)
  PROVE  \A n \in Nat : Above(heap, level, node, n)
<1> DEFINE fixed == [heap |-> heap, level |-> level, node |-> node]
           up == Upwards(heap, node)
<1>1. up[0] = node
      /\ \A n \in Nat : up[n + 1] = IF up[n] = Nil THEN Nil ELSE heap[up[n]].parent
  BY UpwardsSteps DEF ParentOf
<1> HIDE DEF up
<1>2. level \in [Objects(heap) -> 0 .. bits] /\ bits \in Nat
      /\ \A a \in Objects(heap) : ParentOK(heap, level, a)
  BY DEF HeapOK, ObjectOK
<1>3. Above(heap, level, node, 0)
  <2>1. \A j \in 0 .. 0 : j = 0
    OBVIOUS
  <2>2. up[0] \in Objects(heap) /\ level[up[0]] + (0 - 0) <= level[up[0]]
    BY <1>1, <1>2
  <2> QED
    BY <2>1, <2>2 DEF Above, up
<1>4. ASSUME NEW n \in Nat, Above(heap, level, node, n) PROVE Above(heap, level, node, n + 1)
  <2>1. up[n] \in Objects(heap) \cup {Nil}
        /\ (up[n] # Nil =>
             \A j \in 0 .. n : up[j] \in Objects(heap) /\ level[up[n]] + (n - j) <= level[up[j]])
    BY <1>4 DEF Above, up
  <2>2. up[n + 1] = IF up[n] = Nil THEN Nil ELSE heap[up[n]].parent
    BY <1>1
  <2>3. up[n + 1] \in Objects(heap) \cup {Nil}
    BY <1>2, <2>1, <2>2 DEF ParentOK
  <2>4. ASSUME up[n + 1] # Nil, NEW j \in 0 .. n + 1
        PROVE  up[j] \in Objects(heap) /\ level[up[n + 1]] + (n + 1 - j) <= level[up[j]]
    <3>1. up[n] \in Objects(heap) /\ up[n + 1] = heap[up[n]].parent
      BY <2>1, <2>2, <2>4
    <3>2. /\ heap[up[n]].prefix # <<>> /\ heap[up[n]].prefix \in Seq({0, 1})
          /\ level[up[n]] = level[up[n + 1]] + Len(heap[up[n]].prefix)
      BY <1>2, <2>4, <3>1 DEF ParentOK
    <3>3. Len(heap[up[n]].prefix) \in Nat \ {0}
      BY <3>2
    <3>4. up[n + 1] \in Objects(heap)
      BY <2>3, <2>4
    <3>5. level[up[n]] \in Nat /\ level[up[n + 1]] \in Nat
      BY <1>2, <3>1, <3>4
    <3>6. level[up[n + 1]] + 1 <= level[up[n]]
      BY <3>2, <3>3, <3>5
    <3>7. CASE j = n + 1
      BY <3>4, <3>5, <3>7
    <3>8. CASE j \in 0 .. n
      <4>1. up[j] \in Objects(heap) /\ level[up[n]] + (n - j) <= level[up[j]]
        BY <2>1, <3>8, <2>2, <2>4
      <4>2. level[up[j]] \in Nat
        BY <1>2, <4>1
      <4> QED
        BY <3>5, <3>6, <4>1, <4>2
    <3> QED
      BY <3>7, <3>8
  <2> QED
    BY <2>3, <2>4 DEF Above, up
<1>5. Above(fixed.heap, fixed.level, fixed.node, 0)
  BY <1>3
<1>6. \A n \in Nat : Above(fixed.heap, fixed.level, fixed.node, n)
                     => Above(fixed.heap, fixed.level, fixed.node, n + 1)
  BY <1>4
<1>7. \A n \in Nat : Above(fixed.heap, fixed.level, fixed.node, n)
  <2> HIDE DEF fixed
  <2> QED
    BY <1>5, <1>6, Rise!Induction
<1> QED
  BY <1>7

IsStale(heap, node, epoch, n) ==
  LET up == Upwards(heap, node) IN up[n] # Nil /\ heap[up[n]].epoch < epoch

IsTop(heap, node, epoch, n) ==
  (\A i \in 1 .. n : IsStale(heap, node, epoch, i)) /\ ~ IsStale(heap, node, epoch, n + 1)

TopOf(heap, node, epoch) == CHOOSE n \in 0 .. Len(heap) : IsTop(heap, node, epoch, n)

\* There are no more stale ancestors than objects, so the climb has an end.
LEMMA TopExists ==
  ASSUME NEW heap, NEW level, NEW bits, NEW epoch, NEW open, HeapOK(heap, level, bits, epoch, open),
         NEW node \in Objects(heap)
  PROVE  TopOf(heap, node, epoch) \in 0 .. Len(heap)
         /\ IsTop(heap, node, epoch, TopOf(heap, node, epoch))
<1> DEFINE up == Upwards(heap, node)
           Fresh == { n \in Nat : ~ IsStale(heap, node, epoch, n + 1) }
<1>1. \A n \in Nat : Above(heap, level, node, n)
  BY ParentsAreAbove
<1>2. /\ level \in [Objects(heap) -> 0 .. bits] /\ bits \in Nat /\ Len(heap) \in Nat
      /\ \A a \in Objects(heap) : a # Nil
  BY DEF HeapOK, IsHeap, Objects, Nil
<1>3. bits \in Fresh
  <2>1. ASSUME up[bits + 1] # Nil PROVE FALSE
    <3>1. bits + 1 \in Nat /\ 0 \in 0 .. bits + 1 /\ bits + 1 \in 0 .. bits + 1
      BY <1>2
    <3>2. /\ up[0] \in Objects(heap) /\ up[bits + 1] \in Objects(heap)
          /\ level[up[bits + 1]] + (bits + 1 - 0) <= level[up[0]]
      BY <1>1, <2>1, <3>1 DEF Above
    <3>3. level[up[0]] \in 0 .. bits /\ level[up[bits + 1]] \in 0 .. bits
      BY <1>2, <3>2
    <3> HIDE DEF up
    <3> QED
      BY <1>2, <3>2, <3>3
  <2> QED
    BY <1>2, <2>1 DEF IsStale
<1>4. PICK n \in Fresh : \A m \in Fresh : n <= m
  <2>1. Fresh \in SUBSET Nat /\ Fresh # {}
    BY <1>3
  <2> QED
    BY <2>1, LeastNumber
<1>5. n \in Nat /\ ~ IsStale(heap, node, epoch, n + 1)
  OBVIOUS
<1>6. ASSUME NEW i \in 1 .. n PROVE IsStale(heap, node, epoch, i)
  <2>1. i - 1 \in Nat /\ ~ (n <= i - 1) /\ i - 1 + 1 = i
    BY <1>5
  <2>2. i - 1 \notin Fresh
    BY <1>4, <2>1
  <2> HIDE DEF Fresh
  <2> QED
    BY <2>1, <2>2 DEF Fresh
<1>7. n <= Len(heap)
  <2> DEFINE f == [ i \in 1 .. n |-> up[i] ]
  <2>1. ASSUME NEW i \in 1 .. n PROVE up[i] # Nil /\ up[i] \in Objects(heap) /\ Above(heap, level, node, i)
    <3>1. up[i] # Nil /\ i \in Nat
      BY <1>6 DEF IsStale
    <3>2. Above(heap, level, node, i)
      BY <1>1, <3>1
    <3> QED
      BY <3>1, <3>2 DEF Above
  <2>2. ASSUME NEW i \in 1 .. n, NEW j \in 1 .. n, i < j PROVE up[i] # up[j]
    <3>1. i \in 0 .. j
      BY <1>5, <2>2
    <3>2. level[up[j]] + (j - i) <= level[up[i]]
      BY <2>1, <3>1 DEF Above
    <3>3. level[up[i]] \in Nat /\ level[up[j]] \in Nat
      BY <1>2, <2>1
    <3>4. i \in Nat /\ j \in Nat
      BY <1>5
    <3>5. level[up[j]] # level[up[i]]
      <4> HIDE DEF up
      <4> QED
        BY <2>2, <3>2, <3>3, <3>4
    <3> QED
      BY <3>5
  <2>3. \A i \in 1 .. n, j \in 1 .. n : i # j => up[i] # up[j]
    <3>1. \A i \in 1 .. n, j \in 1 .. n : i = j \/ i < j \/ j < i
      BY <1>5
    <3> QED
      BY <2>2, <3>1
  <2> HIDE DEF up
  <2>4. f \in [1 .. n -> Objects(heap)]
    BY <2>1
  <2>5. f \in Injection(1 .. n, Objects(heap))
    BY <2>3, <2>4 DEF Injection, IsInjective
  <2>6. /\ IsFiniteSet(1 .. n) /\ Cardinality(1 .. n) = n
        /\ IsFiniteSet(Objects(heap)) /\ Cardinality(Objects(heap)) = Len(heap)
    <3>1. /\ IsFiniteSet(1 .. n)
          /\ Cardinality(1 .. n) = IF 1 > n THEN 0 ELSE n - 1 + 1
      BY <1>5, FS_Interval
    <3>2. /\ IsFiniteSet(1 .. Len(heap))
          /\ Cardinality(1 .. Len(heap)) = IF 1 > Len(heap) THEN 0 ELSE Len(heap) - 1 + 1
      <4>1. 1 \in Int /\ Len(heap) \in Int
        BY <1>2
      <4> QED
        BY <4>1, FS_Interval, Zenon
    <3> QED
      BY <1>2, <1>5, <3>1, <3>2 DEF Objects
  <2> HIDE DEF f
  <2>7. Injection(1 .. n, Objects(heap)) # {}
    BY <2>5
  <2> QED
    BY <2>6, <2>7, FS_Injection
<1> QED
  BY <1>2, <1>5, <1>6, <1>7 DEF TopOf, IsTop

-----------------------------------------------------------------------------
(* The copies, from the top down.                                          *)

\* What does not change while the ancestors of a node are copied.
Copying(heap, level, bits, epoch, open, node) ==
  [ heap |-> heap, level |-> level, bits |-> bits, epoch |-> epoch, open |-> open,
    up |-> Upwards(heap, node), top |-> TopOf(heap, node, epoch) ]

FirstCopy(k) == CopyNode(k.heap, k.up[k.top], k.epoch, k.up[k.top + 1])

NextCopy(k, n, heap) == CopyNode(heap, k.up[k.top - n], k.epoch, Len(heap))

Copies == INSTANCE SequenceLemmas WITH
  LoopBody <- LAMBDA fixed, n, s : NextCopy(fixed, n, s), Claim <- LAMBDA fixed, n : TRUE

\* The heap after so many copies, the last of which took the place of a node.
IsCopiedTo(k, n, new) ==
  \E newLevel :
    /\ Grown(k.heap, k.level, new, newLevel, k.bits, k.epoch, k.open)
    /\ Len(new) \in Objects(new)
    /\ new[Len(new)].epoch = k.epoch
    /\ new[Len(new)].prefix = k.heap[k.up[k.top - n]].prefix
    /\ newLevel[Len(new)] = k.level[k.up[k.top - n]]

CopiesFrom(k) == Copies!Loop(k, FirstCopy(k))

Copy == INSTANCE SequenceLemmas WITH
  LoopBody <- LAMBDA fixed, n, s : s,
  Claim <- LAMBDA fixed, n : n <= fixed.top => IsCopiedTo(fixed, n, CopiesFrom(fixed)[n])

\* The m-th node of those that are copied: its parent is one more, or it is a root.
IsStaleAncestor(heap, level, node, epoch, m) ==
  LET up == Upwards(heap, node)
  IN  /\ up[m] \in Objects(heap) /\ heap[up[m]].epoch < epoch
      /\ up[m + 1] = heap[up[m]].parent
      /\ up[m + 1] \in Objects(heap) \cup {Nil}
      /\ up[m + 1] = Nil => heap[up[m]].prefix = <<>>
      /\ up[m + 1] # Nil =>
           /\ heap[up[m]].prefix # <<>>
           /\ level[up[m]] = level[up[m + 1]] + Len(heap[up[m]].prefix)

\* What is known of a node that is about to be copied and of those above it.
LEMMA StaleAncestors ==
  ASSUME NEW heap, NEW level, NEW bits, NEW epoch, NEW open, HeapOK(heap, level, bits, epoch, open),
         NEW node \in Objects(heap), heap[node].epoch < epoch,
         NEW m \in 0 .. TopOf(heap, node, epoch)
  PROVE  IsStaleAncestor(heap, level, node, epoch, m)
<1> DEFINE up == Upwards(heap, node)
           top == TopOf(heap, node, epoch)
<1>1. top \in Nat /\ IsTop(heap, node, epoch, top)
  BY TopExists
<1>2. up[0] = node /\ up[m + 1] = ParentOf(heap, up[m])
  BY <1>1, UpwardsSteps
<1>3. up[m] # Nil /\ heap[up[m]].epoch < epoch
  <2>1. CASE m = 0
    BY <1>2, <2>1 DEF HeapOK, IsHeap, Objects, Nil
  <2>2. CASE m # 0
    <3>1. m \in 1 .. top
      BY <1>1, <2>2
    <3> QED
      BY <1>1, <3>1 DEF IsTop, IsStale
  <2> QED
    BY <2>1, <2>2
<1>4. up[m] \in Objects(heap)
  <2>1. Above(heap, level, node, m)
    BY <1>1, ParentsAreAbove
  <2> QED
    BY <1>3, <2>1 DEF Above
<1>5. ParentOK(heap, level, up[m])
  BY <1>4 DEF HeapOK, ObjectOK
<1> HIDE DEF up
<1>6. up[m + 1] = heap[up[m]].parent
  BY <1>2, <1>3 DEF ParentOf
<1> QED
  BY <1>3, <1>4, <1>5, <1>6 DEF ParentOK, up, IsStaleAncestor

\* The first copy.
LEMMA TopIsCopied ==
  ASSUME NEW heap, NEW level, NEW bits, NEW epoch, NEW open, HeapOK(heap, level, bits, epoch, open),
         NEW node \in Objects(heap), heap[node].epoch < epoch,
         NEW k, k = Copying(heap, level, bits, epoch, open, node)
  PROVE  IsCopiedTo(k, 0, FirstCopy(k))
<1> DEFINE up == Upwards(heap, node)
           top == TopOf(heap, node, epoch)
           new == CopyNode(heap, up[top], epoch, up[top + 1])
<1>1. top \in Nat /\ IsTop(heap, node, epoch, top) /\ top \in 0 .. top /\ top - 0 = top
  <2>1. top \in Nat /\ IsTop(heap, node, epoch, top)
    BY TopExists
  <2> QED
    BY <2>1
<1>2. /\ up[top] \in Objects(heap) /\ heap[up[top]].epoch < epoch
      /\ up[top + 1] \in Objects(heap) \cup {Nil}
      /\ up[top + 1] = Nil => heap[up[top]].prefix = <<>>
      /\ up[top + 1] # Nil =>
           /\ heap[up[top]].prefix # <<>>
           /\ level[up[top]] = level[up[top + 1]] + Len(heap[up[top]].prefix)
  <2>1. IsStaleAncestor(heap, level, node, epoch, top)
    BY <1>1, StaleAncestors
  <2> QED
    BY <2>1 DEF IsStaleAncestor
<1>3. up[top + 1] # Nil => heap[up[top + 1]].epoch = epoch
  <2>1. up[top + 1] # Nil => ~ (heap[up[top + 1]].epoch < epoch)
    BY <1>1 DEF IsTop, IsStale
  <2>2. up[top + 1] # Nil => heap[up[top + 1]].epoch \in 0 .. epoch /\ epoch \in Nat
    BY <1>2 DEF HeapOK, ObjectOK
  <2> QED
    BY <2>1, <2>2
<1>4. /\ k.heap = heap /\ k.level = level /\ k.bits = bits /\ k.epoch = epoch /\ k.open = open
      /\ k.up = up /\ k.top = top
  BY DEF Copying
<1> HIDE DEF up, top
<1>5. \E newLevel :
        /\ Grown(heap, level, new, newLevel, bits, epoch, open)
        /\ Len(new) = Len(heap) + 1 /\ Len(new) \in Objects(new)
        /\ new[Len(new)].epoch = epoch /\ new[Len(new)].prefix = heap[up[top]].prefix
        /\ newLevel[Len(new)] = level[up[top]]
  <2> DEFINE a == up[top]
             p == up[top + 1]
  <2>1. /\ a \in Objects(heap) /\ heap[a].epoch < epoch /\ p \in Objects(heap) \cup {Nil}
        /\ p = Nil => heap[a].prefix = <<>>
        /\ p # Nil => /\ heap[a].prefix # <<>> /\ heap[p].epoch = epoch
                      /\ level[a] = level[p] + Len(heap[a].prefix)
    BY <1>2, <1>3
  <2>2. new = CopyNode(heap, a, epoch, p)
    OBVIOUS
  <2> HIDE DEF a, p, new
  <2>3. \E newLevel :
          /\ Grown(heap, level, new, newLevel, bits, epoch, open)
          /\ Len(new) = Len(heap) + 1 /\ Len(new) \in Objects(new)
          /\ new[Len(new)].epoch = epoch /\ new[Len(new)].prefix = heap[a].prefix
          /\ newLevel[Len(new)] = level[a]
    BY <2>1, <2>2, NodeIsCopied
  <2> QED
    BY <2>3 DEF a
<1>6. FirstCopy(k) = new
  BY <1>4 DEF FirstCopy
<1> HIDE DEF new
<1> QED
  BY <1>1, <1>4, <1>5, <1>6 DEF IsCopiedTo

\* Every further copy, hung under the copy before.
LEMMA NextIsCopied ==
  ASSUME NEW heap, NEW level, NEW bits, NEW epoch, NEW open, HeapOK(heap, level, bits, epoch, open),
         NEW node \in Objects(heap), heap[node].epoch < epoch,
         NEW k, k = Copying(heap, level, bits, epoch, open, node),
         NEW n \in Nat, n + 1 <= k.top, NEW before, IsCopiedTo(k, n, before)
  PROVE  IsCopiedTo(k, n + 1, NextCopy(k, n + 1, before))
<1> DEFINE up == Upwards(heap, node)
           top == TopOf(heap, node, epoch)
           m == top - (n + 1)
           new == CopyNode(before, up[m], epoch, Len(before))
<1>1. /\ k.heap = heap /\ k.level = level /\ k.bits = bits /\ k.epoch = epoch /\ k.open = open
      /\ k.up = up /\ k.top = top
  BY DEF Copying
<1>2. top \in Nat
  BY TopExists
<1>3. m \in 0 .. top /\ m + 1 \in 0 .. top /\ m + 1 = top - n
  BY <1>1, <1>2
<1>4. /\ up[m] \in Objects(heap) /\ heap[up[m]].epoch < epoch
      /\ up[m + 1] # Nil => /\ heap[up[m]].prefix # <<>>
                            /\ level[up[m]] = level[up[m + 1]] + Len(heap[up[m]].prefix)
  <2>1. IsStaleAncestor(heap, level, node, epoch, m)
    BY <1>3, StaleAncestors
  <2> QED
    BY <2>1 DEF IsStaleAncestor
<1>5. up[m + 1] # Nil
  <2>1. IsStaleAncestor(heap, level, node, epoch, m + 1)
    BY <1>3, StaleAncestors
  <2>2. up[m + 1] \in Objects(heap)
    BY <2>1 DEF IsStaleAncestor
  <2> QED
    BY <2>2 DEF HeapOK, IsHeap, Objects, Nil
<1> HIDE DEF up, top, m
<1>6. PICK l : /\ Grown(heap, level, before, l, bits, epoch, open)
               /\ Len(before) \in Objects(before) /\ before[Len(before)].epoch = epoch
               /\ l[Len(before)] = level[up[m + 1]]
  BY <1>1, <1>3 DEF IsCopiedTo
<1> DEFINE a == up[m]
           p == Len(before)
<1>7. HeapOK(before, l, bits, epoch, open)
  BY <1>6 DEF Grown
<1>8. /\ a \in Objects(before) /\ l[a] = level[a]
      /\ before[a].epoch = heap[a].epoch /\ before[a].prefix = heap[a].prefix
  BY <1>4, <1>6, GrownObject
<1>9. p # Nil
  BY <1>6, <1>7 DEF HeapOK, IsHeap, Objects, Nil
<1>10. /\ before[a].epoch < epoch /\ before[a].prefix # <<>> /\ before[p].epoch = epoch
       /\ l[a] = l[p] + Len(before[a].prefix) /\ p \in Objects(before) \cup {Nil}
  BY <1>4, <1>5, <1>6, <1>8
<1>11. new = CopyNode(before, a, epoch, p)
  OBVIOUS
<1>12. NextCopy(k, n + 1, before) = new
  BY <1>1 DEF NextCopy, m
<1> HIDE DEF a, p, new
<1>13. PICK l2 :
         /\ Grown(before, l, new, l2, bits, epoch, open)
         /\ Len(new) = Len(before) + 1 /\ Len(new) \in Objects(new)
         /\ new[Len(new)].epoch = epoch /\ new[Len(new)].prefix = before[a].prefix
         /\ l2[Len(new)] = l[a]
  BY <1>7, <1>8, <1>9, <1>10, <1>11, NodeIsCopied
<1>14. Grown(heap, level, new, l2, bits, epoch, open)
  BY <1>6, <1>13, GrownTransitive
<1>15. /\ new[Len(new)].prefix = heap[up[top - (n + 1)]].prefix
       /\ l2[Len(new)] = level[up[top - (n + 1)]]
  BY <1>8, <1>13 DEF a, m
<1> QED
  BY <1>1, <1>12, <1>13, <1>14, <1>15 DEF IsCopiedTo

\* makeNextMetadata keeps the heap in order and ends with a copy that takes the place of
\* the node.
LEMMA MakeNextMetadataCopies ==
  ASSUME NEW heap, NEW level, NEW bits, NEW epoch, NEW open, HeapOK(heap, level, bits, epoch, open),
         NEW node \in Objects(heap), heap[node].epoch < epoch,
         NEW new, new = MakeNextMetadata(heap, node, epoch)
  PROVE  \E newLevel :
           /\ Grown(heap, level, new, newLevel, bits, epoch, open)
           /\ Len(new) \in Objects(new)
           /\ new[Len(new)].epoch = epoch /\ new[Len(new)].prefix = heap[node].prefix
           /\ newLevel[Len(new)] = level[node]
<1> DEFINE k == Copying(heap, level, bits, epoch, open, node)
           top == TopOf(heap, node, epoch)
<1>1. /\ k.heap = heap /\ k.level = level /\ k.bits = bits /\ k.epoch = epoch /\ k.open = open
      /\ k.up = Upwards(heap, node) /\ k.top = top
  BY DEF Copying
<1>2. top \in Nat
  BY TopExists
<1>3. new = CopiesFrom(k)[top]
  BY DEF MakeNextMetadata, CopiesFrom, Copies!Loop, Copies!IsLoop, Copying, FirstCopy, NextCopy,
         TopOf, IsTop, IsStale
<1> HIDE DEF k, top
<1>4. /\ CopiesFrom(k)[0] = FirstCopy(k)
      /\ \A n \in Nat : CopiesFrom(k)[n + 1] = NextCopy(k, n + 1, CopiesFrom(k)[n])
  BY Copies!LoopRounds DEF CopiesFrom
<1>5. 0 <= k.top => IsCopiedTo(k, 0, CopiesFrom(k)[0])
  BY <1>4, TopIsCopied DEF k
<1>6. ASSUME NEW n \in Nat, n <= k.top => IsCopiedTo(k, n, CopiesFrom(k)[n])
      PROVE  n + 1 <= k.top => IsCopiedTo(k, n + 1, CopiesFrom(k)[n + 1])
  <2>1. SUFFICES ASSUME n + 1 <= k.top PROVE IsCopiedTo(k, n + 1, CopiesFrom(k)[n + 1])
    OBVIOUS
  <2>2. IsCopiedTo(k, n, CopiesFrom(k)[n])
    BY <1>1, <1>2, <1>6, <2>1
  <2>3. IsCopiedTo(k, n + 1, NextCopy(k, n + 1, CopiesFrom(k)[n]))
    BY <2>1, <2>2, NextIsCopied DEF k
  <2> QED
    BY <1>4, <2>3
<1>7. \A n \in Nat : n <= k.top => IsCopiedTo(k, n, CopiesFrom(k)[n])
  BY <1>5, <1>6, Copy!Induction
<1>8. IsCopiedTo(k, top, new)
  BY <1>1, <1>2, <1>3, <1>7
<1>9. k.up[k.top - top] = node
  BY <1>1, <1>2, UpwardsSteps
<1> QED
  BY <1>1, <1>8, <1>9 DEF IsCopiedTo

\* The node that a step goes on with: of this epoch, and in the node's place.
IsOwn(heap, level, own, newLevel, bits, epoch, open, node) ==
  /\ Grown(heap, level, own.heap, newLevel, bits, epoch, open)
  /\ own.at \in Objects(own.heap)
  /\ own.heap[own.at].epoch = epoch
  /\ own.heap[own.at].prefix = heap[node].prefix
  /\ newLevel[own.at] = level[node]

\* The copy that a step makes before it writes.
LEMMA OwnCopyIsOwn ==
  ASSUME NEW heap, NEW level, NEW bits, NEW epoch, NEW open, HeapOK(heap, level, bits, epoch, open),
         NEW node \in Objects(heap), NEW own, own = OwnCopy(heap, node, epoch)
  PROVE  \E newLevel : IsOwn(heap, level, own, newLevel, bits, epoch, open, node)
<1>1. CASE heap[node].epoch < epoch
  <2> DEFINE new == MakeNextMetadata(heap, node, epoch)
  <2>1. own.heap = new /\ own.at = Len(new)
    BY <1>1 DEF OwnCopy, LastOf, At
  <2> HIDE DEF new
  <2>2. \E newLevel :
          /\ Grown(heap, level, new, newLevel, bits, epoch, open)
          /\ Len(new) \in Objects(new)
          /\ new[Len(new)].epoch = epoch /\ new[Len(new)].prefix = heap[node].prefix
          /\ newLevel[Len(new)] = level[node]
    BY <1>1, MakeNextMetadataCopies DEF new
  <2> QED
    BY <2>1, <2>2 DEF IsOwn
<1>2. CASE ~ (heap[node].epoch < epoch)
  <2>1. own.heap = heap /\ own.at = node
    BY <1>2 DEF OwnCopy, At
  <2>2. heap[node].epoch = epoch
    <3>1. heap[node].epoch \in 0 .. epoch /\ epoch \in Nat
      BY DEF HeapOK, ObjectOK
    <3> QED
      BY <1>2, <3>1
  <2>3. Grown(heap, level, heap, level, bits, epoch, open)
    BY GrownReflexive
  <2> QED
    BY <2>1, <2>2, <2>3 DEF IsOwn
<1> QED
  BY <1>1, <1>2

(***************************************************************************)
(* Hashing up to the root.                                                 *)
(***************************************************************************)

\* updateHash, with the copy it may make.
LEMMA UpdateHashGrows ==
  ASSUME NEW heap, NEW level, NEW bits, NEW epoch, NEW open, HeapOK(heap, level, bits, epoch, open),
         NEW node \in Objects(heap), NEW new, new = UpdateHash(heap, node, epoch)
  PROVE  \E newLevel : Grown(heap, level, new, newLevel, bits, epoch, open)
<1> DEFINE own == OwnCopy(heap, node, epoch)
<1>1. CASE new = heap
  BY <1>1, GrownReflexive
<1>2. CASE new # heap
  <2>1. new = SetHash(own, ComputedHash(heap, node))
    BY <1>2 DEF UpdateHash
  <2>2. \E newLevel : IsOwn(heap, level, own, newLevel, bits, epoch, open, node)
    BY OwnCopyIsOwn
  <2> HIDE DEF own
  <2>3. PICK l : IsOwn(heap, level, own, l, bits, epoch, open, node)
    BY <2>2
  <2>4. HeapOK(own.heap, l, bits, epoch, open)
    BY <2>3 DEF IsOwn, Grown
  <2>5. own.at \in Objects(own.heap) /\ own.heap[own.at].epoch = epoch
    BY <2>3 DEF IsOwn
  <2> DEFINE value == ComputedHash(heap, node)
  <2>6. new = WithHash(own.heap, own.at, value)
    BY <2>1 DEF SetHash, WithHash
  <2> HIDE DEF value
  <2>7. Grown(own.heap, l, new, l, bits, epoch, open)
    BY <2>4, <2>5, <2>6, HashAndValuesAreFree DEF Grown, SameLevels
  <2>8. Grown(heap, level, new, l, bits, epoch, open)
    BY <2>3, <2>7, GrownTransitive DEF IsOwn
  <2> QED
    BY <2>8
<1> QED
  BY <1>1, <1>2

\* A loop that starts at a leaf of a heap with these levels.
Climbing(leaf, level, bits, epoch) ==
  [ leaf |-> leaf, level |-> level, bits |-> bits, epoch |-> epoch ]

Climb == INSTANCE SequenceLemmas WITH
  LoopBody <- LAMBDA fixed, n, s : ClimbStep(s, fixed), Claim <- LAMBDA fixed, n : TRUE

\* After so many rounds the loop is at a root, or so much nearer to one.
IsClimbedTo(k, n, s) ==
  \E newLevel :
    /\ Grown(k.leaf.heap, k.level, s.heap, newLevel, k.bits, k.epoch, {})
    /\ s.at \in Objects(s.heap)
    /\ s.heap[s.at].parent = Nil \/ newLevel[s.at] + n <= k.bits

Climbed == INSTANCE SequenceLemmas WITH
  LoopBody <- LAMBDA fixed, n, s : s,
  Claim <- LAMBDA fixed, n : IsClimbedTo(fixed, n, Climb!Loop(fixed.epoch, fixed.leaf)[n])

\* One round.
LEMMA ClimbStepClimbs ==
  ASSUME NEW k, NEW n \in Nat, NEW s, IsClimbedTo(k, n, s), k.bits \in Nat,
         HeapOK(k.leaf.heap, k.level, k.bits, k.epoch, {})
  PROVE  IsClimbedTo(k, n + 1, ClimbStep(s, k.epoch))
<1> DEFINE old == k.leaf.heap
           l0 == k.level
           bits == k.bits
           epoch == k.epoch
<1>1. PICK l : /\ Grown(old, l0, s.heap, l, bits, epoch, {})
               /\ s.at \in Objects(s.heap)
               /\ s.heap[s.at].parent = Nil \/ l[s.at] + n <= bits
  BY DEF IsClimbedTo
<1>2. HeapOK(s.heap, l, bits, epoch, {}) /\ HeapOK(old, l0, bits, epoch, {})
  BY <1>1 DEF Grown
<1>3. CASE s.heap[s.at].parent = Nil
  <2>1. ClimbStep(s, epoch) = s
    BY <1>3 DEF ClimbStep
  <2> QED
    BY <1>1, <1>3, <2>1 DEF IsClimbedTo
<1>4. CASE s.heap[s.at].parent # Nil
  <2> DEFINE new == UpdateHash(s.heap, s.at, epoch)
             p == new[s.at].parent
             next == ClimbStep(s, epoch)
  <2>1. next.heap = new /\ next.at = p
    BY <1>4 DEF ClimbStep, At
  <2>2. \E newLevel : Grown(s.heap, l, new, newLevel, bits, epoch, {})
    BY <1>1, <1>2, UpdateHashGrows
  <2> HIDE DEF new, next, old, l0, bits, epoch
  <2>3. PICK l2 : Grown(s.heap, l, new, l2, bits, epoch, {})
    BY <2>2
  <2>4. /\ s.at \in Objects(new) /\ l2[s.at] = l[s.at] /\ new[s.at].prefix = s.heap[s.at].prefix
    BY <1>1, <1>2, <2>3, GrownObject
  <2>5. HeapOK(new, l2, bits, epoch, {})
    BY <2>3 DEF Grown
  <2>6. s.heap[s.at].prefix # <<>>
    BY <1>1, <1>2, <1>4 DEF HeapOK, ObjectOK, ParentOK
  <2>7. ParentOK(new, l2, s.at)
    BY <2>4, <2>5 DEF HeapOK, ObjectOK
  <2>8. p # Nil /\ p \in Objects(new)
    BY <2>4, <2>6, <2>7 DEF ParentOK
  <2>9. l2[s.at] = l2[p] + Len(new[s.at].prefix)
    BY <2>7, <2>8 DEF ParentOK
  <2>10. Len(new[s.at].prefix) \in Nat \ {0}
    <3>1. new[s.at].prefix \in Seq({0, 1}) /\ new[s.at].prefix # <<>>
      BY <2>4, <2>6, <2>7 DEF ParentOK
    <3> QED
      BY <3>1
  <2>11. l2[p] \in Nat /\ l2[s.at] \in Nat /\ bits \in Nat
    BY <2>4, <2>5, <2>8 DEF HeapOK
  <2>12. l2[p] + (n + 1) <= bits
    <3>1. l2[s.at] + n <= bits
      BY <1>1, <1>4, <2>4
    <3> HIDE DEF p
    <3> QED
      BY <2>9, <2>10, <2>11, <3>1
  <2>13. Grown(old, l0, new, l2, bits, epoch, {})
    BY <1>1, <1>2, <2>3, GrownTransitive DEF old, l0, bits, epoch
  <2> HIDE DEF p
  <2>14. IsClimbedTo(k, n + 1, next)
    BY <2>1, <2>8, <2>12, <2>13 DEF IsClimbedTo, old, l0, bits, epoch
  <2> QED
    BY <2>14 DEF next, epoch
<1> QED
  BY <1>3, <1>4

TreeFields == { "heap", "roots", "currRoot", "currEpoch", "sizesAtEpoch" }

\* The tree after the loop: the heap has grown, and its root is a root.
IsRehashed(t, leaf, level, bits, new, newLevel) ==
  /\ Grown(leaf.heap, level, new.heap, newLevel, bits, t.currEpoch, {})
  /\ DOMAIN new = TreeFields
  /\ new.roots = t.roots /\ new.currEpoch = t.currEpoch
  /\ new.currRoot \in Objects(new.heap) /\ new.heap[new.currRoot].prefix = <<>>

\* The whole loop, after which the tree has a root again.
LEMMA UpdateHashesReachesRoot ==
  ASSUME NEW tree0, DOMAIN tree0 = TreeFields,
         NEW leaf, NEW level, NEW bits, HeapOK(leaf.heap, level, bits, tree0.currEpoch, {}),
         leaf.at \in Objects(leaf.heap),
         NEW new, new = UpdateHashesFromLeaf(tree0, leaf, bits)
  PROVE  \E newLevel : IsRehashed(tree0, leaf, level, bits, new, newLevel)
<1> DEFINE epoch == tree0.currEpoch
           k == Climbing(leaf, level, bits, epoch)
           round == Climb!Loop(epoch, leaf)
           end == round[bits + 1]
           h == UpdateHash(end.heap, end.at, epoch)
<1>1. k.leaf = leaf /\ k.level = level /\ k.bits = bits /\ k.epoch = epoch
  BY DEF Climbing
<1>2. new = SetRoot(tree0, h, end.at)
  BY DEF UpdateHashesFromLeaf, RehashRoot, Climb!Loop, Climb!IsLoop
<1>3. bits \in Nat /\ level[leaf.at] \in 0 .. bits
  BY DEF HeapOK
<1> HIDE DEF epoch, k
<1>4. round[0] = leaf /\ \A n \in Nat : round[n + 1] = ClimbStep(round[n], epoch)
  BY Climb!LoopRounds
<1> HIDE DEF round, end
<1>5. IsClimbedTo(k, 0, round[0])
  <2>1. Grown(leaf.heap, level, leaf.heap, level, bits, epoch, {})
    BY GrownReflexive DEF epoch
  <2>2. level[leaf.at] + 0 <= bits
    BY <1>3
  <2> QED
    BY <1>1, <1>4, <2>1, <2>2 DEF IsClimbedTo
<1>6. ASSUME NEW n \in Nat, IsClimbedTo(k, n, round[n]) PROVE IsClimbedTo(k, n + 1, round[n + 1])
  <2>1. k.bits \in Nat /\ HeapOK(k.leaf.heap, k.level, k.bits, k.epoch, {})
    BY <1>1, <1>3 DEF epoch
  <2>2. IsClimbedTo(k, n + 1, ClimbStep(round[n], k.epoch))
    BY <1>6, <2>1, ClimbStepClimbs
  <2> QED
    BY <1>1, <1>4, <2>2
<1>7. \A n \in Nat : IsClimbedTo(k, n, round[n])
  <2>1. round = Climb!Loop(k.epoch, k.leaf)
    BY <1>1 DEF round
  <2> QED
    BY <1>5, <1>6, <2>1, Climbed!Induction
<1>8. IsClimbedTo(k, bits + 1, end)
  BY <1>3, <1>7 DEF end
<1>9. PICK l : /\ Grown(leaf.heap, level, end.heap, l, bits, epoch, {})
               /\ end.at \in Objects(end.heap)
               /\ end.heap[end.at].parent = Nil \/ l[end.at] + (bits + 1) <= bits
  BY <1>1, <1>8 DEF IsClimbedTo
<1>10. HeapOK(end.heap, l, bits, epoch, {})
  BY <1>9 DEF Grown
<1>11. end.heap[end.at].prefix = <<>>
  <2>1. l[end.at] \in Nat
    BY <1>9, <1>10 DEF HeapOK
  <2>2. end.heap[end.at].parent = Nil
    BY <1>3, <1>9, <2>1
  <2> QED
    BY <1>9, <1>10, <2>2 DEF HeapOK, ObjectOK, ParentOK
<1>12. \E newLevel : Grown(end.heap, l, h, newLevel, bits, epoch, {})
  BY <1>9, <1>10, UpdateHashGrows
<1> HIDE DEF h
<1>13. PICK l2 : Grown(end.heap, l, h, l2, bits, epoch, {})
  BY <1>12
<1>14. end.at \in Objects(h) /\ h[end.at].prefix = <<>>
  BY <1>9, <1>10, <1>11, <1>13, GrownObject
<1>15. Grown(leaf.heap, level, h, l2, bits, epoch, {})
  <2>1. HeapOK(leaf.heap, level, bits, epoch, {})
    BY DEF epoch
  <2> QED
    BY <1>9, <1>13, <2>1, GrownTransitive
<1>16. ObjectOK(h, l2, bits, epoch, end.at)
  BY <1>13, <1>14 DEF Grown, HeapOK
<1> DEFINE root == IF h[end.at].next = Nil THEN end.at ELSE h[end.at].next
<1>17. root \in Objects(h) /\ h[root].prefix = <<>>
  BY <1>14, <1>16 DEF ObjectOK
<1>18. new = [tree0 EXCEPT !.heap = h, !.currRoot = root]
  BY <1>2 DEF SetRoot
<1> HIDE DEF root
<1>19. /\ DOMAIN new = TreeFields /\ new.heap = h /\ new.currRoot = root
       /\ new.roots = tree0.roots /\ new.currEpoch = tree0.currEpoch
  BY <1>18 DEF TreeFields
<1> QED
  BY <1>15, <1>17, <1>19 DEF epoch, IsRehashed

(***************************************************************************)
(* The walk down.                                                          *)
(***************************************************************************)

\* The child that the walk looks at next.
Ahead(heap, key, s) ==
  IF s.bits = Len(key) THEN Nil ELSE Child(heap, Last(s.path), key[s.bits + 1])

\* The walk ends here.
IsStuck(heap, key, s) ==
  LET c == Ahead(heap, key, s)
  IN  c = Nil \/ ~ IsPrefix(heap[c].prefix, SubSeq(key, s.bits + 1, Len(key)))

DescendStep(heap, key, s) ==
  IF IsStuck(heap, key, s) THEN s
  ELSE [ path |-> Append(s.path, Ahead(heap, key, s)),
         bits |-> s.bits + Len(heap[Ahead(heap, key, s)].prefix) ]

Walk == INSTANCE SequenceLemmas WITH
  LoopBody <- LAMBDA fixed, n, s : DescendStep(fixed.heap, fixed.key, s),
  Claim <- LAMBDA fixed, n : TRUE

Steps(heap, root, key) ==
  Walk!Loop([heap |-> heap, key |-> key], [path |-> <<root>>, bits |-> 0])

\* What Descend defines by recursion is the list of all steps.
LEMMA DescendSteps ==
  ASSUME NEW heap, NEW root, NEW key
  PROVE  /\ Descend(heap, root, key) = Steps(heap, root, key)[Len(key)]
         /\ Steps(heap, root, key)[0] = [path |-> <<root>>, bits |-> 0]
         /\ \A n \in Nat : Steps(heap, root, key)[n + 1] =
                             DescendStep(heap, key, Steps(heap, root, key)[n])
<1> DEFINE fixed == [heap |-> heap, key |-> key]
           first == [path |-> <<root>>, bits |-> 0]
<1>1. fixed.heap = heap /\ fixed.key = key
  OBVIOUS
<1>2. Descend(heap, root, key) = Steps(heap, root, key)[Len(key)]
  BY DEF Descend, Steps, Walk!Loop, Walk!IsLoop, DescendStep, IsStuck, Ahead
<1> HIDE DEF fixed, first
<1>3. /\ Walk!Loop(fixed, first)[0] = first
      /\ \A n \in Nat :
           Walk!Loop(fixed, first)[n + 1] = DescendStep(heap, key, Walk!Loop(fixed, first)[n])
  BY <1>1, Walk!LoopRounds
<1>4. Steps(heap, root, key) = Walk!Loop(fixed, first)
  BY DEF Steps, fixed, first
<1> QED
  BY <1>2, <1>3, <1>4 DEF first

\* Where the walk is after so many steps: its bits are the level of the node it is at,
\* which is no newer than the root, and it has used a bit in every step or is stuck.
IsOnWay(heap, level, root, key, n, s) ==
  /\ s.path \in Seq(Objects(heap)) /\ s.path # <<>>
  /\ s.bits = level[Last(s.path)]
  /\ heap[Last(s.path)].epoch <= heap[root].epoch
  /\ n <= s.bits \/ IsStuck(heap, key, s)

Way == INSTANCE SequenceLemmas WITH
  LoopBody <- LAMBDA fixed, n, s : s,
  Claim <- LAMBDA fixed, n : IsOnWay(fixed.heap, fixed.level, fixed.root, fixed.key, n,
                                     Steps(fixed.heap, fixed.root, fixed.key)[n])

\* The end of a path.
LEMMA LastOfPath ==
  ASSUME NEW S, NEW path \in Seq(S), path # <<>>
  PROVE  Last(path) \in S
<1>1. Len(path) \in 1 .. Len(path)
  OBVIOUS
<1> QED
  BY <1>1 DEF Last

\* A child that the walk enters.
LEMMA DescendStepDescends ==
  ASSUME NEW heap, NEW level, NEW bits, NEW epoch, NEW open, HeapOK(heap, level, bits, epoch, open),
         NEW root \in Objects(heap), NEW key \in Seq({0, 1}), Len(key) = bits,
         NEW n \in Nat, NEW s, IsOnWay(heap, level, root, key, n, s)
  PROVE  IsOnWay(heap, level, root, key, n + 1, DescendStep(heap, key, s))
<1> DEFINE at == Last(s.path)
           c == Ahead(heap, key, s)
           next == DescendStep(heap, key, s)
<1>1. at \in Objects(heap) /\ s.path \in Seq(Objects(heap))
  BY LastOfPath DEF IsOnWay
<1>2. s.bits \in 0 .. bits /\ bits \in Nat /\ s.bits = level[at]
  BY <1>1 DEF IsOnWay, HeapOK
<1>3. CASE IsStuck(heap, key, s)
  BY <1>3 DEF DescendStep, IsOnWay
<1>4. CASE ~ IsStuck(heap, key, s)
  <2>1. c # Nil /\ s.bits # bits /\ c = Child(heap, at, key[s.bits + 1])
    BY <1>4 DEF IsStuck, Ahead
  <2>2. key[s.bits + 1] \in {0, 1}
    <3>1. s.bits + 1 \in 1 .. Len(key)
      BY <1>2, <2>1
    <3> QED
      BY <3>1
  <2>3. ChildOK(heap, level, at, key[s.bits + 1])
    BY <1>1, <2>2 DEF HeapOK, ObjectOK
  <2>4. /\ c \in Objects(heap) /\ heap[c].epoch <= heap[at].epoch /\ heap[c].parent # Nil
        /\ level[c] = level[at] + Len(heap[c].prefix)
    BY <2>1, <2>3 DEF ChildOK
  <2>5. Len(heap[c].prefix) \in Nat \ {0}
    <3>1. ParentOK(heap, level, c)
      BY <2>4 DEF HeapOK, ObjectOK
    <3>2. heap[c].prefix \in Seq({0, 1}) /\ heap[c].prefix # <<>>
      BY <2>4, <3>1 DEF ParentOK
    <3> QED
      BY <3>2
  <2>6. next.path = Append(s.path, c) /\ next.bits = s.bits + Len(heap[c].prefix)
    BY <1>4 DEF DescendStep
  <2> HIDE DEF at, c, next
  <2>7. next.path \in Seq(Objects(heap)) /\ next.path # <<>> /\ Last(next.path) = c
    BY <1>1, <2>4, <2>6, LastOfAppend
  <2>8. next.bits = level[c]
    BY <1>2, <2>4, <2>6
  <2>9. heap[c].epoch <= heap[root].epoch
    <3>1. heap[at].epoch <= heap[root].epoch
      BY DEF IsOnWay, at
    <3>2. heap[at].epoch \in Nat /\ heap[root].epoch \in Nat /\ heap[c].epoch \in Nat
      BY <1>1, <2>4 DEF HeapOK, ObjectOK
    <3> QED
      BY <2>4, <3>1, <3>2
  <2>10. n + 1 <= next.bits
    <3>1. n <= s.bits
      BY <1>4 DEF IsOnWay
    <3> QED
      BY <1>2, <2>5, <2>6, <3>1
  <2>11. IsOnWay(heap, level, root, key, n + 1, next)
    BY <2>7, <2>8, <2>9, <2>10 DEF IsOnWay
  <2> QED
    BY <2>11 DEF next
<1> QED
  BY <1>3, <1>4

\* Every step of a walk from a root.
LEMMA StepsAreOnWay ==
  ASSUME NEW heap, NEW level, NEW bits, NEW epoch, NEW open, HeapOK(heap, level, bits, epoch, open),
         NEW root \in Objects(heap), heap[root].prefix = <<>>,
         NEW key \in Seq({0, 1}), Len(key) = bits
  PROVE  \A n \in Nat : IsOnWay(heap, level, root, key, n, Steps(heap, root, key)[n])
<1> DEFINE fixed == [heap |-> heap, level |-> level, root |-> root, key |-> key]
           step == Steps(heap, root, key)
<1>1. /\ fixed.heap = heap /\ fixed.level = level /\ fixed.root = root /\ fixed.key = key
  OBVIOUS
<1> HIDE DEF fixed
<1>2. /\ step[0] = [path |-> <<root>>, bits |-> 0]
      /\ \A n \in Nat : step[n + 1] = DescendStep(heap, key, step[n])
  BY DescendSteps
<1>3. IsOnWay(heap, level, root, key, 0, step[0])
  <2>1. step[0].path = <<root>> /\ step[0].bits = 0
    BY <1>2
  <2>2. <<root>> \in Seq(Objects(heap)) /\ <<root>> # <<>> /\ Last(<<root>>) = root
    BY DEF Last
  <2>3. level[root] = 0
    BY RootLevel
  <2>4. heap[root].epoch <= heap[root].epoch
    BY DEF HeapOK, ObjectOK
  <2> HIDE DEF step
  <2> QED
    BY <2>1, <2>2, <2>3, <2>4 DEF IsOnWay
<1>4. ASSUME NEW n \in Nat, IsOnWay(heap, level, root, key, n, step[n])
      PROVE  IsOnWay(heap, level, root, key, n + 1, step[n + 1])
  <2> HIDE DEF step
  <2>1. IsOnWay(heap, level, root, key, n + 1, DescendStep(heap, key, step[n]))
    BY <1>4, DescendStepDescends
  <2> QED
    BY <1>2, <2>1
<1> QED
  BY <1>1, <1>3, <1>4, Way!Induction

\* The end of a walk: at a leaf, or where the key leaves the tree.
LEMMA DescendEnds ==
  ASSUME NEW heap, NEW level, NEW bits, NEW epoch, NEW open, HeapOK(heap, level, bits, epoch, open),
         NEW root \in Objects(heap), heap[root].prefix = <<>>,
         NEW key \in Seq({0, 1}), Len(key) = bits,
         NEW way, way = Descend(heap, root, key)
  PROVE  /\ Last(way.path) \in Objects(heap)
         /\ way.bits = level[Last(way.path)] /\ way.bits \in 0 .. bits
         /\ heap[Last(way.path)].epoch <= heap[root].epoch
         /\ way.bits # bits => IsStuck(heap, key, way)
<1>1. bits \in Nat
  BY DEF HeapOK
<1>2. IsOnWay(heap, level, root, key, bits, way)
  <2>1. IsOnWay(heap, level, root, key, bits, Steps(heap, root, key)[bits])
    BY <1>1, StepsAreOnWay
  <2>2. way = Steps(heap, root, key)[Len(key)]
    BY DescendSteps, Zenon
  <2> QED
    BY <2>1, <2>2
<1>3. Last(way.path) \in Objects(heap)
  BY <1>2, LastOfPath DEF IsOnWay
<1>4. way.bits = level[Last(way.path)] /\ way.bits \in 0 .. bits
  BY <1>2, <1>3 DEF IsOnWay, HeapOK
<1> QED
  BY <1>1, <1>2, <1>3, <1>4 DEF IsOnWay

Same == INSTANCE SequenceLemmas WITH
  LoopBody <- LAMBDA fixed, n, s : s,
  Claim <- LAMBDA fixed, n : Steps(fixed.new, fixed.root, fixed.key)[n]
                             = Steps(fixed.heap, fixed.root, fixed.key)[n]

\* A walk from a root of an earlier epoch is the same after any step.
LEMMA DescendIsFrozen ==
  ASSUME NEW heap, NEW level, NEW bits, NEW epoch, NEW open, HeapOK(heap, level, bits, epoch, open),
         NEW root \in Objects(heap), heap[root].prefix = <<>>, heap[root].epoch < epoch,
         NEW key \in Seq({0, 1}), Len(key) = bits,
         NEW new, Kept(heap, new, epoch)
  PROVE  Descend(new, root, key) = Descend(heap, root, key)
<1> DEFINE fixed == [heap |-> heap, new |-> new, root |-> root, key |-> key]
           old == Steps(heap, root, key)
           step == Steps(new, root, key)
<1>1. fixed.heap = heap /\ fixed.new = new /\ fixed.root = root /\ fixed.key = key
  OBVIOUS
<1> HIDE DEF fixed
<1>2. /\ old[0] = [path |-> <<root>>, bits |-> 0]
      /\ step[0] = [path |-> <<root>>, bits |-> 0]
      /\ \A n \in Nat : old[n + 1] = DescendStep(heap, key, old[n])
      /\ \A n \in Nat : step[n + 1] = DescendStep(new, key, step[n])
  BY DescendSteps
<1>3. \A n \in Nat : IsOnWay(heap, level, root, key, n, old[n])
  BY StepsAreOnWay
<1>4. Len(key) \in Nat /\ Descend(new, root, key) = step[Len(key)]
      /\ Descend(heap, root, key) = old[Len(key)]
  <2>1. Descend(new, root, key) = step[Len(key)] /\ Descend(heap, root, key) = old[Len(key)]
    BY DescendSteps, Zenon
  <2> QED
    BY <2>1
<1> HIDE DEF old, step
<1>5. ASSUME NEW n \in Nat, step[n] = old[n] PROVE step[n + 1] = old[n + 1]
  <2> DEFINE s == old[n]
             at == Last(s.path)
  <2>1. IsOnWay(heap, level, root, key, n, s)
    BY <1>3
  <2>2. at \in Objects(heap) /\ s.bits \in 0 .. bits /\ bits \in Nat
    BY <2>1, LastOfPath DEF IsOnWay, HeapOK
  <2>3. heap[at].epoch < epoch
    <3>1. heap[at].epoch <= heap[root].epoch
      BY <2>1 DEF IsOnWay
    <3>2. heap[at].epoch \in Nat /\ heap[root].epoch \in Nat /\ epoch \in Nat
      BY <2>2 DEF HeapOK, ObjectOK
    <3> QED
      BY <3>1, <3>2
  <2>4. \A bit \in {0, 1} : Child(new, at, bit) = Child(heap, at, bit)
    BY <2>2, <2>3 DEF Kept, Child
  <2>5. s.bits # Len(key) => key[s.bits + 1] \in {0, 1}
    <3>1. s.bits # Len(key) => s.bits + 1 \in 1 .. Len(key)
      BY <2>2
    <3> QED
      BY <3>1
  <2>6. Ahead(new, key, s) = Ahead(heap, key, s)
    BY <2>4, <2>5 DEF Ahead
  <2>7. Ahead(heap, key, s) \in Objects(heap) \cup {Nil}
    <3>1. \A bit \in {0, 1} : Child(heap, at, bit) \in Objects(heap) \cup {Nil}
      BY <2>2 DEF HeapOK, ObjectOK, ChildOK
    <3> QED
      BY <2>5, <3>1 DEF Ahead
  <2>8. Ahead(heap, key, s) # Nil =>
          new[Ahead(heap, key, s)].prefix = heap[Ahead(heap, key, s)].prefix
    BY <2>7 DEF Kept
  <2> HIDE DEF s, at
  <2>9. DescendStep(new, key, s) = DescendStep(heap, key, s)
    BY <2>6, <2>8 DEF DescendStep, IsStuck
  <2> QED
    BY <1>2, <1>5, <2>9 DEF s
<1>6. \A n \in Nat : step[n] = old[n]
  <2>1. step = Steps(fixed.new, fixed.root, fixed.key) /\ old = Steps(fixed.heap, fixed.root, fixed.key)
    BY <1>1 DEF step, old
  <2>2. step[0] = old[0]
    BY <1>2
  <2> QED
    BY <1>5, <2>1, <2>2, Same!Induction
<1> QED
  BY <1>4, <1>6

(***************************************************************************)
(* Inserting.                                                              *)
(***************************************************************************)

\* A new node.
LEMMA MetadataFields ==
  ASSUME NEW epoch, NEW prefix, NEW values, NEW parent,
         NEW m, m = Metadata(epoch, prefix, values, parent)
  PROVE  /\ DOMAIN m = Fields
         /\ m.epoch = epoch /\ m.prefix = prefix /\ m.values = values /\ m.parent = parent
         /\ m.next = Nil /\ m.leftChild = Nil /\ m.rightChild = Nil
  BY DEF Metadata, Fields

\* Below this node the prefix spells the rest of a key.
SpellsRest(level, bits, node, prefix) == level[node] + Len(prefix) = bits

\* A leaf is put under a node of this epoch.
LEMMA AddChildGrows ==
  ASSUME NEW own, NEW level, NEW bits, NEW epoch, NEW open,
         HeapOK(own.heap, level, bits, epoch, open),
         own.at \in Objects(own.heap), own.heap[own.at].epoch = epoch,
         NEW prev \in Objects(own.heap), level[prev] = level[own.at],
         NEW prefix \in Seq({0, 1}), prefix # <<>>, SpellsRest(level, bits, prev, prefix),
         NEW value, NEW put, put = AddChild(own, prev, prefix, value, epoch)
  PROVE  \E newLevel :
           /\ Grown(own.heap, level, put.heap, newLevel, bits, epoch, open)
           /\ put.at \in Objects(put.heap)
           /\ Child(put.heap, own.at, prefix[1]) # Nil
<1> DEFINE heap == own.heap
           at == own.at
           object == Metadata(epoch, prefix, <<value>>, prev)
           md == Len(heap) + 1
           h1 == Append(heap, object)
           l1 == Leveled(heap, level, bits)
           h2 == SetChild(h1, at, prefix[1], md)
<1>1. put.heap = h2 /\ put.at = md
  BY DEF AddChild, At
<1>2. /\ DOMAIN object = Fields
      /\ object.epoch = epoch /\ object.prefix = prefix /\ object.parent = prev
      /\ object.next = Nil /\ object.leftChild = Nil /\ object.rightChild = Nil
  BY MetadataFields
<1> HIDE DEF object, h2
<1>3. HeapOK(heap, level, bits, epoch, open) /\ bits \in Nat /\ Len(heap) \in Nat /\ prev # Nil
  BY DEF HeapOK, IsHeap, Objects, Nil
<1>4. Fits(heap, level, bits, epoch, object, bits)
  <2>1. bits \in 0 .. bits
    BY <1>3
  <2>2. \A bit \in {0, 1} : ChildOf(object, bit) = Nil
    BY <1>2 DEF ChildOf
  <2> QED
    BY <1>2, <1>3, <2>1, <2>2 DEF Fits, SpellsRest
<1>5. Shaped(object, bits, bits)
  BY <1>2 DEF Shaped
<1>6. /\ Grown(heap, level, h1, l1, bits, epoch, open)
      /\ Len(h1) = md /\ md \in Objects(h1) /\ h1[md] = object /\ l1[md] = bits
  <2>1. Appended(heap, h1, object)
    BY DEF Appended
  <2>2. l1 = Leveled(heap, level, bits)
    OBVIOUS
  <2> HIDE DEF h1, l1
  <2> QED
    BY <1>3, <1>4, <1>5, <2>1, <2>2, ObjectIsAdded
<1> HIDE DEF h1, l1
<1>7. /\ at \in Objects(h1) /\ l1[at] = level[at] /\ h1[at].epoch = epoch
  BY <1>3, <1>6, GrownObject
<1>8. HeapOK(h1, l1, bits, epoch, open)
  BY <1>6 DEF Grown
<1> DEFINE bit == prefix[1]
<1>9. bit \in {0, 1}
  <2>1. 1 \in 1 .. Len(prefix)
    OBVIOUS
  <2> QED
    BY <2>1
<1>10. h1[md].prefix[1] = bit /\ h1[md].prefix # <<>> /\ l1[md] = l1[at] + Len(h1[md].prefix)
  BY <1>2, <1>6, <1>7 DEF SpellsRest
<1>11. h2 = SetChild(h1, at, bit, md)
  BY DEF h2
<1> HIDE DEF bit, md, at
<1>12. /\ HeapOK(h2, l1, bits, epoch, open) /\ Kept(h1, h2, epoch) /\ Len(h2) = Len(h1)
       /\ Child(h2, at, bit) = md
  BY <1>6, <1>7, <1>8, <1>9, <1>10, <1>11, ChildIsFree
<1>13. Grown(h1, l1, h2, l1, bits, epoch, open)
  BY <1>12 DEF Grown, SameLevels
<1>14. Grown(heap, level, h2, l1, bits, epoch, open)
  BY <1>3, <1>6, <1>13, GrownTransitive
<1>15. md \in Objects(h2) /\ md # Nil
  <2>1. md # Nil
    BY <1>3 DEF md, Nil
  <2> QED
    BY <1>6, <1>12, <2>1 DEF Objects
<1> QED
  BY <1>1, <1>12, <1>14, <1>15 DEF bit, at

\* insert into a nil child: the walk ended at a root, or in an unfinished heap.
LEMMA InsertMissingGrows ==
  ASSUME NEW tree0, NEW level, NEW bits, HeapOK(tree0.heap, level, bits, tree0.currEpoch, {}),
         NEW prev \in Objects(tree0.heap), NEW prefix \in Seq({0, 1}), prefix # <<>>,
         SpellsRest(level, bits, prev, prefix), NEW value,
         NEW put, put = InsertMissing(tree0, prev, prefix, value)
  PROVE  \E newLevel : /\ Grown(tree0.heap, level, put.heap, newLevel, bits, tree0.currEpoch, {})
                       /\ put.at \in Objects(put.heap)
<1> DEFINE heap == tree0.heap
           epoch == tree0.currEpoch
           own == OwnCopy(heap, prev, epoch)
<1>1. put = AddChild(own, prev, prefix, value, epoch)
  BY DEF InsertMissing
<1>2. HeapOK(heap, level, bits, epoch, {})
  OBVIOUS
<1>3. \E newLevel : IsOwn(heap, level, own, newLevel, bits, epoch, {}, prev)
  BY <1>2, OwnCopyIsOwn
<1> HIDE DEF heap, epoch, own
<1>4. PICK l : IsOwn(heap, level, own, l, bits, epoch, {}, prev)
  BY <1>3
<1>5. /\ HeapOK(own.heap, l, bits, epoch, {}) /\ Grown(heap, level, own.heap, l, bits, epoch, {})
      /\ own.at \in Objects(own.heap) /\ own.heap[own.at].epoch = epoch /\ l[own.at] = level[prev]
  BY <1>4 DEF IsOwn, Grown
<1>6. prev \in Objects(own.heap) /\ l[prev] = level[prev]
  BY <1>2, <1>5, GrownObject DEF heap
<1>7. l[prev] = l[own.at] /\ SpellsRest(l, bits, prev, prefix)
  BY <1>5, <1>6 DEF SpellsRest
<1>8. PICK l2 : /\ Grown(own.heap, l, put.heap, l2, bits, epoch, {})
                /\ put.at \in Objects(put.heap)
  BY <1>1, <1>5, <1>6, <1>7, AddChildGrows
<1>9. Grown(heap, level, put.heap, l2, bits, epoch, {})
  BY <1>2, <1>5, <1>8, GrownTransitive
<1> QED
  BY <1>8, <1>9 DEF heap, epoch

\* A node of this epoch takes a child over, or its newest copy.
LEMMA AdoptGrows ==
  ASSUME NEW heap, NEW level, NEW bits, NEW epoch, NEW open, HeapOK(heap, level, bits, epoch, open),
         NEW bottom \in Objects(heap), heap[bottom].epoch = epoch,
         NEW child \in Objects(heap) \cup {Nil},
         child # Nil => heap[child].prefix # <<>> /\ level[child] = level[bottom] + Len(heap[child].prefix),
         NEW new, new = Adopt(heap, child, bottom, epoch)
  PROVE  \E newLevel : Grown(heap, level, new, newLevel, bits, epoch, open)
<1>1. CASE child = Nil
  BY <1>1, GrownReflexive DEF Adopt
<1>2. CASE child # Nil
  <2> DEFINE own == OwnCopy(heap, child, epoch)
             bit == heap[child].prefix[1]
             h1 == SetChild(own.heap, bottom, bit, own.at)
  <2>1. new = SetParent(h1, own.at, bottom)
    BY <1>2 DEF Adopt, Hang
  <2>2. child \in Objects(heap) /\ heap[child].prefix # <<>>
        /\ level[child] = level[bottom] + Len(heap[child].prefix)
    BY <1>2
  <2>3. \E newLevel : IsOwn(heap, level, own, newLevel, bits, epoch, open, child)
    BY <2>2, OwnCopyIsOwn
  <2>4. bit \in {0, 1}
    <3>1. heap[child].prefix \in Seq({0, 1})
      BY <2>2 DEF HeapOK, ObjectOK, ParentOK
    <3>2. 1 \in 1 .. Len(heap[child].prefix)
      BY <2>2, <3>1
    <3> QED
      BY <3>1, <3>2
  <2>5. h1 = SetChild(own.heap, bottom, bit, own.at)
    OBVIOUS
  <2> HIDE DEF own, h1
  <2>6. PICK l : IsOwn(heap, level, own, l, bits, epoch, open, child)
    BY <2>3
  <2> DEFINE at == own.at
             h0 == own.heap
  <2>7. /\ Grown(heap, level, h0, l, bits, epoch, open) /\ HeapOK(h0, l, bits, epoch, open)
        /\ at \in Objects(h0) /\ h0[at].prefix = heap[child].prefix /\ l[at] = level[child]
    BY <2>6 DEF IsOwn, Grown
  <2>8. bottom \in Objects(h0) /\ l[bottom] = level[bottom] /\ h0[bottom].epoch = epoch
    BY <2>7, GrownObject
  <2>9. /\ h0[at].prefix # <<>> /\ h0[at].prefix[1] = bit
        /\ l[at] = l[bottom] + Len(h0[at].prefix)
    BY <2>2, <2>7, <2>8
  <2>10. h1 = SetChild(h0, bottom, bit, at) /\ new = SetParent(h1, at, bottom)
    BY <2>1, <2>5
  <2> HIDE DEF at, h0, bit
  <2>11. HeapOK(h1, l, bits, epoch, open) /\ Kept(h0, h1, epoch) /\ Len(h1) = Len(h0)
    BY <2>4, <2>7, <2>8, <2>9, <2>10, ChildIsFree
  <2>12. Grown(h0, l, h1, l, bits, epoch, open)
    BY <2>11 DEF Grown, SameLevels
  <2>13. /\ at \in Objects(h1) /\ bottom \in Objects(h1) /\ h1[at].prefix = h0[at].prefix
    BY <2>7, <2>8, <2>12, GrownObject
  <2>14. HeapOK(new, l, bits, epoch, open) /\ Kept(h1, new, epoch)
    BY <2>9, <2>10, <2>11, <2>13, ParentIsFree
  <2>15. Grown(h1, l, new, l, bits, epoch, open)
    BY <2>14 DEF Grown, SameLevels
  <2>16. Grown(heap, level, h1, l, bits, epoch, open)
    BY <2>7, <2>12, GrownTransitive
  <2>17. Grown(heap, level, new, l, bits, epoch, open)
    BY <2>15, <2>16, GrownTransitive
  <2> QED
    BY <2>17
<1> QED
  BY <1>1, <1>2

-----------------------------------------------------------------------------
(* Splitting.                                                              *)

\* The two halves of a label.
LEMMA Halves ==
  ASSUME NEW label \in Seq({0, 1}), NEW idx \in 1 .. Len(label) - 1
  PROVE  LET front == SubSeq(label, 1, idx)
             back  == SubSeq(label, idx + 1, Len(label))
         IN  /\ front \in Seq({0, 1}) /\ Len(front) = idx /\ front # <<>> /\ front[1] = label[1]
             /\ back \in Seq({0, 1}) /\ Len(back) = Len(label) - idx /\ back # <<>>
             /\ back[1] = label[idx + 1]
<1>1. Len(label) \in Nat /\ idx \in Nat \ {0} /\ idx + 1 \in 1 .. Len(label)
  OBVIOUS
<1>2. /\ SubSeq(label, 1, idx) \in Seq({0, 1}) /\ Len(SubSeq(label, 1, idx)) = idx
      /\ SubSeq(label, 1, idx)[1] = label[1]
  BY <1>1
<1>3. /\ SubSeq(label, idx + 1, Len(label)) \in Seq({0, 1})
      /\ Len(SubSeq(label, idx + 1, Len(label))) = Len(label) - idx
      /\ SubSeq(label, idx + 1, Len(label))[1] = label[idx + 1]
  BY <1>1
<1>4. \A s \in Seq({0, 1}) : Len(s) # 0 => s # <<>>
  OBVIOUS
<1>5. SubSeq(label, 1, idx) # <<>> /\ SubSeq(label, idx + 1, Len(label)) # <<>>
  <2>1. idx # 0 /\ Len(label) - idx # 0
    BY <1>1
  <2> DEFINE front == SubSeq(label, 1, idx)
             back == SubSeq(label, idx + 1, Len(label))
  <2>2. /\ front \in Seq({0, 1}) /\ Len(front) # 0
        /\ back \in Seq({0, 1}) /\ Len(back) # 0
    BY <1>2, <1>3, <2>1
  <2> HIDE DEF front, back
  <2>3. front # <<>> /\ back # <<>>
    BY <1>4, <2>2
  <2> QED
    BY <2>3 DEF front, back
<1> QED
  BY <1>2, <1>3, <1>5, Zenon

\* Two objects are added at once.
LEMMA AppendTwo ==
  ASSUME NEW S, NEW heap \in Seq(S), NEW x \in S, NEW y \in S
  PROVE  heap \o << x, y >> = Append(Append(heap, x), y)
  OBVIOUS

\* A node becomes the child of a node of this epoch.
LEMMA HangGrows ==
  ASSUME NEW heap, NEW level, NEW bits, NEW epoch, NEW open, HeapOK(heap, level, bits, epoch, open),
         NEW a \in Objects(heap), NEW p \in Objects(heap), heap[p].epoch = epoch,
         NEW bit \in {0, 1}, heap[a].prefix[1] = bit, heap[a].prefix # <<>>,
         level[a] = level[p] + Len(heap[a].prefix),
         NEW h1, h1 = SetChild(heap, p, bit, a), NEW new, new = SetParent(h1, a, p)
  PROVE  Grown(heap, level, new, level, bits, epoch, open)
<1>1. HeapOK(h1, level, bits, epoch, open) /\ Kept(heap, h1, epoch) /\ Len(h1) = Len(heap)
  BY ChildIsFree
<1>2. Grown(heap, level, h1, level, bits, epoch, open)
  BY <1>1 DEF Grown, SameLevels
<1>3. a \in Objects(h1) /\ p \in Objects(h1) /\ h1[a].prefix = heap[a].prefix
  BY <1>2, GrownObject
<1>4. HeapOK(new, level, bits, epoch, open) /\ Kept(h1, new, epoch)
  BY <1>1, <1>3, ParentIsFree
<1>5. Grown(h1, level, new, level, bits, epoch, open)
  BY <1>4 DEF Grown, SameLevels
<1> QED
  BY <1>2, <1>5, GrownTransitive

TopObject(heap, node, idx, epoch) ==
  Metadata(epoch, SubSeq(heap[node].prefix, 1, idx), <<>>, heap[node].parent)

BottomObject(heap, node, idx, epoch) ==
  [Metadata(epoch, SubSeq(heap[node].prefix, idx + 1, Len(heap[node].prefix)),
            heap[node].values, Len(heap) + 1) EXCEPT
     !.leftChild = heap[node].leftChild, !.rightChild = heap[node].rightChild]

\* What the new nodes of a split are.
IsSplit(heap, level, new, newLevel, node, idx, epoch) ==
  LET top    == Len(heap) + 1
      bottom == Len(heap) + 2
      label  == heap[node].prefix
  IN  /\ top \in Objects(new) /\ bottom \in Objects(new)
      /\ new[top].epoch = epoch /\ new[bottom].epoch = epoch
      /\ new[top].prefix = SubSeq(label, 1, idx)
      /\ new[bottom].prefix = SubSeq(label, idx + 1, Len(label))
      /\ newLevel[top] = level[heap[node].parent] + idx
      /\ newLevel[bottom] = level[node]

\* The node above the split is known, and its label ends where it does.
LEMMA LabelOfSplit ==
  ASSUME NEW heap, NEW level, NEW bits, NEW epoch, NEW open, HeapOK(heap, level, bits, epoch, open),
         NEW node \in Objects(heap), NEW idx \in 1 .. Len(heap[node].prefix) - 1
  PROVE  /\ heap[node].prefix \in Seq({0, 1}) /\ heap[node].parent \in Objects(heap)
         /\ level[heap[node].parent] \in 0 .. bits /\ level[node] \in 0 .. bits
         /\ level[node] = level[heap[node].parent] + Len(heap[node].prefix)
         /\ heap[node].parent # Nil
<1>1. ParentOK(heap, level, node) /\ level \in [Objects(heap) -> 0 .. bits]
  BY DEF HeapOK, ObjectOK
<1>2. heap[node].prefix # <<>>
  BY <1>1 DEF ParentOK
<1> QED
  BY <1>1, <1>2 DEF ParentOK

AppendedTwo(heap, new, x, y) == new = heap \o << x, y >>

\* The two new nodes of a split.
LEMMA SplitIsAdded ==
  ASSUME NEW heap, NEW level, NEW bits, NEW epoch, HeapOK(heap, level, bits, epoch, {}),
         NEW node \in Objects(heap), NEW idx \in 1 .. Len(heap[node].prefix) - 1,
         NEW new, AppendedTwo(heap, new, TopObject(heap, node, idx, epoch),
                                         BottomObject(heap, node, idx, epoch))
  PROVE  \E newLevel :
           /\ Grown(heap, level, new, newLevel, bits, epoch, {Len(heap) + 1})
           /\ IsSplit(heap, level, new, newLevel, node, idx, epoch)
<1> DEFINE label == heap[node].prefix
           parent == heap[node].parent
           top == TopObject(heap, node, idx, epoch)
           bottom == BottomObject(heap, node, idx, epoch)
           t == Len(heap) + 1
           b == Len(heap) + 2
           n == level[parent] + idx
           h1 == Append(heap, top)
           l1 == Leveled(heap, level, n)
           h2 == Append(h1, bottom)
           l2 == Leveled(h1, l1, level[node])
<1>1. new = h2
  <2> DEFINE S == ToSet(heap) \cup {top, bottom}
  <2>1. heap \in Seq(S) /\ top \in S /\ bottom \in S
    BY DEF HeapOK, IsHeap
  <2> HIDE DEF S, top, bottom
  <2>2. heap \o << top, bottom >> = Append(Append(heap, top), bottom)
    BY <2>1, AppendTwo
  <2>3. new = heap \o << top, bottom >>
    BY DEF AppendedTwo, top, bottom
  <2> QED
    BY <2>2, <2>3
<1>2. /\ IsHeap(heap) /\ Len(heap) \in Nat /\ bits \in Nat /\ idx \in Nat \ {0}
      /\ label \in Seq({0, 1}) /\ parent \in Objects(heap) /\ parent # Nil
      /\ level[parent] \in Nat /\ level[node] \in 0 .. bits
      /\ level[node] = level[parent] + Len(label) /\ idx < Len(label)
  <2>1. IsHeap(heap) /\ Len(heap) \in Nat /\ bits \in Nat
    BY DEF HeapOK, IsHeap
  <2>2. /\ label \in Seq({0, 1}) /\ parent \in Objects(heap)
        /\ level[parent] \in 0 .. bits /\ level[node] \in 0 .. bits
        /\ level[node] = level[parent] + Len(label)
        /\ parent # Nil
    BY LabelOfSplit
  <2>3. idx \in 1 .. Len(label) - 1
    OBVIOUS
  <2> HIDE DEF label, parent
  <2> QED
    BY <2>1, <2>2, <2>3
<1>3. /\ SubSeq(label, 1, idx) \in Seq({0, 1}) /\ Len(SubSeq(label, 1, idx)) = idx
      /\ SubSeq(label, 1, idx) # <<>>
      /\ SubSeq(label, idx + 1, Len(label)) \in Seq({0, 1})
      /\ Len(SubSeq(label, idx + 1, Len(label))) = Len(label) - idx
      /\ SubSeq(label, idx + 1, Len(label)) # <<>>
  <2> HIDE DEF label
  <2>1. idx \in 1 .. Len(label) - 1
    BY DEF label
  <2> QED
    BY <1>2, <2>1, Halves
<1>4. /\ DOMAIN top = Fields
      /\ top.epoch = epoch /\ top.prefix = SubSeq(label, 1, idx) /\ top.parent = parent
      /\ top.next = Nil /\ top.leftChild = Nil /\ top.rightChild = Nil
  BY DEF TopObject, Metadata, Fields
<1>5. /\ DOMAIN bottom = Fields
      /\ bottom.epoch = epoch /\ bottom.prefix = SubSeq(label, idx + 1, Len(label))
      /\ bottom.parent = t /\ bottom.next = Nil
      /\ bottom.leftChild = heap[node].leftChild /\ bottom.rightChild = heap[node].rightChild
  BY DEF BottomObject, Metadata, Fields
<1> HIDE DEF top, bottom, label, parent
<1>6. Fits(heap, level, bits, epoch, top, n)
  <2>1. n \in 0 .. bits
    BY <1>2
  <2>2. \A bit \in {0, 1} : ChildOf(top, bit) = Nil
    BY <1>4 DEF ChildOf
  <2> QED
    BY <1>2, <1>3, <1>4, <2>1, <2>2 DEF Fits
<1>7. /\ Grown(heap, level, h1, l1, bits, epoch, {t})
      /\ Len(h1) = t /\ t \in Objects(h1) /\ h1[t] = top /\ l1[t] = n
      /\ \A a \in Objects(heap) : h1[a] = heap[a]
  <2>1. Appended(heap, h1, top)
    BY DEF Appended
  <2>2. l1 = Leveled(heap, level, n)
    OBVIOUS
  <2> DEFINE none == {}
             open == {t}
  <2>3. HeapOK(heap, level, bits, epoch, none)
    OBVIOUS
  <2>4. none \subseteq open /\ open \subseteq none \cup {Len(heap) + 1} /\ Len(heap) + 1 \in open
    OBVIOUS
  <2> HIDE DEF h1, l1, n, none, open
  <2>5. /\ Grown(heap, level, h1, l1, bits, epoch, open)
        /\ Len(h1) = Len(heap) + 1 /\ Len(heap) + 1 \in Objects(h1)
        /\ h1[Len(heap) + 1] = top /\ l1[Len(heap) + 1] = n
        /\ \A a \in Objects(heap) : h1[a] = heap[a]
    BY <1>6, <2>1, <2>2, <2>3, <2>4, ObjectIsAdded
  <2> QED
    BY <2>5 DEF open
<1> HIDE DEF h1, l1
<1>8. HeapOK(h1, l1, bits, epoch, {t})
  BY <1>7 DEF Grown
<1>9. \A a \in Objects(heap) : a \in Objects(h1) /\ l1[a] = level[a]
  BY <1>7, GrownObject
<1>10. \A bit \in {0, 1} :
         /\ ChildOf(bottom, bit) = Child(heap, node, bit)
         /\ ChildOK(heap, level, node, bit)
  BY <1>5 DEF HeapOK, ObjectOK, ChildOf, Child
<1>11. Fits(h1, l1, bits, epoch, bottom, level[node])
  <2>1. ASSUME NEW bit \in {0, 1}
        PROVE  LET c == ChildOf(bottom, bit)
               IN  /\ c \in Objects(h1) \cup {Nil}
                   /\ c # Nil => /\ h1[c].parent # Nil /\ h1[c].prefix[1] = bit
                                 /\ l1[c] = level[node] + Len(h1[c].prefix)
    BY <1>7, <1>9, <1>10 DEF ChildOK
  <2>2. level[node] = l1[t] + Len(bottom.prefix)
    BY <1>2, <1>3, <1>5, <1>7
  <2>3. t # Nil
    BY <1>2 DEF Nil
  <2> HIDE DEF t
  <2> QED
    BY <1>2, <1>3, <1>5, <1>7, <2>1, <2>2, <2>3 DEF Fits
<1>12. Shaped(bottom, bits, level[node])
  <2>1. ShapeOK(heap, level, bits, node) /\ label # <<>>
    BY <1>2 DEF HeapOK
  <2> QED
    BY <1>5, <2>1 DEF Shaped, ShapeOK, label
<1>13. /\ Grown(h1, l1, h2, l2, bits, epoch, {t})
       /\ Len(h2) = Len(h1) + 1 /\ Len(h1) + 1 \in Objects(h2)
       /\ h2[Len(h1) + 1] = bottom /\ l2[Len(h1) + 1] = level[node]
       /\ \A a \in Objects(h1) : h2[a] = h1[a]
  <2>1. Appended(h1, h2, bottom)
    BY DEF Appended
  <2>2. l2 = Leveled(h1, l1, level[node])
    OBVIOUS
  <2> HIDE DEF h2, l2, t
  <2>3. {t} \subseteq {t} /\ {t} \subseteq {t} \cup {Len(h1) + 1}
    OBVIOUS
  <2> QED
    BY <1>8, <1>11, <1>12, <2>1, <2>2, <2>3, ObjectIsAdded
<1> HIDE DEF h2, l2
<1>14. Grown(heap, level, h2, l2, bits, epoch, {t})
  BY <1>7, <1>13, GrownTransitive
<1>15. t \in Objects(h2) /\ l2[t] = n /\ h2[t] = top
  BY <1>7, <1>8, <1>13, GrownObject
<1>16. b \in Objects(h2) /\ h2[b] = bottom /\ l2[b] = level[node]
  <2>1. b = Len(h1) + 1
    BY <1>2, <1>7
  <2> QED
    BY <1>13, <2>1
<1>17. IsSplit(heap, level, h2, l2, node, idx, epoch)
  BY <1>4, <1>5, <1>15, <1>16 DEF IsSplit, label, parent
<1> QED
  BY <1>1, <1>14, <1>17

\* A heap in which a split is under way.
IsSplitting(heap, level, new, newLevel, bits, epoch, node, idx) ==
  /\ Grown(heap, level, new, newLevel, bits, epoch, {Len(heap) + 1})
  /\ IsSplit(heap, level, new, newLevel, node, idx, epoch)

\* The split goes on in a heap that has grown.
LEMMA SplittingGoesOn ==
  ASSUME NEW heap, NEW level, NEW bits, NEW epoch, HeapOK(heap, level, bits, epoch, {}),
         NEW node \in Objects(heap), NEW idx,
         NEW h, NEW l, IsSplitting(heap, level, h, l, bits, epoch, node, idx),
         NEW h2, NEW l2, Grown(h, l, h2, l2, bits, epoch, {Len(heap) + 1})
  PROVE  IsSplitting(heap, level, h2, l2, bits, epoch, node, idx)
<1> DEFINE open == {Len(heap) + 1}
           none == {}
<1>1. /\ HeapOK(heap, level, bits, epoch, none) /\ Grown(heap, level, h, l, bits, epoch, open)
      /\ HeapOK(h, l, bits, epoch, open) /\ Grown(h, l, h2, l2, bits, epoch, open)
  BY DEF IsSplitting, Grown
<1>2. IsSplit(heap, level, h, l, node, idx, epoch)
  BY DEF IsSplitting
<1> HIDE DEF open, none
<1>3. Grown(heap, level, h2, l2, bits, epoch, open)
  BY <1>1, GrownTransitive
<1>4. \A a \in Objects(h) : /\ a \in Objects(h2) /\ l2[a] = l[a]
                            /\ h2[a].epoch = h[a].epoch /\ h2[a].prefix = h[a].prefix
  BY <1>1, GrownObject
<1>5. IsSplit(heap, level, h2, l2, node, idx, epoch)
  BY <1>2, <1>4 DEF IsSplit
<1> QED
  BY <1>3, <1>5 DEF IsSplitting, open

\* The bottom half takes over a child of the node.
LEMMA BottomAdopts ==
  ASSUME NEW heap, NEW level, NEW bits, NEW epoch, HeapOK(heap, level, bits, epoch, {}),
         NEW node \in Objects(heap), NEW idx,
         NEW h, NEW l, IsSplitting(heap, level, h, l, bits, epoch, node, idx),
         NEW bit \in {0, 1},
         NEW new, new = Adopt(h, Child(heap, node, bit), Len(heap) + 2, epoch)
  PROVE  \E newLevel : IsSplitting(heap, level, new, newLevel, bits, epoch, node, idx)
<1> DEFINE open == {Len(heap) + 1}
           none == {}
           c == Child(heap, node, bit)
           bottom == Len(heap) + 2
<1>1. /\ HeapOK(heap, level, bits, epoch, none) /\ Grown(heap, level, h, l, bits, epoch, open)
      /\ HeapOK(h, l, bits, epoch, open)
  BY DEF IsSplitting, Grown
<1>2. bottom \in Objects(h) /\ h[bottom].epoch = epoch /\ l[bottom] = level[node]
  BY DEF IsSplitting, IsSplit
<1>3. c \in Objects(heap) \cup {Nil}
      /\ (c # Nil => heap[c].prefix # <<>> /\ level[c] = level[node] + Len(heap[c].prefix))
  <2>1. ChildOK(heap, level, node, bit)
    BY DEF HeapOK, ObjectOK
  <2>2. c # Nil => ParentOK(heap, level, c)
    BY <2>1 DEF HeapOK, ObjectOK, ChildOK
  <2> QED
    BY <2>1, <2>2 DEF ChildOK, ParentOK
<1>4. new = Adopt(h, c, bottom, epoch)
  OBVIOUS
<1> HIDE DEF open, none, c, bottom
<1>5. \A a \in Objects(heap) : a \in Objects(h) /\ l[a] = level[a] /\ h[a].prefix = heap[a].prefix
  BY <1>1, GrownObject
<1>6. c \in Objects(h) \cup {Nil}
      /\ (c # Nil => h[c].prefix # <<>> /\ l[c] = l[bottom] + Len(h[c].prefix))
  BY <1>2, <1>3, <1>5
<1>7. PICK l2 : Grown(h, l, new, l2, bits, epoch, open)
  BY <1>1, <1>2, <1>4, <1>6, AdoptGrows
<1>8. IsSplitting(heap, level, new, l2, bits, epoch, node, idx)
  BY <1>7, SplittingGoesOn DEF open
<1> QED
  BY <1>8

\* splitNode: the new internal node is in its place, with the bottom half under it, and
\* still waits for its other child.
LEMMA SplitNodeSplits ==
  ASSUME NEW tree0, NEW level, NEW bits, HeapOK(tree0.heap, level, bits, tree0.currEpoch, {}),
         NEW node \in Objects(tree0.heap), NEW idx \in 1 .. Len(tree0.heap[node].prefix) - 1,
         NEW s, s = SplitNode(tree0, node, idx)
  PROVE  \E newLevel :
           /\ IsSplitting(tree0.heap, level, s.heap, newLevel, bits, tree0.currEpoch, node, idx)
           /\ s.at = Len(tree0.heap) + 1
           /\ Child(s.heap, s.at, tree0.heap[node].prefix[idx + 1]) # Nil
<1> DEFINE heap == tree0.heap
           epoch == tree0.currEpoch
           label == heap[node].prefix
           parent == heap[node].parent
           t == Len(heap) + 1
           b == Len(heap) + 2
           top == TopObject(heap, node, idx, epoch)
           bottom == BottomObject(heap, node, idx, epoch)
           botPrefix == SubSeq(label, idx + 1, Len(label))
           h1 == heap \o << top, bottom >>
           h2 == Adopt(h1, heap[node].leftChild, b, epoch)
           h3 == Adopt(h2, heap[node].rightChild, b, epoch)
           h4 == UpdateHash(h3, b, epoch)
           h5 == SetChild(h4, t, botPrefix[1], b)
           own == OwnCopy(h5, parent, epoch)
           h6 == SetChild(own.heap, own.at, label[1], t)
           h7 == SetParent(h6, t, own.at)
           open == {t}
           In(h, l) == IsSplitting(heap, level, h, l, bits, epoch, node, idx)
<1>1. s.heap = h7 /\ s.at = t
  <2>1. b = t + 1
    BY DEF HeapOK, IsHeap
  <2> QED
    BY <2>1 DEF SplitNode, At, Hang, TopObject, BottomObject
<1>2. /\ HeapOK(heap, level, bits, epoch, {}) /\ Len(heap) \in Nat
      /\ node \in Objects(heap) /\ idx \in 1 .. Len(label) - 1
  BY DEF HeapOK, IsHeap
<1>3. /\ label \in Seq({0, 1}) /\ parent \in Objects(heap) /\ parent # Nil
      /\ level[parent] \in Nat /\ level[node] = level[parent] + Len(label)
  <2> HIDE DEF heap, epoch
  <2>1. /\ heap[node].prefix \in Seq({0, 1}) /\ heap[node].parent \in Objects(heap)
        /\ level[heap[node].parent] \in 0 .. bits
        /\ level[node] = level[heap[node].parent] + Len(heap[node].prefix)
        /\ heap[node].parent # Nil
    BY <1>2, LabelOfSplit
  <2> QED
    BY <2>1
<1>4. /\ Len(SubSeq(label, 1, idx)) = idx /\ SubSeq(label, 1, idx) # <<>>
      /\ SubSeq(label, 1, idx)[1] = label[1]
      /\ Len(botPrefix) = Len(label) - idx /\ botPrefix # <<>>
      /\ botPrefix[1] = label[idx + 1]
  <2> HIDE DEF heap, label
  <2> QED
    BY <1>2, <1>3, Halves
<1>5. label[1] \in {0, 1} /\ label[idx + 1] \in {0, 1}
  <2> HIDE DEF label, heap, parent
  <2>1. 1 \in 1 .. Len(label) /\ idx + 1 \in 1 .. Len(label)
    BY <1>2, <1>3
  <2> QED
    BY <1>3, <2>1
<1>6. Child(heap, node, 0) = heap[node].leftChild /\ Child(heap, node, 1) = heap[node].rightChild
  BY DEF Child
<1>7. h2 = Adopt(h1, Child(heap, node, 0), b, epoch) /\ h3 = Adopt(h2, Child(heap, node, 1), b, epoch)
  BY <1>6
<1>8. h5 = SetChild(h4, t, label[idx + 1], b)
  BY <1>4
<1>9. AppendedTwo(heap, h1, top, bottom)
  BY DEF AppendedTwo
<1>10. /\ h4 = UpdateHash(h3, b, epoch) /\ own = OwnCopy(h5, parent, epoch)
       /\ h6 = SetChild(own.heap, own.at, label[1], t) /\ h7 = SetParent(h6, t, own.at)
  OBVIOUS
<1> HIDE DEF heap, epoch, h1, h2, h3, h4, h5, own, h6, h7
<1>11. \E l : In(h1, l)
  <2>1. \E l : /\ Grown(heap, level, h1, l, bits, epoch, {Len(heap) + 1})
               /\ IsSplit(heap, level, h1, l, node, idx, epoch)
    BY <1>2, <1>9, SplitIsAdded
  <2> QED
    BY <2>1 DEF IsSplitting
<1>12. \E l : In(h2, l)
  BY <1>2, <1>7, <1>11, BottomAdopts
<1>13. \E l : In(h3, l)
  BY <1>2, <1>7, <1>12, BottomAdopts
<1>14. \E l : In(h4, l)
  <2>1. PICK l : In(h3, l)
    BY <1>13
  <2>2. b \in Objects(h3) /\ HeapOK(h3, l, bits, epoch, open)
    BY <2>1 DEF IsSplitting, IsSplit, Grown
  <2> HIDE DEF b, open
  <2>3. PICK l2 : Grown(h3, l, h4, l2, bits, epoch, open)
    BY <1>10, <2>2, UpdateHashGrows
  <2>4. In(h4, l2)
    BY <1>2, <2>1, <2>3, SplittingGoesOn DEF open
  <2> QED
    BY <2>4
<1>15. PICK l4 : In(h4, l4)
  BY <1>14
<1>16. /\ HeapOK(h4, l4, bits, epoch, open) /\ Grown(heap, level, h4, l4, bits, epoch, open)
       /\ t \in Objects(h4) /\ b \in Objects(h4) /\ h4[t].epoch = epoch
       /\ h4[t].prefix = SubSeq(label, 1, idx) /\ h4[b].prefix = botPrefix
       /\ l4[t] = level[parent] + idx /\ l4[b] = level[node]
  BY <1>15 DEF IsSplitting, IsSplit, Grown
<1>17. /\ Grown(h4, l4, h5, l4, bits, epoch, open) /\ Child(h5, t, label[idx + 1]) = b
  <2> DEFINE bit == label[idx + 1]
  <2>1. /\ h4[b].prefix[1] = bit /\ h4[b].prefix # <<>> /\ bit \in {0, 1}
    BY <1>4, <1>5, <1>16
  <2>2. l4[b] = l4[t] + Len(h4[b].prefix)
    <3> HIDE DEF label, parent, b, t
    <3>1. idx \in Nat /\ Len(label) \in Nat
      BY <1>2, <1>3
    <3> QED
      BY <1>3, <1>4, <1>16, <3>1
  <2>3. h5 = SetChild(h4, t, bit, b)
    BY <1>8
  <2>4. /\ HeapOK(h4, l4, bits, epoch, open) /\ h4[t].epoch = epoch
        /\ t \in Objects(h4) /\ b \in Objects(h4)
    BY <1>16
  <2> HIDE DEF bit, t, b, open
  <2>5. /\ HeapOK(h5, l4, bits, epoch, open) /\ Kept(h4, h5, epoch)
        /\ Child(h5, t, bit) = b
    BY <2>1, <2>2, <2>3, <2>4, ChildIsFree
  <2> QED
    BY <2>5 DEF Grown, SameLevels, bit
<1>18. In(h5, l4)
  BY <1>2, <1>15, <1>17, SplittingGoesOn
<1>19. HeapOK(h5, l4, bits, epoch, open) /\ Grown(heap, level, h5, l4, bits, epoch, open)
  BY <1>18 DEF IsSplitting, Grown
<1>20. parent \in Objects(h5) /\ l4[parent] = level[parent]
  <2> HIDE DEF parent, open, t
  <2> DEFINE none == {}
  <2>1. HeapOK(heap, level, bits, epoch, none)
    BY <1>2
  <2> HIDE DEF none
  <2> QED
    BY <1>3, <1>19, <2>1, GrownObject
<1>21. \E l : IsOwn(h5, l4, own, l, bits, epoch, open, parent)
  <2> HIDE DEF parent, open, t
  <2> QED
    BY <1>10, <1>19, <1>20, OwnCopyIsOwn
<1>22. PICK l : IsOwn(h5, l4, own, l, bits, epoch, open, parent)
  BY <1>21
<1> DEFINE h0 == own.heap
           p == own.at
<1>23. /\ HeapOK(h0, l, bits, epoch, open) /\ Grown(h5, l4, h0, l, bits, epoch, open)
       /\ p \in Objects(h0) /\ h0[p].epoch = epoch /\ l[p] = level[parent]
  BY <1>20, <1>22 DEF IsOwn, Grown
<1>24. In(h0, l)
  BY <1>2, <1>18, <1>23, SplittingGoesOn
<1>25. /\ t \in Objects(h0) /\ h0[t].prefix = SubSeq(label, 1, idx) /\ l[t] = level[parent] + idx
  BY <1>24 DEF IsSplitting, IsSplit
<1>26. Grown(h0, l, h7, l, bits, epoch, open)
  <2> DEFINE bit == label[1]
  <2>1. /\ h0[t].prefix[1] = bit /\ h0[t].prefix # <<>> /\ bit \in {0, 1}
        /\ l[t] = l[p] + Len(h0[t].prefix)
    BY <1>4, <1>5, <1>23, <1>25
  <2>2. h6 = SetChild(h0, p, bit, t) /\ h7 = SetParent(h6, t, p)
    BY <1>10
  <2> HIDE DEF bit, t, h0, p, open
  <2> QED
    BY <1>23, <1>25, <2>1, <2>2, HangGrows
<1>27. In(h7, l)
  BY <1>2, <1>24, <1>26, SplittingGoesOn
<1>28. Child(h7, t, label[idx + 1]) # Nil
  <2> DEFINE bit == label[idx + 1]
  <2>1. Child(h5, t, bit) # Nil /\ bit \in {0, 1}
    <3>1. b # Nil
      BY <1>2 DEF Nil
    <3> QED
      BY <1>5, <1>17, <3>1
  <2> HIDE DEF bit, t, open, h0
  <2>2. Grown(h5, l4, h7, l, bits, epoch, open)
    BY <1>19, <1>23, <1>26, GrownTransitive
  <2>3. t \in Objects(h5)
    BY <1>18 DEF IsSplitting, IsSplit, t
  <2>4. Child(h7, t, bit) # Nil
    BY <2>1, <2>2, <2>3 DEF Grown, Kept
  <2> QED
    BY <2>4 DEF bit
<1> QED
  BY <1>1, <1>27, <1>28 DEF heap, epoch

\* An edge that is not spelled by the rest of a key, which it starts like, has shared bits.
LEMMA SharedBitsExist ==
  ASSUME NEW edge \in Seq({0, 1}), NEW rest \in Seq({0, 1}), edge # <<>>,
         Len(edge) <= Len(rest), edge[1] = rest[1], ~ IsPrefix(edge, rest)
  PROVE  /\ SharedBits(edge, rest) \in 1 .. Len(edge) - 1
         /\ edge[SharedBits(edge, rest) + 1] # rest[SharedBits(edge, rest) + 1]
<1> DEFINE Different == { i \in 1 .. Len(edge) : edge[i] # rest[i] }
<1>1. Len(edge) \in Nat \ {0} /\ Len(rest) \in Nat
  OBVIOUS
<1>2. Different # {}
  <2>1. SUFFICES ASSUME Different = {} PROVE FALSE
    OBVIOUS
  <2>2. \A i \in 1 .. Len(edge) : edge[i] = rest[i]
    BY <2>1
  <2>3. SubSeq(edge, 1, Len(edge)) = SubSeq(rest, 1, Len(edge))
    BY <1>1, <2>2
  <2>4. SubSeq(edge, 1, Len(edge)) = edge
    BY <1>1
  <2>5. IsPrefix(edge, rest)
    BY <2>3, <2>4 DEF IsPrefix
  <2> QED
    BY <2>5
<1>3. PICK i \in Different : \A j \in Different : i <= j
  <2>1. Different \in SUBSET Nat
    OBVIOUS
  <2> QED
    BY <1>2, <2>1, LeastNumber
<1>4. i \in 1 .. Len(edge) /\ edge[i] # rest[i] /\ i # 1
  OBVIOUS
<1> DEFINE idx == i - 1
<1>5. idx \in 1 .. Len(edge) - 1 /\ idx + 1 = i
  BY <1>1, <1>4
<1>6. \A j \in 1 .. idx : edge[j] = rest[j]
  BY <1>1, <1>3, <1>4
<1>7. SubSeq(edge, 1, idx) = SubSeq(rest, 1, idx)
  <2> HIDE DEF idx
  <2> QED
    BY <1>1, <1>5, <1>6
<1> HIDE DEF idx
<1>8. \E j \in 1 .. Len(edge) - 1 :
        SubSeq(edge, 1, j) = SubSeq(rest, 1, j) /\ edge[j + 1] # rest[j + 1]
  BY <1>4, <1>5, <1>7
<1> QED
  BY <1>8, Zenon DEF SharedBits

\* insert into an edge: the split node gets its other child.
LEMMA InsertSplitGrows ==
  ASSUME NEW tree0, NEW level, NEW bits, HeapOK(tree0.heap, level, bits, tree0.currEpoch, {}),
         NEW end \in Objects(tree0.heap), NEW node \in Objects(tree0.heap),
         tree0.heap[node].prefix # <<>>,
         level[node] = level[end] + Len(tree0.heap[node].prefix),
         NEW rest \in Seq({0, 1}), SpellsRest(level, bits, end, rest),
         tree0.heap[node].prefix[1] = rest[1], ~ IsPrefix(tree0.heap[node].prefix, rest),
         NEW value, NEW put, put = InsertSplit(tree0, node, rest, value)
  PROVE  \E newLevel : /\ Grown(tree0.heap, level, put.heap, newLevel, bits, tree0.currEpoch, {})
                       /\ put.at \in Objects(put.heap)
<1> DEFINE heap == tree0.heap
           epoch == tree0.currEpoch
           label == heap[node].prefix
           parent == heap[node].parent
           idx == SharedBits(label, rest)
           s == SplitNode(tree0, node, idx)
           other == SubSeq(rest, idx + 1, Len(rest))
           t == Len(heap) + 1
           none == {}
           open == {t}
<1>1. put = AddChild(s, s.at, other, value, epoch)
  BY DEF InsertSplit
<1>2. /\ HeapOK(heap, level, bits, epoch, none) /\ bits \in Nat /\ Len(heap) \in Nat
      /\ level[end] \in 0 .. bits /\ level[node] \in 0 .. bits
      /\ label \in Seq({0, 1}) /\ label # <<>> /\ level[node] = level[end] + Len(label)
      /\ parent # Nil => level[node] = level[parent] + Len(label) /\ level[parent] \in 0 .. bits
      /\ parent # Nil
  BY DEF HeapOK, IsHeap, ObjectOK, ParentOK
<1> HIDE DEF heap, epoch, label, parent
<1>3. Len(label) <= Len(rest) /\ Len(rest) \in Nat /\ Len(label) \in Nat
      /\ level[end] + Len(rest) = bits
  BY <1>2 DEF SpellsRest
<1>4. idx \in 1 .. Len(label) - 1 /\ label[idx + 1] # rest[idx + 1]
  <2>1. label[1] = rest[1] /\ ~ IsPrefix(label, rest)
    BY DEF label, heap
  <2> HIDE DEF idx
  <2> QED
    BY <1>2, <1>3, <2>1, SharedBitsExist DEF idx
<1> HIDE DEF idx
<1>5. /\ other \in Seq({0, 1}) /\ other # <<>> /\ Len(other) = Len(rest) - idx
      /\ other[1] = rest[idx + 1]
  <2>1. idx \in 1 .. Len(rest) - 1
    BY <1>3, <1>4
  <2> QED
    BY <2>1, Halves
<1>6. label[idx + 1] \in {0, 1} /\ rest[idx + 1] \in {0, 1}
  <2>1. idx + 1 \in 1 .. Len(label) /\ idx + 1 \in 1 .. Len(rest)
    BY <1>3, <1>4
  <2> QED
    BY <1>2, <2>1
<1> HIDE DEF s, other
<1>7. PICK l : /\ IsSplitting(heap, level, s.heap, l, bits, epoch, node, idx)
               /\ s.at = t /\ Child(s.heap, t, label[idx + 1]) # Nil
  <2>1. \E l : /\ IsSplitting(tree0.heap, level, s.heap, l, bits, tree0.currEpoch, node, idx)
               /\ s.at = Len(tree0.heap) + 1
               /\ Child(s.heap, s.at, tree0.heap[node].prefix[idx + 1]) # Nil
    <3>1. idx \in 1 .. Len(tree0.heap[node].prefix) - 1
      BY <1>4 DEF label, heap
    <3> QED
      BY <3>1, SplitNodeSplits DEF s
  <2> QED
    BY <2>1 DEF heap, epoch, label
<1>8. /\ HeapOK(s.heap, l, bits, epoch, open) /\ Grown(heap, level, s.heap, l, bits, epoch, open)
      /\ s.at \in Objects(s.heap) /\ s.heap[s.at].epoch = epoch /\ l[s.at] = level[parent] + idx
  BY <1>7 DEF IsSplitting, IsSplit, Grown, parent
<1>9. SpellsRest(l, bits, s.at, other)
  <2>1. level[parent] = level[end]
    BY <1>2, <1>3
  <2>2. idx \in Nat
    BY <1>4
  <2>3. /\ l[s.at] = level[end] + idx /\ Len(other) = Len(rest) - idx
        /\ level[end] + Len(rest) = bits /\ Len(rest) \in Nat /\ level[end] \in Nat
    BY <1>2, <1>3, <1>5, <1>8, <2>1
  <2> HIDE DEF t, open
  <2>4. l[s.at] + Len(other) = bits
    BY <2>2, <2>3
  <2> QED
    BY <2>4 DEF SpellsRest
<1> HIDE DEF t, open, none
<1>10. \E l2 : /\ Grown(s.heap, l, put.heap, l2, bits, epoch, open)
               /\ put.at \in Objects(put.heap)
               /\ Child(put.heap, s.at, other[1]) # Nil
  BY <1>1, <1>5, <1>8, <1>9, AddChildGrows
<1>11. PICK l2 : /\ Grown(s.heap, l, put.heap, l2, bits, epoch, open)
                 /\ put.at \in Objects(put.heap)
                 /\ Child(put.heap, t, other[1]) # Nil
  BY <1>7, <1>10
<1>12. Child(put.heap, t, label[idx + 1]) # Nil
  BY <1>6, <1>7, <1>8, <1>11 DEF Grown, Kept
<1>13. put.heap[t].leftChild # Nil /\ put.heap[t].rightChild # Nil
  BY <1>4, <1>5, <1>6, <1>11, <1>12 DEF Child
<1>14. Grown(heap, level, put.heap, l2, bits, epoch, open)
  BY <1>2, <1>8, <1>11, GrownTransitive
<1>15. HeapOK(put.heap, l2, bits, epoch, {})
  <2>1. HeapOK(put.heap, l2, bits, epoch, open)
    BY <1>14 DEF Grown
  <2>2. ShapeOK(put.heap, l2, bits, t)
    BY <1>13 DEF ShapeOK
  <2>3. \A a \in Objects(put.heap) : ShapeOK(put.heap, l2, bits, a)
    BY <2>1, <2>2 DEF HeapOK, open
  <2> QED
    BY <2>1, <2>3 DEF HeapOK
<1> QED
  BY <1>11, <1>14, <1>15 DEF Grown, heap, epoch

\* insert of a key that has a leaf.
LEMMA InsertValueGrows ==
  ASSUME NEW tree0, NEW level, NEW bits, HeapOK(tree0.heap, level, bits, tree0.currEpoch, {}),
         NEW leaf \in Objects(tree0.heap), tree0.heap[leaf].prefix # <<>>, NEW value,
         NEW put, put = InsertValue(tree0, leaf, value)
  PROVE  \E newLevel : /\ Grown(tree0.heap, level, put.heap, newLevel, bits, tree0.currEpoch, {})
                       /\ put.at \in Objects(put.heap)
<1> DEFINE heap == tree0.heap
           epoch == tree0.currEpoch
           own == OwnCopy(heap, leaf, epoch)
           values == Append(own.heap[own.at].values, value)
           none == {}
<1>1. put.heap = WithValues(own.heap, own.at, values) /\ put.at = leaf
  BY DEF InsertValue, At, AddValue, WithValues
<1>2. HeapOK(heap, level, bits, epoch, none)
  OBVIOUS
<1>3. leaf \in Objects(heap) /\ heap[leaf].prefix # <<>>
  OBVIOUS
<1> HIDE DEF heap, epoch, none, own, values
<1>4. \E l : IsOwn(heap, level, own, l, bits, epoch, none, leaf)
  BY <1>2, <1>3, OwnCopyIsOwn DEF own
<1>5. PICK l : IsOwn(heap, level, own, l, bits, epoch, none, leaf)
  BY <1>4
<1>6. /\ HeapOK(own.heap, l, bits, epoch, none) /\ Grown(heap, level, own.heap, l, bits, epoch, none)
      /\ own.at \in Objects(own.heap) /\ own.heap[own.at].epoch = epoch
      /\ own.heap[own.at].prefix # <<>>
  BY <1>3, <1>5 DEF IsOwn, Grown
<1>7. HeapOK(put.heap, l, bits, epoch, none) /\ Kept(own.heap, put.heap, epoch)
  BY <1>1, <1>6, HashAndValuesAreFree
<1>8. Grown(own.heap, l, put.heap, l, bits, epoch, none)
  BY <1>7 DEF Grown, SameLevels
<1>9. Grown(heap, level, put.heap, l, bits, epoch, none)
  BY <1>2, <1>6, <1>8, GrownTransitive
<1>10. put.at \in Objects(put.heap)
  BY <1>1, <1>2, <1>3, <1>9, GrownObject
<1> QED
  BY <1>9, <1>10 DEF heap, epoch, none

(***************************************************************************)
(* The tree.                                                               *)
(***************************************************************************)

\* The inductive invariant: the objects are in order, and the root of every epoch is one
\* of them, without a label, and no newer than the epoch.
RootsOK(t) ==
  \A epoch \in 0 .. t.currEpoch :
    /\ RootAtEpoch(t, epoch) \in Objects(t.heap)
    /\ t.heap[RootAtEpoch(t, epoch)].prefix = <<>>
    /\ t.heap[RootAtEpoch(t, epoch)].epoch <= epoch

TreeOK(t) ==
  /\ DOMAIN t = TreeFields
  /\ t.currEpoch \in Nat
  /\ t.roots \in Seq(Nat) /\ Len(t.roots) = t.currEpoch
  /\ \E level : HeapOK(t.heap, level, KeyBits, t.currEpoch, {})
  /\ RootsOK(t)

\* All keys have KeyBits bits, and at least one.
LEMMA KeyLength ==
  ASSUME NEW key \in Keys
  PROVE  key \in Seq({0, 1}) /\ Len(key) = KeyBits /\ KeyBits \in Nat \ {0}
<1>1. (CHOOSE k \in Keys : TRUE) \in Keys
  OBVIOUS
<1>2. key \in Seq({0, 1}) /\ key # <<>> /\ Len(key) = KeyBits
  BY <1>1, KeysAssumption DEF KeyBits
<1>3. Len(key) \in Nat \ {0}
  BY <1>2
<1> QED
  BY <1>2, <1>3

\* Before the hashes are refreshed, the tree that an insert makes has this heap.
IsPut(t, level, new, put, l) ==
  /\ Grown(t.heap, level, put.heap, l, KeyBits, t.currEpoch, {})
  /\ put.at \in Objects(put.heap)
  /\ \/ new = UpdateHashesFromLeaf(t, put, KeyBits)
     \/ new = CountLeaf(UpdateHashesFromLeaf(t, put, KeyBits))

\* Where Insert puts a key, before it refreshes the hashes.
LEMMA PutGrows ==
  ASSUME NEW t, NEW level, HeapOK(t.heap, level, KeyBits, t.currEpoch, {}),
         t.currRoot \in Objects(t.heap), t.heap[t.currRoot].prefix = <<>>,
         NEW key \in Keys, NEW value, NEW new, new = Insert(t, key, value)
  PROVE  \E put, l : IsPut(t, level, new, put, l)
<1> DEFINE heap == t.heap
           epoch == t.currEpoch
           bits == KeyBits
           way == Descend(heap, t.currRoot, key)
           end == Last(way.path)
           rest == SubSeq(key, way.bits + 1, Len(key))
           child == Child(heap, end, rest[1])
           none == {}
<1>1. key \in Seq({0, 1}) /\ Len(key) = bits /\ bits \in Nat /\ bits # 0
  BY KeyLength
<1>2. HeapOK(heap, level, bits, epoch, none)
  OBVIOUS
<1>3. t.currRoot \in Objects(heap) /\ heap[t.currRoot].prefix = <<>>
  OBVIOUS
<1> HIDE DEF heap, epoch, bits, none, way
<1>4. /\ end \in Objects(heap) /\ way.bits = level[end] /\ way.bits \in 0 .. bits
      /\ way.bits # bits => IsStuck(heap, key, way)
  BY <1>1, <1>2, <1>3, DescendEnds DEF way
<1>5. CASE way.bits = Len(key)
  <2> DEFINE put == InsertValue(t, end, value)
  <2>1. new = UpdateHashesFromLeaf(t, put, bits)
    BY <1>1, <1>5 DEF Insert, way, heap
  <2>2. \E l : Grown(t.heap, level, put.heap, l, KeyBits, t.currEpoch, {}) /\ put.at \in Objects(put.heap)
    <3> HIDE DEF end
    <3>1. end \in Objects(heap) /\ level[end] = bits
      BY <1>1, <1>4, <1>5
    <3>2. heap[end].prefix # <<>>
      BY <1>1, <1>2, <3>1, RootLevel
    <3> QED
      BY <3>1, <3>2, InsertValueGrows DEF heap
  <2> HIDE DEF put
  <2> QED
    BY <2>1, <2>2 DEF bits, IsPut
<1>6. CASE way.bits # Len(key)
  <2>1. /\ rest \in Seq({0, 1}) /\ rest # <<>> /\ Len(rest) = bits - way.bits
        /\ rest[1] = key[way.bits + 1] /\ rest[1] \in {0, 1}
    <3> DEFINE w == way.bits
    <3>1. w \in Nat /\ w < Len(key) /\ Len(key) \in Nat
      BY <1>1, <1>4, <1>6
    <3> HIDE DEF w
    <3>2. /\ SubSeq(key, w + 1, Len(key)) \in Seq({0, 1})
          /\ Len(SubSeq(key, w + 1, Len(key))) = Len(key) - w
          /\ SubSeq(key, w + 1, Len(key))[1] = key[w + 1]
      BY <1>1, <3>1
    <3>3. rest \in Seq({0, 1}) /\ Len(rest) = Len(key) - w /\ rest[1] = key[w + 1]
      BY <3>2 DEF w
    <3> HIDE DEF rest
    <3>4. rest # <<>> /\ rest[1] \in {0, 1}
      BY <3>1, <3>3
    <3> QED
      BY <1>1, <3>3, <3>4 DEF w
  <2>2. /\ SpellsRest(level, bits, end, rest)
    <3> HIDE DEF rest, end
    <3> QED
      BY <1>1, <1>4, <2>1 DEF SpellsRest
  <2>3. child = Nil \/ ~ IsPrefix(heap[child].prefix, rest)
    BY <1>1, <1>4, <1>6, <2>1 DEF IsStuck, Ahead
  <2>4. ChildOK(heap, level, end, rest[1])
    BY <1>2, <1>4, <2>1 DEF HeapOK, ObjectOK
  <2> DEFINE put == IF child = Nil THEN InsertMissing(t, end, rest, value)
                                   ELSE InsertSplit(t, child, rest, value)
  <2>5. new = CountLeaf(UpdateHashesFromLeaf(t, put, bits))
    BY <1>1, <1>6 DEF Insert, way, heap
  <2>6. \E l : Grown(t.heap, level, put.heap, l, KeyBits, t.currEpoch, {}) /\ put.at \in Objects(put.heap)
    <3>1. CASE child = Nil
      <4>1. put = InsertMissing(t, end, rest, value)
        BY <3>1
      <4>2. end \in Objects(t.heap) /\ SpellsRest(level, KeyBits, end, rest)
        BY <1>4, <2>2 DEF heap, bits
      <4> HIDE DEF put, rest, end, child
      <4> QED
        BY <2>1, <4>1, <4>2, InsertMissingGrows
    <3>2. CASE child # Nil
      <4>1. put = InsertSplit(t, child, rest, value)
        BY <3>2
      <4>2. /\ child \in Objects(heap) /\ heap[child].prefix[1] = rest[1]
            /\ level[child] = level[end] + Len(heap[child].prefix)
            /\ heap[child].parent # Nil
        BY <2>4, <3>2 DEF ChildOK
      <4>3. heap[child].prefix # <<>>
        BY <1>2, <4>2 DEF HeapOK, ObjectOK, ParentOK
      <4> HIDE DEF child, rest, end, put
      <4>4. /\ end \in Objects(t.heap) /\ child \in Objects(t.heap)
            /\ t.heap[child].prefix # <<>> /\ t.heap[child].prefix[1] = rest[1]
            /\ level[child] = level[end] + Len(t.heap[child].prefix)
            /\ ~ IsPrefix(t.heap[child].prefix, rest)
            /\ SpellsRest(level, KeyBits, end, rest)
        BY <1>4, <2>2, <2>3, <3>2, <4>2, <4>3 DEF heap, bits
      <4> QED
        BY <2>1, <4>1, <4>4, InsertSplitGrows
    <3> QED
      BY <3>1, <3>2
  <2> HIDE DEF put
  <2> QED
    BY <2>5, <2>6 DEF bits, IsPut
<1> QED
  BY <1>5, <1>6

\* Insert keeps the tree in order and disturbs nothing of an earlier epoch.
LEMMA InsertKeeps ==
  ASSUME NEW t, TreeOK(t), NEW key \in Keys, NEW value, NEW new, new = Insert(t, key, value)
  PROVE  /\ TreeOK(new) /\ Kept(t.heap, new.heap, t.currEpoch)
         /\ new.currEpoch = t.currEpoch /\ new.roots = t.roots
<1> DEFINE epoch == t.currEpoch
<1>1. PICK level : HeapOK(t.heap, level, KeyBits, epoch, {})
  BY DEF TreeOK
<1>2. t.currRoot \in Objects(t.heap) /\ t.heap[t.currRoot].prefix = <<>>
  BY DEF TreeOK, RootsOK, RootAtEpoch
<1>3. PICK put, l : IsPut(t, level, new, put, l)
  BY <1>1, <1>2, PutGrows
<1>4. /\ Grown(t.heap, level, put.heap, l, KeyBits, epoch, {})
      /\ put.at \in Objects(put.heap)
      /\ HeapOK(put.heap, l, KeyBits, epoch, {}) /\ DOMAIN t = TreeFields
  BY <1>3 DEF Grown, TreeOK, IsPut
<1> DEFINE up == UpdateHashesFromLeaf(t, put, KeyBits)
<1>5. up = UpdateHashesFromLeaf(t, put, KeyBits)
  OBVIOUS
<1> HIDE DEF up, epoch
<1>6. PICK l2 :
        /\ Grown(put.heap, l, up.heap, l2, KeyBits, epoch, {})
        /\ DOMAIN up = TreeFields
        /\ up.roots = t.roots /\ up.currEpoch = epoch
        /\ up.currRoot \in Objects(up.heap) /\ up.heap[up.currRoot].prefix = <<>>
  <2>1. HeapOK(put.heap, l, KeyBits, t.currEpoch, {})
    BY <1>4 DEF epoch
  <2>2. \E l2 : IsRehashed(t, put, l, KeyBits, up, l2)
    BY <1>4, <1>5, <2>1, UpdateHashesReachesRoot
  <2> QED
    BY <2>2 DEF IsRehashed, epoch
<1> USE DEF epoch
<1>7. /\ DOMAIN new = TreeFields /\ new.heap = up.heap /\ new.roots = t.roots
      /\ new.currEpoch = epoch /\ new.currRoot = up.currRoot
  <2>1. CASE new = up
    BY <1>6, <2>1
  <2>2. CASE new = CountLeaf(up)
    BY <1>6, <2>2 DEF CountLeaf, TreeFields
  <2> QED
    BY <1>3, <2>1, <2>2 DEF up, IsPut
<1>8. Grown(t.heap, level, new.heap, l2, KeyBits, epoch, {})
  BY <1>1, <1>4, <1>6, <1>7, GrownTransitive
<1>9. RootsOK(new)
  <2>1. SUFFICES ASSUME NEW e \in 0 .. epoch
                 PROVE  /\ RootAtEpoch(new, e) \in Objects(new.heap)
                        /\ new.heap[RootAtEpoch(new, e)].prefix = <<>>
                        /\ new.heap[RootAtEpoch(new, e)].epoch <= e
    BY <1>7 DEF RootsOK
  <2>2. CASE e = epoch
    <3>1. RootAtEpoch(new, e) = up.currRoot
      BY <1>7, <2>2 DEF RootAtEpoch
    <3>2. new.heap[up.currRoot].epoch \in 0 .. epoch
      BY <1>6, <1>7, <1>8 DEF Grown, HeapOK, ObjectOK
    <3> QED
      BY <1>6, <1>7, <2>2, <3>1, <3>2
  <2>3. CASE e # epoch
    <3> DEFINE root == RootAtEpoch(t, e)
    <3>1. RootAtEpoch(new, e) = root
      BY <1>7, <2>3 DEF RootAtEpoch
    <3>2. root \in Objects(t.heap) /\ t.heap[root].prefix = <<>> /\ t.heap[root].epoch <= e
      BY DEF TreeOK, RootsOK
    <3> HIDE DEF root
    <3>3. root \in Objects(new.heap) /\ new.heap[root].prefix = <<>> /\ new.heap[root].epoch <= e
      BY <1>1, <1>8, <3>2, GrownObject
    <3> QED
      BY <3>1, <3>3
  <2> QED
    BY <2>2, <2>3
<1>10. TreeOK(new)
  BY <1>7, <1>8, <1>9 DEF TreeOK, Grown
<1> QED
  BY <1>7, <1>8, <1>10 DEF Grown

\* Objects of earlier epochs are in order later too.
LEMMA HeapAtNextEpoch ==
  ASSUME NEW heap, NEW level, NEW bits, NEW epoch, HeapOK(heap, level, bits, epoch, {})
  PROVE  HeapOK(heap, level, bits, epoch + 1, {})
<1>1. epoch \in Nat /\ epoch + 1 \in Nat /\ \A n \in 0 .. epoch : n \in 0 .. epoch + 1
  BY DEF HeapOK
<1> QED
  BY <1>1 DEF HeapOK, ObjectOK

\* The root of an epoch that is over is found after it too.
LEMMA NextEpochKeeps ==
  ASSUME NEW t, TreeOK(t), NEW new, new = NextEpoch(t)
  PROVE  /\ TreeOK(new) /\ new.heap = t.heap
         /\ \A epoch \in 0 .. t.currEpoch : RootAtEpoch(new, epoch) = RootAtEpoch(t, epoch)
<1>1. /\ DOMAIN t = TreeFields /\ t.currEpoch \in Nat
      /\ t.roots \in Seq(Nat) /\ Len(t.roots) = t.currEpoch /\ RootsOK(t)
  BY DEF TreeOK
<1>2. /\ DOMAIN new = TreeFields /\ new.heap = t.heap /\ new.currEpoch = t.currEpoch + 1
      /\ new.roots = Append(t.roots, t.currRoot) /\ new.currRoot = t.currRoot
  BY <1>1 DEF NextEpoch, TreeFields
<1>3. PICK level : HeapOK(t.heap, level, KeyBits, t.currEpoch, {})
  BY DEF TreeOK
<1>4. /\ t.currRoot \in Objects(t.heap) /\ t.currRoot \in Nat
      /\ t.heap[t.currRoot].prefix = <<>> /\ t.heap[t.currRoot].epoch <= t.currEpoch
  BY <1>1, <1>3 DEF RootsOK, RootAtEpoch, HeapOK, IsHeap, Objects
<1>5. /\ new.roots \in Seq(Nat) /\ Len(new.roots) = t.currEpoch + 1
      /\ \A n \in 1 .. t.currEpoch : new.roots[n] = t.roots[n]
      /\ new.roots[t.currEpoch + 1] = t.currRoot
  <2> DEFINE roots == t.roots
             root == t.currRoot
             n == t.currEpoch
  <2>1. roots \in Seq(Nat) /\ root \in Nat /\ Len(roots) = n /\ n \in Nat
    BY <1>1, <1>4
  <2> HIDE DEF roots, root, n
  <2>2. /\ Append(roots, root) \in Seq(Nat) /\ Len(Append(roots, root)) = n + 1
        /\ \A i \in 1 .. n : Append(roots, root)[i] = roots[i]
        /\ Append(roots, root)[n + 1] = root
    BY <2>1
  <2> QED
    BY <1>2, <2>2 DEF roots, root, n
<1>6. ASSUME NEW epoch \in 0 .. t.currEpoch PROVE RootAtEpoch(new, epoch) = RootAtEpoch(t, epoch)
  <2>1. epoch # new.currEpoch
    BY <1>1, <1>2
  <2>2. epoch # t.currEpoch => epoch + 1 \in 1 .. t.currEpoch
    BY <1>1
  <2> QED
    BY <1>5, <2>1, <2>2 DEF RootAtEpoch
<1>7. RootsOK(new)
  <2>1. SUFFICES ASSUME NEW epoch \in 0 .. t.currEpoch + 1
                 PROVE  /\ RootAtEpoch(new, epoch) \in Objects(t.heap)
                        /\ t.heap[RootAtEpoch(new, epoch)].prefix = <<>>
                        /\ t.heap[RootAtEpoch(new, epoch)].epoch <= epoch
    BY <1>2 DEF RootsOK
  <2>2. CASE epoch = t.currEpoch + 1
    <3>1. RootAtEpoch(new, epoch) = t.currRoot
      BY <1>2, <2>2 DEF RootAtEpoch
    <3>2. t.heap[t.currRoot].epoch \in Nat
      BY <1>3, <1>4 DEF HeapOK, ObjectOK
    <3> QED
      BY <1>1, <1>4, <2>2, <3>1, <3>2
  <2>3. CASE epoch # t.currEpoch + 1
    <3>1. epoch \in 0 .. t.currEpoch
      BY <1>1, <2>3
    <3> QED
      BY <1>1, <1>6, <3>1 DEF RootsOK
  <2> QED
    BY <2>2, <2>3
<1>8. HeapOK(new.heap, level, KeyBits, new.currEpoch, {})
  BY <1>2, <1>3, HeapAtNextEpoch
<1>9. TreeOK(new)
  BY <1>1, <1>2, <1>5, <1>7, <1>8 DEF TreeOK
<1> QED
  BY <1>2, <1>6, <1>9

\* A new tree is in order.
LEMMA NewTreeOK == TreeOK(NewPersistentPrefixTree)
<1> DEFINE t == NewPersistentPrefixTree
           m == Metadata(0, <<>>, <<>>, Nil)
           level == [ a \in 1 .. 1 |-> 0 ]
<1>1. /\ DOMAIN t = TreeFields /\ t.heap = <<m>> /\ t.roots = <<>> /\ t.currRoot = 1
      /\ t.currEpoch = 0
  BY DEF NewPersistentPrefixTree, TreeFields
<1>2. /\ DOMAIN m = Fields
      /\ m.epoch = 0 /\ m.prefix = <<>> /\ m.values = <<>> /\ m.parent = Nil
      /\ m.next = Nil /\ m.leftChild = Nil /\ m.rightChild = Nil
  BY DEF Metadata, Fields
<1>3. KeyBits \in Nat
  BY KeysAssumption, KeyLength
<1> HIDE DEF t, m
<1>4. /\ Len(t.heap) = 1 /\ Objects(t.heap) = {1} /\ t.heap[1] = m
      /\ t.heap \in Seq(ToSet(t.heap))
  <2>1. ToSet(<<m>>) = {m}
    BY ToSetSingleton
  <2> QED
    BY <1>1, <2>1 DEF Objects
<1>5. IsHeap(t.heap)
  BY <1>2, <1>4 DEF IsHeap
<1>6. level \in [Objects(t.heap) -> 0 .. KeyBits] /\ level[1] = 0
  BY <1>3, <1>4
<1> HIDE DEF level
<1>7. ObjectOK(t.heap, level, KeyBits, 0, 1)
  <2>1. ParentOK(t.heap, level, 1)
    <3>1. t.heap[1].prefix \in Seq({0, 1})
      <4>1. <<>> \in Seq({0, 1})
        OBVIOUS
      <4> QED
        BY <1>2, <1>4, <4>1
    <3> QED
      BY <1>2, <1>4, <1>6, <3>1 DEF ParentOK
  <2>2. \A bit \in {0, 1} : ChildOK(t.heap, level, 1, bit)
    BY <1>2, <1>4 DEF ChildOK, Child
  <2> QED
    BY <1>2, <1>4, <2>1, <2>2 DEF ObjectOK
<1>8. HeapOK(t.heap, level, KeyBits, 0, {})
  <2>1. ShapeOK(t.heap, level, KeyBits, 1)
    BY <1>2, <1>4 DEF ShapeOK
  <2> QED
    BY <1>3, <1>4, <1>5, <1>6, <1>7, <2>1 DEF HeapOK
<1>9. RootsOK(t)
  <2>1. \A epoch \in 0 .. 0 : epoch = 0
    OBVIOUS
  <2> QED
    BY <1>1, <1>2, <1>4, <2>1 DEF RootsOK, RootAtEpoch
<1>10. t.roots \in Seq(Nat) /\ Len(t.roots) = 0
  BY <1>1
<1> QED
  BY <1>1, <1>8, <1>9, <1>10 DEF TreeOK, t

\* In every reachable state the tree is in order.
LEMMA TreeInvariant == Spec => []TreeOK(tree)
<1>1. Init => TreeOK(tree)
  BY NewTreeOK DEF Init
<1>2. TreeOK(tree) /\ [Next]_vars => TreeOK(tree)'
  <2> SUFFICES ASSUME TreeOK(tree), [Next]_vars PROVE TreeOK(tree')
    OBVIOUS
  <2>1. CASE \E key \in Keys : InsertKey(key)
    BY <2>1, InsertKeeps DEF InsertKey
  <2>2. CASE FinishEpoch
    BY <2>2, NextEpochKeeps DEF FinishEpoch
  <2>3. CASE UNCHANGED vars
    BY <2>3 DEF vars
  <2> QED
    BY <2>1, <2>2, <2>3 DEF Next
<1> QED
  BY <1>1, <1>2, PTL DEF Spec

\* A lookup of an earlier epoch finds the same in a heap that has only grown.
LEMMA ValuesAreFrozen ==
  ASSUME NEW t, TreeOK(t), NEW new, Kept(t.heap, new.heap, t.currEpoch),
         NEW epoch \in 0 .. t.currEpoch - 1, RootAtEpoch(new, epoch) = RootAtEpoch(t, epoch)
  PROVE  /\ GetHash(new, epoch) = GetHash(t, epoch)
         /\ \A key \in Keys : ValuesAt(new, key, epoch) = ValuesAt(t, key, epoch)
<1> DEFINE root == RootAtEpoch(t, epoch)
<1>1. PICK level : HeapOK(t.heap, level, KeyBits, t.currEpoch, {})
  BY DEF TreeOK
<1>2. /\ root \in Objects(t.heap) /\ t.heap[root].prefix = <<>> /\ t.heap[root].epoch <= epoch
      /\ t.currEpoch \in Nat
  BY DEF TreeOK, RootsOK
<1> HIDE DEF root
<1>3. t.heap[root].epoch \in Nat /\ t.heap[root].epoch < t.currEpoch
  <2>1. t.heap[root].epoch \in 0 .. t.currEpoch
    BY <1>1, <1>2 DEF HeapOK, ObjectOK
  <2> QED
    BY <1>2, <2>1
<1>4. GetHash(new, epoch) = GetHash(t, epoch)
  BY <1>2, <1>3 DEF GetHash, Kept, root
<1>5. ASSUME NEW key \in Keys PROVE ValuesAt(new, key, epoch) = ValuesAt(t, key, epoch)
  <2> DEFINE way == Descend(t.heap, root, key)
             leaf == Last(way.path)
  <2>1. key \in Seq({0, 1}) /\ Len(key) = KeyBits
    BY KeyLength
  <2>2. Descend(new.heap, root, key) = way
    BY <1>1, <1>2, <1>3, <2>1, DescendIsFrozen
  <2>3. leaf \in Objects(t.heap) /\ t.heap[leaf].epoch <= t.heap[root].epoch
    BY <1>1, <1>2, <2>1, DescendEnds
  <2>4. t.heap[leaf].epoch < t.currEpoch
    <3>1. t.heap[leaf].epoch \in Nat
      BY <1>1, <2>3 DEF HeapOK, ObjectOK
    <3> QED
      BY <1>2, <1>3, <2>3, <3>1
  <2>5. new.heap[leaf].values = t.heap[leaf].values
    BY <2>3, <2>4 DEF Kept
  <2>6. PathTo(t, key, epoch) = way /\ PathTo(new, key, epoch) = way
    BY <2>2 DEF PathTo, root
  <2> HIDE DEF way
  <2> QED
    BY <2>5, <2>6 DEF ValuesAt, GetLeaf
<1> QED
  BY <1>4, <1>5

\* The tree is persistent: whatever is inserted later, the root hash and the values of
\* every key of a finished epoch stay what they are, although Insert edits, re-parents and
\* re-links objects of earlier epochs in place.
THEOREM FinishedEpochsAreFrozen == Spec => FinishedEpochsFrozen
<1> DEFINE Frozen == \A epoch \in 0 .. tree.currEpoch - 1 :
                       /\ GetHash(tree', epoch) = GetHash(tree, epoch)
                       /\ \A key \in Keys : ValuesAt(tree', key, epoch) = ValuesAt(tree, key, epoch)
<1>1. ASSUME TreeOK(tree), [Next]_vars PROVE Frozen \/ UNCHANGED vars
  <2>1. CASE \E key \in Keys : InsertKey(key)
    <3>1. /\ Kept(tree.heap, tree'.heap, tree.currEpoch)
          /\ tree'.currEpoch = tree.currEpoch /\ tree'.roots = tree.roots
      BY <1>1, <2>1, InsertKeeps DEF InsertKey
    <3>2. tree.currEpoch \in Nat
      BY <1>1 DEF TreeOK
    <3>3. \A epoch \in 0 .. tree.currEpoch - 1 : RootAtEpoch(tree', epoch) = RootAtEpoch(tree, epoch)
      BY <3>1, <3>2 DEF RootAtEpoch
    <3> QED
      BY <1>1, <3>1, <3>3, ValuesAreFrozen
  <2>2. CASE FinishEpoch
    <3>1. /\ tree'.heap = tree.heap
          /\ \A epoch \in 0 .. tree.currEpoch : RootAtEpoch(tree', epoch) = RootAtEpoch(tree, epoch)
      BY <1>1, <2>2, NextEpochKeeps DEF FinishEpoch
    <3>2. Kept(tree.heap, tree'.heap, tree.currEpoch)
      BY <1>1, <3>1, KeptReflexive DEF TreeOK, HeapOK
    <3>3. tree.currEpoch \in Nat
      BY <1>1 DEF TreeOK
    <3>4. \A epoch \in 0 .. tree.currEpoch - 1 : RootAtEpoch(tree', epoch) = RootAtEpoch(tree, epoch)
      BY <3>1, <3>3
    <3> QED
      BY <1>1, <3>2, <3>4, ValuesAreFrozen
  <2>3. CASE UNCHANGED vars
    BY <2>3
  <2> QED
    BY <1>1, <2>1, <2>2, <2>3 DEF Next
<1>2. TreeOK(tree) /\ [Next]_vars => [Frozen]_vars
  BY <1>1
<1> HIDE DEF Frozen
<1>3. Spec => [][Frozen]_vars
  BY <1>2, TreeInvariant, PTL DEF Spec
<1> QED
  BY <1>3 DEF FinishedEpochsFrozen, Frozen

(***************************************************************************)
(* Versions.                                                               *)
(***************************************************************************)

\* One level more of a version.
Deeper(heap, nodes) ==
  nodes \cup { Child(heap, node, bit) : node \in nodes \ {Nil}, bit \in {0, 1} }

Levels == INSTANCE SequenceLemmas WITH
  LoopBody <- LAMBDA fixed, n, s : Deeper(fixed, s), Claim <- LAMBDA fixed, n : TRUE

LevelsFrom(heap, root) == Levels!Loop(heap, {root})

\* What a version may hold: the root, and objects that are no newer and have a label.
IsVersionOf(heap, root, nodes) ==
  \A a \in nodes \ {Nil} : /\ a \in Objects(heap)
                           /\ heap[a].epoch <= heap[root].epoch
                           /\ a # root => heap[a].prefix # <<>>

Older == INSTANCE SequenceLemmas WITH
  LoopBody <- LAMBDA fixed, n, s : s,
  Claim <- LAMBDA fixed, n :
             IsVersionOf(fixed.heap, fixed.root, LevelsFrom(fixed.heap, fixed.root)[n])

\* A version holds no object that is newer than its root, and no second root.
LEMMA VersionIsOld ==
  ASSUME NEW t, TreeOK(t), NEW epoch \in 0 .. t.currEpoch
  PROVE  \A node \in Version(t, epoch, KeyBits) :
           /\ node \in Objects(t.heap) /\ t.heap[node].epoch <= epoch
           /\ node # RootAtEpoch(t, epoch) => t.heap[node].prefix # <<>>
<1> DEFINE heap == t.heap
           root == RootAtEpoch(t, epoch)
           upto == LevelsFrom(heap, root)
           fixed == [heap |-> heap, root |-> root]
<1>1. fixed.heap = heap /\ fixed.root = root
  OBVIOUS
<1>2. root \in Objects(heap) /\ heap[root].epoch <= epoch
  BY DEF TreeOK, RootsOK
<1>3. PICK level : HeapOK(heap, level, KeyBits, t.currEpoch, {})
  BY DEF TreeOK
<1>4. Version(t, epoch, KeyBits) = upto[KeyBits] \ {Nil}
  BY DEF Version, LevelsFrom, Levels!Loop, Levels!IsLoop, Deeper
<1> HIDE DEF heap, root, fixed
<1>5. upto[0] = {root} /\ \A n \in Nat : upto[n + 1] = Deeper(heap, upto[n])
  BY Levels!LoopRounds DEF LevelsFrom
<1> HIDE DEF upto
<1>6. \A a \in Objects(heap) : heap[a].epoch \in Nat
  BY <1>3 DEF HeapOK, ObjectOK
<1>7. IsVersionOf(heap, root, upto[0])
  BY <1>2, <1>5, <1>6 DEF IsVersionOf
<1>8. ASSUME NEW n \in Nat, IsVersionOf(heap, root, upto[n])
      PROVE  IsVersionOf(heap, root, upto[n + 1])
  <2>1. SUFFICES ASSUME NEW a \in upto[n + 1], a # Nil, a \notin upto[n]
                 PROVE  /\ a \in Objects(heap) /\ heap[a].epoch <= heap[root].epoch
                        /\ heap[a].prefix # <<>>
    BY <1>8 DEF IsVersionOf
  <2>2. PICK node \in upto[n] \ {Nil}, bit \in {0, 1} : a = Child(heap, node, bit)
    BY <1>5, <2>1 DEF Deeper
  <2>3. node \in Objects(heap) /\ heap[node].epoch <= heap[root].epoch
    BY <1>8 DEF IsVersionOf
  <2>4. ChildOK(heap, level, node, bit)
    BY <1>3, <2>3 DEF HeapOK, ObjectOK
  <2>5. a \in Objects(heap) /\ heap[a].epoch <= heap[node].epoch /\ heap[a].parent # Nil
    BY <2>1, <2>2, <2>4 DEF ChildOK
  <2>6. heap[a].prefix # <<>>
    BY <1>3, <2>5 DEF HeapOK, ObjectOK, ParentOK
  <2>7. heap[a].epoch <= heap[root].epoch
    BY <1>2, <1>6, <2>3, <2>5
  <2> QED
    BY <2>5, <2>6, <2>7
<1>9. \A n \in Nat : IsVersionOf(heap, root, upto[n])
  <2>1. upto = LevelsFrom(fixed.heap, fixed.root)
    BY <1>1 DEF upto
  <2> QED
    BY <1>1, <1>7, <1>8, <2>1, Older!Induction
<1>10. KeyBits \in Nat /\ epoch \in Nat
  BY KeysAssumption, KeyLength
<1>11. IsVersionOf(heap, root, upto[KeyBits])
  BY <1>9, <1>10
<1>12. ASSUME NEW node \in upto[KeyBits] \ {Nil}
       PROVE  /\ node \in Objects(heap) /\ heap[node].epoch <= epoch
              /\ node # root => heap[node].prefix # <<>>
  <2>1. /\ node \in Objects(heap) /\ heap[node].epoch <= heap[root].epoch
        /\ node # root => heap[node].prefix # <<>>
    BY <1>11 DEF IsVersionOf
  <2> QED
    BY <1>2, <1>6, <1>10, <2>1
<1> QED
  BY <1>4, <1>12 DEF heap, root

\* The assertions of the lookups hold in every version of every reachable tree, for keys of
\* any length: no node is newer than the epoch that is looked at, only roots have exactly
\* one child or no label.
THEOREM ProofsNeverPanicAnywhere == Spec => []ProofsNeverPanic
<1>1. ASSUME TreeOK(tree) PROVE ProofsNeverPanic
  <2>1. SUFFICES ASSUME NEW epoch \in 0 .. tree.currEpoch, NEW node \in Version(tree, epoch, KeyBits)
                 PROVE  /\ tree.heap[node].epoch <= epoch
                        /\ node # RootAtEpoch(tree, epoch) =>
                             /\ (tree.heap[node].leftChild = Nil) = (tree.heap[node].rightChild = Nil)
                             /\ tree.heap[node].prefix # <<>>
    BY DEF ProofsNeverPanic, Epochs
  <2>2. /\ node \in Objects(tree.heap) /\ tree.heap[node].epoch <= epoch
        /\ node # RootAtEpoch(tree, epoch) => tree.heap[node].prefix # <<>>
    BY <1>1, VersionIsOld
  <2>3. tree.heap[node].prefix # <<>> =>
          (tree.heap[node].leftChild = Nil) = (tree.heap[node].rightChild = Nil)
    <3>1. PICK level : HeapOK(tree.heap, level, KeyBits, tree.currEpoch, {})
      BY <1>1 DEF TreeOK
    <3>2. ShapeOK(tree.heap, level, KeyBits, node)
      BY <2>2, <3>1 DEF HeapOK
    <3> QED
      BY <3>2 DEF ShapeOK
  <2> QED
    BY <2>2, <2>3
<1> QED
  BY <1>1, TreeInvariant, PTL

(***************************************************************************)
(* Proofs.                                                                 *)
(***************************************************************************)

Fold == INSTANCE SequenceLemmas WITH
  LoopBody <- LAMBDA fixed, n, s : CopathStep(s, fixed[n]), Claim <- LAMBDA fixed, n : TRUE

\* What a client computes after each entry of a copath.
Computed(endHash, endPrefix, copath) ==
  Fold!Loop(copath, [prefix |-> endPrefix, hash |-> endHash])

AreComputed(up, endHash, endPrefix, copath) ==
  /\ up[0] = [prefix |-> endPrefix, hash |-> endHash]
  /\ \A n \in Nat : up[n + 1] = CopathStep(up[n], copath[n + 1])
  /\ GetRootHash(endHash, endPrefix, copath) = up[Len(copath)].hash

\* What GetRootHash defines by recursion is the list of all rounds.
LEMMA RootHashSteps ==
  ASSUME NEW endHash, NEW endPrefix, NEW copath
  PROVE  AreComputed(Computed(endHash, endPrefix, copath), endHash, endPrefix, copath)
<1> DEFINE first == [prefix |-> endPrefix, hash |-> endHash]
<1>1. GetRootHash(endHash, endPrefix, copath)
        = Computed(endHash, endPrefix, copath)[Len(copath)].hash
  BY DEF GetRootHash, Computed, Fold!Loop, Fold!IsLoop
<1> HIDE DEF first
<1>2. /\ Fold!Loop(copath, first)[0] = first
      /\ \A n \in Nat :
           Fold!Loop(copath, first)[n + 1] = CopathStep(Fold!Loop(copath, first)[n], copath[n + 1])
  BY Fold!LoopRounds
<1>3. Computed(endHash, endPrefix, copath) = Fold!Loop(copath, first)
  BY DEF Computed, first
<1> QED
  BY <1>1, <1>2, <1>3 DEF AreComputed, first

\* The prefix of what is below the i-th node of a path.
PrefixBelow(heap, path, endPrefix, i) ==
  IF i = Len(path) THEN endPrefix ELSE heap[path[i + 1]].prefix

\* The entries of a copath, from the end of the path upwards.
LEMMA CopathEntries ==
  ASSUME NEW heap, NEW path \in Seq(Objects(heap)), NEW endPrefix,
         NEW copath, copath = BuildCopath(heap, path, endPrefix)
  PROVE  /\ Len(copath) = Len(path)
         /\ \A i \in 1 .. Len(path) :
              copath[Len(path) - i + 1] =
                [ PartialPrefix  |-> heap[path[i]].prefix,
                  OtherChildHash |->
                    HashOf(heap, Child(heap, path[i], 1 - PrefixBelow(heap, path, endPrefix, i)[1])) ]
<1> DEFINE m == Len(path)
           labels == [ i \in 1 .. m |-> heap[path[i]].prefix ]
           way == Append(labels, endPrefix)
           entry(i) == [ PartialPrefix  |-> heap[path[i]].prefix,
                         OtherChildHash |-> HashOf(heap, Child(heap, path[i], 1 - way[i + 1][1])) ]
           down == [ i \in 1 .. m |-> entry(i) ]
<1>1. m \in Nat /\ DOMAIN path = 1 .. m
  OBVIOUS
<1>2. copath = Reverse(down)
  BY <1>1 DEF BuildCopath
<1>3. \A i \in 1 .. m : way[i + 1] = PrefixBelow(heap, path, endPrefix, i)
  <2> DEFINE T == { heap[path[i]].prefix : i \in 1 .. m } \cup {endPrefix}
  <2>1. labels \in Seq(T) /\ Len(labels) = m /\ endPrefix \in T
    BY <1>1
  <2>2. \A i \in 1 .. m : i # m => labels[i + 1] = heap[path[i + 1]].prefix
    <3>1. SUFFICES ASSUME NEW i \in 1 .. m, i # m
                   PROVE  labels[i + 1] = heap[path[i + 1]].prefix
      OBVIOUS
    <3>2. i + 1 \in 1 .. m
      <4>1. i \in 1 .. m /\ i # m
        BY <3>1
      <4> HIDE DEF m
      <4> QED
        BY <1>1, <4>1
    <3> QED
      BY <3>2
  <2> HIDE DEF labels, T
  <2>3. ASSUME NEW i \in 1 .. m PROVE way[i + 1] = IF i = m THEN endPrefix ELSE labels[i + 1]
    <3> HIDE DEF m
    <3> QED
      BY <1>1, <2>1
  <2> HIDE DEF labels, way
  <2> QED
    BY <2>2, <2>3 DEF PrefixBelow
<1> HIDE DEF way, labels
<1>4. Len(down) = m /\ DOMAIN down = 1 .. m
  BY <1>1
<1>5. copath = [ i \in 1 .. m |-> down[m - i + 1] ]
  BY <1>2, <1>4 DEF Reverse
<1>6. ASSUME NEW i \in 1 .. m PROVE copath[m - i + 1] = entry(i)
  <2>1. m - i + 1 \in 1 .. m /\ m - (m - i + 1) + 1 = i
    BY <1>1
  <2>2. copath[m - i + 1] = down[i]
    BY <1>5, <2>1
  <2> QED
    BY <2>2
<1>7. Len(copath) = m
  BY <1>1, <1>5
<1> QED
  BY <1>3, <1>6, <1>7

\* The stored hash of a node is that of its label and its children.
IsHashed(heap, a) ==
  heap[a].hash = InternalHash(heap[a].prefix, HashOf(heap, Child(heap, a, 0)),
                              HashOf(heap, Child(heap, a, 1)))

\* A path down from a root, along the first bits of the labels, of nodes that are hashed.
IsPathDown(heap, path) ==
  /\ path \in Seq(Objects(heap)) /\ path # <<>>
  /\ \A i \in 1 .. Len(path) : IsHashed(heap, path[i])
  /\ \A i \in 1 .. Len(path) - 1 :
       /\ heap[path[i + 1]].prefix[1] \in {0, 1}
       /\ path[i + 1] = Child(heap, path[i], heap[path[i + 1]].prefix[1])

\* What a proof's end node has to be.
IsBelow(heap, path, endHash, endPrefix) ==
  /\ endPrefix[1] \in {0, 1}
  /\ endHash = HashOf(heap, Child(heap, path[Len(path)], endPrefix[1]))

\* Before its n-th entry from the end of the path on, the client has what is below the node.
HasBelow(heap, path, endHash, endPrefix, n, s) ==
  n <= Len(path) =>
    /\ s.prefix = PrefixBelow(heap, path, endPrefix, Len(path) - n)
    /\ s.hash = IF n = 0 THEN endHash ELSE heap[path[Len(path) - n + 1]].hash

Below == INSTANCE SequenceLemmas WITH
  LoopBody <- LAMBDA fixed, n, s : s,
  Claim <- LAMBDA fixed, n :
             HasBelow(fixed.heap, fixed.path, fixed.endHash, fixed.endPrefix, n,
                      Computed(fixed.endHash, fixed.endPrefix,
                               BuildCopath(fixed.heap, fixed.path, fixed.endPrefix))[n])

\* One entry of the copath leads from what is below a node to the node.
LEMMA CopathStepRises ==
  ASSUME NEW heap, NEW path, IsPathDown(heap, path),
         NEW endPrefix, NEW endHash, IsBelow(heap, path, endHash, endPrefix),
         NEW n \in Nat, n < Len(path), NEW s, HasBelow(heap, path, endHash, endPrefix, n, s),
         NEW copath, copath = BuildCopath(heap, path, endPrefix), NEW entry, entry = copath[n + 1]
  PROVE  HasBelow(heap, path, endHash, endPrefix, n + 1, CopathStep(s, entry))
<1> DEFINE m == Len(path)
           i == m - n
           node == path[i]
           label == PrefixBelow(heap, path, endPrefix, i)
           below == Child(heap, node, label[1])
<1>1. path \in Seq(Objects(heap)) /\ m \in Nat /\ i \in 1 .. m /\ i \in Nat
      /\ m - (n + 1) + 1 = i /\ m - i + 1 = n + 1 /\ (i = m <=> n = 0)
  BY DEF IsPathDown
<1> HIDE DEF m, i, node, label, below
<1>2. s.prefix = label /\ s.hash = IF n = 0 THEN endHash ELSE heap[path[i + 1]].hash
  <2>1. n <= Len(path)
    BY <1>1 DEF m
  <2> QED
    BY <2>1 DEF HasBelow, label, m, i
<1>3. label[1] \in {0, 1} /\ s.hash = HashOf(heap, below)
  <2>1. CASE n = 0
    <3>1. label = endPrefix /\ node = path[Len(path)]
      BY <1>1, <2>1 DEF PrefixBelow, label, node, m
    <3> QED
      BY <1>2, <2>1, <3>1 DEF IsBelow, below
  <2>2. CASE n # 0
    <3>1. i \in 1 .. m - 1 /\ i + 1 \in 1 .. m
      BY <1>1, <2>2
    <3>2. label = heap[path[i + 1]].prefix
      BY <1>1, <2>2 DEF PrefixBelow, label, m
    <3>3. label[1] \in {0, 1} /\ path[i + 1] = below
      BY <3>1, <3>2 DEF IsPathDown, below, node, m
    <3>4. path[i + 1] # Nil
      <4>1. i + 1 \in 1 .. Len(path)
        BY <3>1 DEF m
      <4>2. path[i + 1] \in Objects(heap)
        BY <1>1, <4>1
      <4> QED
        BY <4>2 DEF Objects, Nil
    <3> QED
      BY <1>2, <2>2, <3>3, <3>4 DEF HashOf
  <2> QED
    BY <2>1, <2>2
<1>4. entry = [ PartialPrefix |-> heap[node].prefix,
                OtherChildHash |-> HashOf(heap, Child(heap, node, 1 - label[1])) ]
  <2>1. entry = copath[m - i + 1]
    BY <1>1
  <2> QED
    BY <1>1, <2>1, CopathEntries DEF label, node, m
<1>5. heap[node].hash = InternalHash(heap[node].prefix, HashOf(heap, Child(heap, node, 0)),
                                     HashOf(heap, Child(heap, node, 1)))
  BY <1>1 DEF IsPathDown, IsHashed, node, m
<1> DEFINE next == CopathStep(s, entry)
<1>6. next.prefix = heap[node].prefix /\ next.hash = heap[node].hash
  <2> DEFINE left == HashOf(heap, Child(heap, node, 0))
             right == HashOf(heap, Child(heap, node, 1))
  <2>1. CASE label[1] = 0
    <3>1. s.hash = left /\ entry.OtherChildHash = right
      BY <1>3, <1>4, <2>1 DEF below
    <3> QED
      BY <1>2, <1>4, <1>5, <2>1, <3>1 DEF CopathStep
  <2>2. CASE label[1] = 1
    <3>1. s.hash = right /\ entry.OtherChildHash = left
      BY <1>3, <1>4, <2>2 DEF below
    <3> QED
      BY <1>2, <1>4, <1>5, <2>2, <3>1 DEF CopathStep
  <2> QED
    BY <1>3, <2>1, <2>2
<1>7. m - (n + 1) # m /\ n + 1 # 0
  BY <1>1
<1> HIDE DEF next
<1>8. HasBelow(heap, path, endHash, endPrefix, n + 1, next)
  <2>1. PrefixBelow(heap, path, endPrefix, m - (n + 1)) = heap[node].prefix
    <3>1. m - (n + 1) + 1 = i
      BY <1>1
    <3> QED
      BY <1>7, <3>1 DEF PrefixBelow, m, node
  <2>2. heap[path[m - (n + 1) + 1]].hash = heap[node].hash
    BY <1>1 DEF node
  <2> QED
    BY <1>6, <1>7, <2>1, <2>2 DEF HasBelow, m
<1> QED
  BY <1>8 DEF next

\* A client that starts with what is below the end of a path arrives at the hash of the root.
LEMMA CopathLeadsToRoot ==
  ASSUME NEW heap, NEW path, IsPathDown(heap, path),
         NEW endPrefix, NEW endHash, IsBelow(heap, path, endHash, endPrefix)
  PROVE  RootOverCopath(heap, path, endHash, endPrefix) = heap[path[1]].hash
<1> DEFINE fixed == [heap |-> heap, path |-> path, endHash |-> endHash, endPrefix |-> endPrefix]
           copath == BuildCopath(heap, path, endPrefix)
           up == Computed(endHash, endPrefix, copath)
           m == Len(path)
<1>1. /\ fixed.heap = heap /\ fixed.path = path
      /\ fixed.endHash = endHash /\ fixed.endPrefix = endPrefix
  OBVIOUS
<1> HIDE DEF fixed
<1>2. path \in Seq(Objects(heap)) /\ m \in Nat \ {0}
  BY DEF IsPathDown
<1> HIDE DEF copath
<1>3. copath = BuildCopath(heap, path, endPrefix)
  BY DEF copath
<1>4. Len(copath) = m
  BY <1>2, <1>3, CopathEntries
<1>5. up = Computed(fixed.endHash, fixed.endPrefix,
                    BuildCopath(fixed.heap, fixed.path, fixed.endPrefix))
  BY <1>1 DEF copath
<1>6. AreComputed(up, endHash, endPrefix, copath)
  BY RootHashSteps
<1> HIDE DEF up
<1>7. HasBelow(heap, path, endHash, endPrefix, 0, up[0])
  BY <1>2, <1>6 DEF AreComputed, HasBelow, PrefixBelow
<1>8. ASSUME NEW n \in Nat, HasBelow(heap, path, endHash, endPrefix, n, up[n])
      PROVE  HasBelow(heap, path, endHash, endPrefix, n + 1, up[n + 1])
  <2>1. CASE n < m
    <3> DEFINE s == up[n]
               entry == copath[n + 1]
    <3>1. HasBelow(heap, path, endHash, endPrefix, n, s)
      BY <1>8
    <3>2. up[n + 1] = CopathStep(s, entry)
      BY <1>6 DEF AreComputed
    <3>3. entry = copath[n + 1] /\ n < Len(path)
      BY <2>1
    <3> HIDE DEF s, entry, m
    <3>4. HasBelow(heap, path, endHash, endPrefix, n + 1, CopathStep(s, entry))
      BY <1>3, <3>1, <3>3, CopathStepRises
    <3> QED
      BY <3>2, <3>4
  <2>2. CASE ~ (n < m)
    BY <1>2, <2>2 DEF HasBelow
  <2> QED
    BY <2>1, <2>2
<1>9. \A n \in Nat : HasBelow(heap, path, endHash, endPrefix, n, up[n])
  BY <1>1, <1>5, <1>7, <1>8, Below!Induction
<1>10. up[m].hash = heap[path[1]].hash
  <2>1. HasBelow(heap, path, endHash, endPrefix, m, up[m])
    BY <1>2, <1>9
  <2>2. m <= m /\ m # 0 /\ m - m + 1 = 1
    BY <1>2
  <2> QED
    BY <2>1, <2>2 DEF HasBelow
<1> QED
  BY <1>3, <1>4, <1>6, <1>10 DEF RootOverCopath, AreComputed

\* The path of a walk: it starts at the root, all nodes on it are among those given, and
\* each is the child of the one above.
IsWayDown(heap, root, nodes, path) ==
  /\ path \in Seq(Objects(heap)) /\ path # <<>>
  /\ path[1] = root
  /\ \A i \in 1 .. Len(path) : path[i] \in nodes
  /\ \A i \in 1 .. Len(path) - 1 :
       /\ heap[path[i + 1]].prefix[1] \in {0, 1}
       /\ path[i + 1] = Child(heap, path[i], heap[path[i + 1]].prefix[1])

Chain == INSTANCE SequenceLemmas WITH
  LoopBody <- LAMBDA fixed, n, s : s,
  Claim <- LAMBDA fixed, n :
             IsWayDown(fixed.heap, fixed.root, LevelsFrom(fixed.heap, fixed.root)[n],
                       Steps(fixed.heap, fixed.root, fixed.key)[n].path)

\* The way goes one node down.
LEMMA WayIsExtended ==
  ASSUME NEW heap, NEW root, NEW nodes, NEW path, IsWayDown(heap, root, nodes, path),
         NEW c \in Objects(heap), NEW bit \in {0, 1},
         c = Child(heap, Last(path), bit), heap[c].prefix[1] = bit
  PROVE  IsWayDown(heap, root, Deeper(heap, nodes), Append(path, c))
<1> DEFINE m == Len(path)
           longer == Append(path, c)
<1>1. /\ path \in Seq(Objects(heap)) /\ m \in Nat \ {0} /\ Last(path) = path[m]
      /\ m \in 1 .. m
  BY DEF IsWayDown, Last
<1>2. /\ longer \in Seq(Objects(heap)) /\ longer # <<>> /\ Len(longer) = m + 1
      /\ longer[m + 1] = c /\ \A i \in 1 .. m : longer[i] = path[i]
  BY <1>1
<1>3. path[m] \in nodes /\ path[m] # Nil
  <2>1. path[m] \in Objects(heap) /\ path[m] \in nodes
    BY <1>1 DEF IsWayDown
  <2> QED
    BY <2>1 DEF Objects, Nil
<1> HIDE DEF longer
<1>4. c \in Deeper(heap, nodes) /\ nodes \subseteq Deeper(heap, nodes)
  BY <1>1, <1>3 DEF Deeper
<1>5. \A i \in 1 .. m : path[i] \in nodes
  BY DEF IsWayDown
<1>6. \A i \in 1 .. m - 1 : /\ heap[path[i + 1]].prefix[1] \in {0, 1}
                            /\ path[i + 1] = Child(heap, path[i], heap[path[i + 1]].prefix[1])
  BY DEF IsWayDown
<1>7. path[1] = root
  BY DEF IsWayDown
<1> HIDE DEF m
<1>8. longer[1] = root
  BY <1>1, <1>2, <1>7
<1>9. ASSUME NEW i \in 1 .. m + 1 PROVE longer[i] \in Deeper(heap, nodes)
  BY <1>1, <1>2, <1>4, <1>5
<1>10. ASSUME NEW i \in 1 .. m
       PROVE  /\ heap[longer[i + 1]].prefix[1] \in {0, 1}
              /\ longer[i + 1] = Child(heap, longer[i], heap[longer[i + 1]].prefix[1])
  <2>1. CASE i = m
    BY <1>1, <1>2, <2>1
  <2>2. CASE i # m
    <3>1. i \in 1 .. m - 1 /\ i + 1 \in 1 .. m
      BY <1>1, <2>2
    <3>2. longer[i] = path[i] /\ longer[i + 1] = path[i + 1]
      BY <1>2, <3>1
    <3> QED
      BY <1>6, <3>1, <3>2
  <2> QED
    BY <2>1, <2>2
<1>11. Len(longer) - 1 = m
  BY <1>1, <1>2
<1>12. IsWayDown(heap, root, Deeper(heap, nodes), longer)
  BY <1>2, <1>8, <1>9, <1>10, <1>11 DEF IsWayDown
<1> QED
  BY <1>12 DEF longer

\* More nodes do no harm.
LEMMA WayAmongMore ==
  ASSUME NEW heap, NEW root, NEW nodes, NEW path, IsWayDown(heap, root, nodes, path)
  PROVE  IsWayDown(heap, root, Deeper(heap, nodes), path)
<1>1. nodes \subseteq Deeper(heap, nodes)
  BY DEF Deeper
<1> QED
  BY <1>1 DEF IsWayDown

\* A walk for a key stays among the nodes of as many levels as it has made steps.
LEMMA StepsAreInVersion ==
  ASSUME NEW heap, NEW level, NEW bits, NEW epoch, NEW open, HeapOK(heap, level, bits, epoch, open),
         NEW root \in Objects(heap), heap[root].prefix = <<>>,
         NEW key \in Seq({0, 1}), Len(key) = bits
  PROVE  \A n \in Nat : IsWayDown(heap, root, LevelsFrom(heap, root)[n], Steps(heap, root, key)[n].path)
<1> DEFINE fixed == [heap |-> heap, root |-> root, key |-> key]
           step == Steps(heap, root, key)
           upto == LevelsFrom(heap, root)
<1>1. fixed.heap = heap /\ fixed.root = root /\ fixed.key = key
  OBVIOUS
<1> HIDE DEF fixed
<1>2. /\ step[0] = [path |-> <<root>>, bits |-> 0]
      /\ \A n \in Nat : step[n + 1] = DescendStep(heap, key, step[n])
  BY DescendSteps
<1>3. upto[0] = {root} /\ \A n \in Nat : upto[n + 1] = Deeper(heap, upto[n])
  BY Levels!LoopRounds DEF LevelsFrom
<1>4. \A n \in Nat : IsOnWay(heap, level, root, key, n, step[n])
  BY StepsAreOnWay
<1>5. step = Steps(fixed.heap, fixed.root, fixed.key) /\ upto = LevelsFrom(fixed.heap, fixed.root)
  BY <1>1
<1> HIDE DEF step, upto
<1>6. IsWayDown(heap, root, upto[0], step[0].path)
  <2>1. <<root>> \in Seq(Objects(heap)) /\ <<root>> # <<>> /\ Len(<<root>>) = 1 /\ <<root>>[1] = root
    OBVIOUS
  <2>2. \A i \in 1 .. 1 : i = 1
    OBVIOUS
  <2>3. 1 .. 1 - 1 = {}
    OBVIOUS
  <2> QED
    BY <1>2, <1>3, <2>1, <2>2, <2>3 DEF IsWayDown
<1>7. ASSUME NEW n \in Nat, IsWayDown(heap, root, upto[n], step[n].path)
      PROVE  IsWayDown(heap, root, upto[n + 1], step[n + 1].path)
  <2> DEFINE s == step[n]
             nodes == upto[n]
             c == Ahead(heap, key, s)
             at == Last(s.path)
  <2>1. /\ IsOnWay(heap, level, root, key, n, s) /\ IsWayDown(heap, root, nodes, s.path)
        /\ step[n + 1] = DescendStep(heap, key, s) /\ upto[n + 1] = Deeper(heap, nodes)
    BY <1>2, <1>3, <1>4, <1>7
  <2> HIDE DEF s, nodes
  <2>2. CASE IsStuck(heap, key, s)
    <3>1. step[n + 1] = s
      BY <2>1, <2>2 DEF DescendStep
    <3> QED
      BY <2>1, <3>1, WayAmongMore
  <2>3. CASE ~ IsStuck(heap, key, s)
    <3> DEFINE bit == key[s.bits + 1]
    <3>1. c # Nil /\ s.bits # bits /\ c = Child(heap, at, bit)
      BY <2>3 DEF IsStuck, Ahead
    <3>2. at \in Objects(heap) /\ s.bits \in 0 .. bits /\ bits \in Nat
      BY <2>1, LastOfPath DEF IsOnWay, HeapOK
    <3>3. bit \in {0, 1}
      <4>1. s.bits + 1 \in 1 .. Len(key)
        BY <3>1, <3>2
      <4> QED
        BY <4>1
    <3> HIDE DEF bit, c
    <3>4. ChildOK(heap, level, at, bit)
      BY <3>2, <3>3 DEF HeapOK, ObjectOK
    <3>5. c \in Objects(heap) /\ heap[c].prefix[1] = bit
      BY <3>1, <3>4 DEF ChildOK
    <3>6. step[n + 1].path = Append(s.path, c)
      BY <2>1, <2>3 DEF DescendStep, c
    <3> QED
      BY <2>1, <3>1, <3>3, <3>5, <3>6, WayIsExtended
  <2> QED
    BY <2>2, <2>3
<1> QED
  BY <1>1, <1>5, <1>6, <1>7, Chain!Induction

\* The path of every lookup is among the nodes of the version.
LEMMA PathIsInVersion ==
  ASSUME NEW t, TreeOK(t), NEW epoch \in 0 .. t.currEpoch, NEW key \in Keys
  PROVE  /\ IsWayDown(t.heap, RootAtEpoch(t, epoch), Version(t, epoch, KeyBits),
                      PathTo(t, key, epoch).path)
         /\ RootAtEpoch(t, epoch) \in Objects(t.heap)
         /\ t.heap[RootAtEpoch(t, epoch)].prefix = <<>>
<1> DEFINE heap == t.heap
           root == RootAtEpoch(t, epoch)
           way == PathTo(t, key, epoch)
<1>1. PICK level : HeapOK(heap, level, KeyBits, t.currEpoch, {})
  BY DEF TreeOK
<1>2. root \in Objects(heap) /\ heap[root].prefix = <<>>
  BY DEF TreeOK, RootsOK
<1>3. key \in Seq({0, 1}) /\ Len(key) = KeyBits /\ KeyBits \in Nat
  BY KeyLength
<1>4. way = Steps(heap, root, key)[KeyBits]
  <2>1. way = Descend(heap, root, key)
    BY DEF PathTo
  <2> HIDE DEF heap, root, way
  <2>2. Descend(heap, root, key) = Steps(heap, root, key)[Len(key)]
    BY DescendSteps, Zenon
  <2> QED
    BY <1>3, <2>1, <2>2
<1>5. Version(t, epoch, KeyBits) = LevelsFrom(heap, root)[KeyBits] \ {Nil}
  BY DEF Version, LevelsFrom, Levels!Loop, Levels!IsLoop, Deeper
<1> HIDE DEF heap, root, way
<1>6. \A n \in Nat : IsWayDown(heap, root, LevelsFrom(heap, root)[n], Steps(heap, root, key)[n].path)
  BY <1>1, <1>2, <1>3, StepsAreInVersion
<1>7. IsWayDown(heap, root, LevelsFrom(heap, root)[KeyBits], way.path)
  BY <1>3, <1>4, <1>6
<1>8. \A i \in 1 .. Len(way.path) : way.path[i] # Nil
  <2>1. way.path \in Seq(Objects(heap))
    BY <1>7 DEF IsWayDown
  <2>2. \A i \in 1 .. Len(way.path) : way.path[i] \in Objects(heap)
    BY <2>1
  <2> QED
    BY <2>2 DEF Objects, Nil
<1>9. IsWayDown(heap, root, Version(t, epoch, KeyBits), way.path)
  BY <1>5, <1>7, <1>8 DEF IsWayDown
<1> QED
  BY <1>2, <1>9 DEF heap, root, way

\* In a sound tree with a root hash, every node on a path is hashed that has a child.
LEMMA SoundNodes ==
  ASSUME NEW t, TreeOK(t), Sound(t), GetHash(t, t.currEpoch) # NilHash,
         NEW a \in Version(t, t.currEpoch, KeyBits)
  PROVE  /\ t.heap[a].hash = ComputedHash(t.heap, a)
         /\ Child(t.heap, a, 0) # Nil \/ Child(t.heap, a, 1) # Nil => IsHashed(t.heap, a)
<1>1. RootAtEpoch(t, t.currEpoch) = t.currRoot
  BY DEF RootAtEpoch
<1>2. t.heap[a].hash = ComputedHash(t.heap, a)
  <2>1. a = t.currRoot => t.heap[a].hash # NilHash
    BY <1>1 DEF GetHash
  <2> QED
    BY <2>1 DEF Sound
<1> QED
  BY <1>2 DEF ComputedHash, IsHashed, Child

\* All but the last element of a sequence of several elements.
LEMMA FrontOf ==
  ASSUME NEW S, NEW s \in Seq(S), Len(s) \in Nat \ {0, 1}
  PROVE  /\ Front(s) \in Seq(S) /\ Len(Front(s)) = Len(s) - 1 /\ Front(s) # <<>>
         /\ \A i \in 1 .. Len(s) - 1 : Front(s)[i] = s[i]
<1> DEFINE k == Len(s) - 1
           front == SubSeq(s, 1, k)
<1>1. Front(s) = front
  BY DEF Front
<1>2. front \in Seq(S) /\ Len(front) = k /\ \A i \in 1 .. k : front[i] = s[i]
  <2>1. k \in 0 .. Len(s)
    OBVIOUS
  <2>2. \A n \in 0 .. Len(s) : SubSeq(s, 1, n) \in Seq(S) /\ Len(SubSeq(s, 1, n)) = n
    OBVIOUS
  <2>3. \A n \in 0 .. Len(s) : \A i \in 1 .. n : SubSeq(s, 1, n)[i] = s[i]
    OBVIOUS
  <2> QED
    BY <2>1, <2>2, <2>3
<1>3. front # <<>>
  <2>1. Len(front) # 0
    BY <1>2
  <2>2. Len(<<>>) = 0
    OBVIOUS
  <2> HIDE DEF front
  <2> QED
    BY <2>1, <2>2
<1> HIDE DEF front
<1> QED
  BY <1>1, <1>2, <1>3

\* In a sound tree the membership proof of a present key leads to the root hash.
LEMMA MembershipIsSound ==
  ASSUME NEW t, TreeOK(t), Sound(t), GetHash(t, t.currEpoch) # NilHash,
         NEW key \in Keys, GetLeaf(t, key, t.currEpoch) # Nil
  PROVE  MembershipRoot(t, key, t.currEpoch) = GetHash(t, t.currEpoch)
<1> DEFINE heap == t.heap
           epoch == t.currEpoch
           root == RootAtEpoch(t, epoch)
           nodes == Version(t, epoch, KeyBits)
           way == PathTo(t, key, epoch)
           path == way.path
           m == Len(path)
           leaf == Last(path)
           front == Front(path)
           label == heap[leaf].prefix
           hash == LeafHash(label, heap[leaf].values)
<1>1. PICK level : HeapOK(heap, level, KeyBits, epoch, {})
  BY DEF TreeOK
<1>2. epoch \in 0 .. epoch
  BY DEF TreeOK
<1>3. /\ IsWayDown(heap, root, nodes, path)
      /\ root \in Objects(heap) /\ heap[root].prefix = <<>>
  BY <1>2, PathIsInVersion
<1>4. key \in Seq({0, 1}) /\ Len(key) = KeyBits /\ KeyBits \in Nat \ {0}
  BY KeyLength
<1>5. way.bits = KeyBits /\ way = Descend(heap, root, key)
  BY <1>4 DEF GetLeaf, PathTo
<1>6. ASSUME NEW a \in nodes
      PROVE  /\ heap[a].hash = ComputedHash(heap, a)
             /\ Child(heap, a, 0) # Nil \/ Child(heap, a, 1) # Nil => IsHashed(heap, a)
  BY SoundNodes
<1>7. MembershipRoot(t, key, epoch) = RootOverCopath(heap, front, hash, label)
  BY DEF MembershipRoot
<1>8. GetHash(t, epoch) = heap[root].hash
  BY DEF GetHash
<1> HIDE DEF heap, epoch, root, nodes, way
<1>9. leaf \in Objects(heap) /\ level[leaf] = KeyBits
  BY <1>1, <1>3, <1>4, <1>5, DescendEnds
<1>10. path \in Seq(Objects(heap)) /\ m \in Nat \ {0} /\ leaf = path[m] /\ path[1] = root
  BY <1>3 DEF IsWayDown, Last
<1>11. m \in Nat \ {0, 1}
  <2>1. level[root] = 0
    BY <1>1, <1>3, RootLevel
  <2>2. leaf # root
    BY <1>4, <1>9, <2>1
  <2> QED
    BY <1>10, <2>2
<1> HIDE DEF path
<1>12. /\ front \in Seq(Objects(heap)) /\ Len(front) = m - 1 /\ front # <<>>
       /\ \A i \in 1 .. m - 1 : front[i] = path[i]
  BY <1>10, <1>11, FrontOf
<1>13. \A i \in 1 .. m : path[i] \in nodes /\ path[i] # Nil
  <2>1. \A i \in 1 .. m : path[i] \in nodes /\ path[i] \in Objects(heap)
    BY <1>10, <1>3 DEF IsWayDown
  <2> QED
    BY <2>1 DEF Objects, Nil
<1>14. \A i \in 1 .. m - 1 : /\ heap[path[i + 1]].prefix[1] \in {0, 1}
                             /\ path[i + 1] = Child(heap, path[i], heap[path[i + 1]].prefix[1])
  BY <1>3 DEF IsWayDown
<1> HIDE DEF m, front
<1>15. IsPathDown(heap, front)
  <2>1. ASSUME NEW i \in 1 .. m - 1 PROVE IsHashed(heap, front[i])
    <3>1. i \in 1 .. m /\ i + 1 \in 1 .. m
      BY <1>11, <2>1
    <3>2. Child(heap, path[i], 0) # Nil \/ Child(heap, path[i], 1) # Nil
      BY <1>13, <1>14, <3>1
    <3> QED
      BY <1>6, <1>12, <1>13, <3>1, <3>2
  <2>2. ASSUME NEW i \in 1 .. Len(front) - 1
        PROVE  /\ heap[front[i + 1]].prefix[1] \in {0, 1}
               /\ front[i + 1] = Child(heap, front[i], heap[front[i + 1]].prefix[1])
    <3>1. i \in 1 .. m - 1 /\ i + 1 \in 1 .. m - 1
      BY <1>11, <1>12, <2>2
    <3> QED
      BY <1>12, <1>14, <3>1
  <2> QED
    BY <1>12, <2>1, <2>2 DEF IsPathDown
<1>16. IsBelow(heap, front, hash, label)
  <2>1. m - 1 \in 1 .. m - 1 /\ m - 1 + 1 = m /\ m \in 1 .. m
    BY <1>11
  <2>2. front[Len(front)] = path[m - 1]
    BY <1>12, <2>1
  <2>3. label[1] \in {0, 1} /\ leaf = Child(heap, path[m - 1], label[1])
    BY <1>10, <1>14, <2>1
  <2>4. Child(heap, leaf, 0) = Nil /\ Child(heap, leaf, 1) = Nil
    <3>1. ASSUME NEW bit \in {0, 1}, Child(heap, leaf, bit) # Nil PROVE FALSE
      <4> DEFINE c == Child(heap, leaf, bit)
      <4>1. ChildOK(heap, level, leaf, bit)
        BY <1>1, <1>9 DEF HeapOK, ObjectOK
      <4>2. c \in Objects(heap) /\ heap[c].parent # Nil /\ level[c] = level[leaf] + Len(heap[c].prefix)
        BY <3>1, <4>1 DEF ChildOK
      <4>3. heap[c].prefix \in Seq({0, 1}) /\ heap[c].prefix # <<>> /\ level[c] \in 0 .. KeyBits
        BY <1>1, <4>2 DEF HeapOK, ObjectOK, ParentOK
      <4> HIDE DEF c, leaf
      <4>4. Len(heap[c].prefix) \in Nat \ {0}
        BY <4>3
      <4> QED
        BY <1>4, <1>9, <4>2, <4>3, <4>4
    <3> QED
      BY <3>1
  <2>5. leaf \in nodes /\ leaf # Nil
    BY <1>10, <1>13, <2>1
  <2>6. heap[leaf].hash = hash
    BY <1>6, <2>4, <2>5 DEF ComputedHash, Child
  <2> HIDE DEF leaf, hash, label
  <2> QED
    BY <2>2, <2>3, <2>5, <2>6 DEF IsBelow, HashOf
<1>17. RootOverCopath(heap, front, hash, label) = heap[front[1]].hash
  <2> HIDE DEF hash, label
  <2> QED
    BY <1>15, <1>16, CopathLeadsToRoot
<1>18. front[1] = root
  <2>1. 1 \in 1 .. m - 1
    BY <1>11
  <2> QED
    BY <1>10, <1>12, <2>1
<1> QED
  BY <1>7, <1>8, <1>17, <1>18 DEF epoch

\* In a sound tree the non-membership proof of an absent key leads to the root hash.
LEMMA NonMembershipIsSound ==
  ASSUME NEW t, TreeOK(t), Sound(t), GetHash(t, t.currEpoch) # NilHash,
         NEW key \in Keys, GetLeaf(t, key, t.currEpoch) = Nil
  PROVE  NonMembershipRoot(t, key, t.currEpoch) = GetHash(t, t.currEpoch)
<1> DEFINE heap == t.heap
           epoch == t.currEpoch
           root == RootAtEpoch(t, epoch)
           nodes == Version(t, epoch, KeyBits)
           way == PathTo(t, key, epoch)
           path == way.path
           m == Len(path)
           last == Last(path)
           bit == key[way.bits + 1]
           below == Child(heap, last, bit)
           hash == HashOf(heap, below)
           label == IF below = Nil THEN <<bit>> ELSE heap[below].prefix
<1>1. PICK level : HeapOK(heap, level, KeyBits, epoch, {})
  BY DEF TreeOK
<1>2. epoch \in 0 .. epoch
  BY DEF TreeOK
<1>3. /\ IsWayDown(heap, root, nodes, path)
      /\ root \in Objects(heap) /\ heap[root].prefix = <<>>
  BY <1>2, PathIsInVersion
<1>4. key \in Seq({0, 1}) /\ Len(key) = KeyBits /\ KeyBits \in Nat \ {0}
  BY KeyLength
<1>5. way = Descend(heap, root, key)
  BY DEF PathTo
<1>6. ASSUME NEW a \in nodes
      PROVE  /\ heap[a].hash = ComputedHash(heap, a)
             /\ Child(heap, a, 0) # Nil \/ Child(heap, a, 1) # Nil => IsHashed(heap, a)
  BY SoundNodes
<1>7. NonMembershipRoot(t, key, epoch) = RootOverCopath(heap, path, hash, label)
  BY DEF NonMembershipRoot
<1>8. GetHash(t, epoch) = heap[root].hash
  BY DEF GetHash
<1>9. way.bits = KeyBits => last = Nil
  BY <1>4 DEF GetLeaf
<1> HIDE DEF heap, epoch, root, nodes, way, bit
<1>10. /\ last \in Objects(heap) /\ way.bits = level[last] /\ way.bits \in 0 .. KeyBits
  BY <1>1, <1>3, <1>4, <1>5, DescendEnds
<1>11. path \in Seq(Objects(heap)) /\ m \in Nat \ {0} /\ last = path[m] /\ path[1] = root /\ path # <<>>
  BY <1>3 DEF IsWayDown, Last
<1>12. level[last] # KeyBits
  BY <1>9, <1>10 DEF Objects, Nil
<1>13. bit \in {0, 1}
  <2>1. way.bits + 1 \in 1 .. Len(key)
    BY <1>4, <1>10, <1>12
  <2> QED
    BY <1>4, <2>1 DEF bit
<1> HIDE DEF path
<1>14. \A i \in 1 .. m : path[i] \in nodes /\ path[i] # Nil
  <2>1. \A i \in 1 .. m : path[i] \in nodes /\ path[i] \in Objects(heap)
    BY <1>11, <1>3 DEF IsWayDown
  <2> QED
    BY <2>1 DEF Objects, Nil
<1>15. \A i \in 1 .. m - 1 : /\ heap[path[i + 1]].prefix[1] \in {0, 1}
                             /\ path[i + 1] = Child(heap, path[i], heap[path[i + 1]].prefix[1])
  BY <1>3 DEF IsWayDown
<1>16. IsHashed(heap, last)
  <2>1. last \in nodes
    <3>1. m \in 1 .. m
      BY <1>11
    <3> QED
      BY <1>11, <1>14, <3>1
  <2> HIDE DEF last
  <2>2. CASE Child(heap, last, 0) # Nil \/ Child(heap, last, 1) # Nil
    BY <1>6, <2>1, <2>2
  <2>3. CASE Child(heap, last, 0) = Nil /\ Child(heap, last, 1) = Nil
    <3>1. ShapeOK(heap, level, KeyBits, last) /\ ObjectOK(heap, level, KeyBits, epoch, last)
      BY <1>1, <1>10 DEF HeapOK
    <3>2. heap[last].prefix = <<>>
      BY <1>12, <2>3, <3>1 DEF ShapeOK, Child
    <3>3. heap[last].values = <<>>
      BY <3>1, <3>2 DEF ObjectOK
    <3>4. heap[last].hash = ComputedHash(heap, last)
      BY <1>6, <2>1
    <3> QED
      BY <2>3, <3>2, <3>3, <3>4 DEF ComputedHash, LeafHash, IsHashed, HashOf, Child
  <2> QED
    BY <2>2, <2>3
<1>17. IsPathDown(heap, path)
  <2> HIDE DEF last, m
  <2>1. ASSUME NEW i \in 1 .. m PROVE IsHashed(heap, path[i])
    <3>1. CASE i = m
      BY <1>11, <1>16, <3>1
    <3>2. CASE i # m
      <4>1. i \in 1 .. m - 1 /\ i + 1 \in 1 .. m
        BY <1>11, <3>2
      <4>2. Child(heap, path[i], 0) # Nil \/ Child(heap, path[i], 1) # Nil
        BY <1>14, <1>15, <4>1
      <4> QED
        BY <1>6, <1>14, <4>2
    <3> QED
      BY <3>1, <3>2
  <2> QED
    BY <1>11, <1>15, <2>1 DEF IsPathDown, m
<1>18. IsBelow(heap, path, hash, label)
  <2>1. label[1] = bit
    <3>1. CASE below = Nil
      BY <3>1
    <3>2. CASE below # Nil
      <4>1. ChildOK(heap, level, last, bit)
        BY <1>1, <1>10, <1>13 DEF HeapOK, ObjectOK
      <4> QED
        BY <3>2, <4>1 DEF ChildOK
    <3> QED
      BY <3>1, <3>2
  <2> HIDE DEF label, last
  <2> QED
    BY <1>11, <1>13, <2>1 DEF IsBelow
<1>19. RootOverCopath(heap, path, hash, label) = heap[path[1]].hash
  <2> HIDE DEF hash, label
  <2> QED
    BY <1>17, <1>18, CopathLeadsToRoot
<1> QED
  BY <1>7, <1>8, <1>11, <1>19 DEF epoch

\* Whatever the keys and however many inserts and epochs: as long as stored hashes are right,
\* clients accept what the server proves, both for keys that are there and for those that
\* are not.  No other property of the tree is assumed; that hashes are not always right is
\* what MembershipProofsVerify is violated by.
THEOREM SoundTreeProofsAlwaysVerify == Spec => []SoundTreeProofsVerify
<1>1. ASSUME TreeOK(tree) PROVE SoundTreeProofsVerify
  BY <1>1, MembershipIsSound, NonMembershipIsSound DEF SoundTreeProofsVerify
<1> QED
  BY <1>1, TreeInvariant, PTL
=============================================================================
