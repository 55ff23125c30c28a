------------------------- MODULE SecureBufferProofs -------------------------
(***************************************************************************)
(* Theorems about SecureBuffer for every set of buffers and secrets and    *)
(* every bound, and about InitOnce, which s_alloc::allocate goes through,  *)
(* for any number of threads, calls and failures.  TypeCorrect carries     *)
(* those about buffers: it says that a block's unallocated cells hold      *)
(* nothing and that size never passes capacity.                            *)
(***************************************************************************)
EXTENDS SecureBuffer, InitOnce, TLAPS

\* What Push returns from a well-formed block: a larger or equal block, the
\* first n elements kept, x after them, and nothing else that the block had not
\* above n.
LEMMA PushLemma ==
    ASSUME NEW block \in [Slots -> Cells], NEW n \in 0..MaxCap, NEW c \in 0..MaxCap, n <= c,
           NEW x \in Cells, NEW r \in Push(block, n, c, x)
    PROVE  /\ r.cap \in (n + 1)..MaxCap
           /\ r.mem \in [Slots -> Cells]
           /\ \A i \in 1..n : r.mem[i] = block[i]
           /\ r.mem[n + 1] = x
           /\ r.cap = c => \A i \in Slots : i > n + 1 => r.mem[i] \in {block[i], Garbage}
           /\ r.cap # c => \A i \in Slots : i > n + 1 => r.mem[i] = Garbage
<1> USE SizeAssumption, CellAssumption DEF Slots, Cells
<1>1. CASE n < c
  <2>1. r = [cap |-> c, mem |-> [block EXCEPT ![n + 1] = x]]
    BY <1>1 DEF Push
  <2>2. r.cap = c /\ r.mem = [block EXCEPT ![n + 1] = x]
    BY <2>1
  <2> QED BY <1>1, <2>2
<1>2. CASE ~(n < c)
  <2>1. PICK d \in (n + 1)..MaxCap :
           r = [cap |-> d, mem |-> [Prefix(block, n) EXCEPT ![n + 1] = x]]
    BY <1>2 DEF Push
  <2>2. r.cap = d /\ r.mem = [Prefix(block, n) EXCEPT ![n + 1] = x]
    BY <2>1
  <2>3. Prefix(block, n) \in [Slots -> Cells]
    BY DEF Prefix
  <2>4. \A i \in Slots : Prefix(block, n)[i] = IF i <= n THEN block[i] ELSE Garbage
    BY DEF Prefix
  <2> QED BY <1>2, <2>2, <2>3, <2>4
<1> QED BY <1>1, <1>2

-----------------------------------------------------------------------------
\* The blocks handed to Push by String(vector&&) and by push_back.
GivenString(n, c, s, slack, t) ==
    IF t THEN [Given(n, c, s, slack) EXCEPT ![n] = Zero] ELSE Given(n, c, s, slack)

LEMMA GivenLemma ==
    ASSUME NEW n \in 0..MaxCap, NEW c \in 0..MaxCap, NEW s \in Secrets,
           NEW slack \in Secrets \cup {Garbage}, NEW t \in BOOLEAN
    PROVE  /\ GivenString(n, c, s, slack, t) \in [Slots -> Cells]
           /\ \A i \in Slots : GivenString(n, c, s, slack, t)[i] \in {s, slack, Zero, Garbage}
<1>1. /\ Given(n, c, s, slack) \in [Slots -> Cells]
      /\ \A i \in Slots : Given(n, c, s, slack)[i] \in {s, slack, Garbage}
  BY DEF Given, Cells
<1> QED BY <1>1 DEF GivenString, Cells

LEMMA OverwrittenLemma ==
    ASSUME TypeOK, NEW b \in Buffers, NEW s \in Secrets, IsChar => size[b] > 0
    PROVE  /\ Overwritten(b, s) \in [Slots -> Cells]
           /\ \A i \in Slots : Overwritten(b, s)[i] = IF IsChar /\ i = size[b] THEN s ELSE mem[b][i]
BY SizeAssumption DEF Overwritten, TypeOK, Slots, Cells

\* A store changes one element, below the sentinel.
LEMMA StoreFacts ==
    ASSUME TypeOK, NEW b \in Buffers, NEW i \in Slots, NEW x \in Secrets \cup {Zero}, Store(b, i, x)
    PROVE  \E block \in [Slots -> Cells] :
             /\ mem' = [mem EXCEPT ![b] = block]
             /\ \A j \in Slots : block[j] = IF j = i THEN x ELSE mem[b][j]
             /\ x \in Writable(b) \cup {Zero}
             /\ i + Sentinel <= size[b]
             /\ UNCHANGED <<kind, alive, cap, size, past>>
<1> DEFINE block == [mem[b] EXCEPT ![i] = x]
<1>1. mem[b] \in [Slots -> Cells]
  BY DEF TypeOK
<1>2. block \in [Slots -> Cells] /\ \A j \in Slots : block[j] = IF j = i THEN x ELSE mem[b][j]
  BY <1>1 DEF Cells
<1>3. mem' = [mem EXCEPT ![b] = block]
  BY DEF Store
<1> HIDE DEF block
<1> QED BY <1>2, <1>3 DEF Store

\* A well-formed vector put into a live object, and a move, keep TypeOK.
LEMMA PutTyped ==
    ASSUME TypeOK, kind' = kind, NEW b \in Buffers, NEW c \in 0..MaxCap, NEW n \in 0..MaxCap, n <= c,
           NEW block \in [Slots -> Cells], Put(b, c, n, block),
           alive' = alive \cup {b}, past' \in [Buffers -> SUBSET Marks]
    PROVE  TypeOK'
BY DEF TypeOK, Put, NoBlock

LEMMA StealTyped ==
    ASSUME TypeOK, kind' = kind, NEW a \in Buffers, NEW b \in alive, a # b, Steal(a, b),
           alive' = alive \cup {a}
    PROVE  TypeOK'
<1>1. NoBlock \in [Slots -> Cells]
  BY DEF NoBlock, Cells
<1>2. past' \in [Buffers -> SUBSET Marks]
  BY DEF TypeOK, Steal
<1>3. mem' \in [Buffers -> [Slots -> Cells]]
  BY <1>1 DEF TypeOK, Steal
<1>0. /\ b \in Buffers
      /\ cap \in [Buffers -> 0..MaxCap] /\ size \in [Buffers -> 0..MaxCap]
      /\ mem \in [Buffers -> [Slots -> Cells]]
      /\ cap' = [cap EXCEPT ![a] = cap[b], ![b] = 0]
      /\ size' = [size EXCEPT ![a] = size[b], ![b] = 0]
      /\ mem' = [mem EXCEPT ![a] = mem[b], ![b] = NoBlock]
  BY DEF TypeOK, Steal
<1>4. \A x \in Buffers : /\ cap'[x] = IF x = b THEN 0 ELSE IF x = a THEN cap[b] ELSE cap[x]
                         /\ size'[x] = IF x = b THEN 0 ELSE IF x = a THEN size[b] ELSE size[x]
                         /\ mem'[x] = IF x = b THEN NoBlock ELSE IF x = a THEN mem[b] ELSE mem[x]
  <2>1. \A x \in Buffers : cap'[x] = IF x = b THEN 0 ELSE IF x = a THEN cap[b] ELSE cap[x]
    BY <1>0
  <2>2. \A x \in Buffers : size'[x] = IF x = b THEN 0 ELSE IF x = a THEN size[b] ELSE size[x]
    BY <1>0
  <2>3. \A x \in Buffers : mem'[x] = IF x = b THEN NoBlock ELSE IF x = a THEN mem[b] ELSE mem[x]
    BY <1>0
  <2> QED BY <2>1, <2>2, <2>3
<1>5. cap' \in [Buffers -> 0..MaxCap] /\ size' \in [Buffers -> 0..MaxCap]
  BY <1>0, SizeAssumption
<1>6. (\A x \in Buffers : size[x] <= cap[x])' /\ (\A x \in Buffers \ alive : cap[x] = 0 /\ mem[x] = NoBlock)'
  <2>1. \A x \in Buffers : size[x] <= cap[x] /\ (x \notin alive => cap[x] = 0 /\ mem[x] = NoBlock)
    BY DEF TypeOK
  <2>2. b \in Buffers
    BY DEF TypeOK
  <2>3. \A x \in Buffers : cap[x] \in Nat /\ size[x] \in Nat
    BY SizeAssumption DEF TypeOK
  <2> QED BY <1>4, <2>1, <2>2, <2>3
<1> QED BY <1>2, <1>3, <1>5, <1>6 DEF TypeOK

\* The class is chosen once.
LEMMA KindStep == [Next]_vars => kind' = kind
<1>1. ASSUME NEW b \in Buffers, NEW n \in 0..MaxCap, Construct(b, n) \/ Resize(b, n)
      PROVE  kind' = kind
  BY <1>1 DEF Construct, Resize
<1>2. ASSUME NEW b \in Buffers, NEW n \in 0..MaxCap, NEW s \in Secrets, ConstructFromSpan(b, n, s)
      PROVE  kind' = kind
  BY <1>2 DEF ConstructFromSpan
<1>3. ASSUME NEW b \in Buffers, NEW n \in 0..MaxCap, NEW s \in Secrets, NEW c \in 0..MaxCap,
             NEW slack \in Secrets \cup {Garbage},
             Adopt(b, n, c, s, slack) \/ \E t \in BOOLEAN : AdoptString(b, n, c, s, slack, t)
      PROVE  kind' = kind
  BY <1>3 DEF Adopt, AdoptString
<1>4. ASSUME NEW b \in Buffers, NEW s \in Secrets,
             RandomGenerate(b, s) \/ PushBack(b, s) \/ PushBackThrows(b, s)
      PROVE  kind' = kind
  BY <1>4 DEF RandomGenerate, PushBack, PushBackThrows
<1>5. ASSUME NEW b \in Buffers, PopBack(b) \/ Wipe(b) \/ ShrinkToFit(b) \/ Destroy(b)
      PROVE  kind' = kind
  BY <1>5 DEF PopBack, Wipe, ShrinkToFit, Destroy
<1>6. ASSUME NEW a \in Buffers, NEW b \in Buffers,
             \/ MoveConstruct(a, b) \/ MoveAssign(a, b) \/ Swap(a, b)
             \/ CopyConstruct(a, b) \/ CopyAssign(a, b)
      PROVE  kind' = kind
  BY <1>6 DEF MoveConstruct, MoveAssign, Swap, CopyConstruct, CopyAssign
<1>7. ASSUME NEW b \in Buffers, NEW i \in Slots, NEW x \in Secrets \cup {Zero}, Store(b, i, x)
      PROVE  kind' = kind
  BY <1>7 DEF Store
<1>8. ASSUME UNCHANGED vars PROVE kind' = kind
  BY <1>8 DEF vars
<1> QED BY <1>1, <1>2, <1>3, <1>4, <1>5, <1>6, <1>7, <1>8, Zenon DEF Next

\* TypeOK is inductive.
LEMMA TypeInit == Init => TypeOK
BY SizeAssumption DEF Init, TypeOK, NoBlock, Slots, Cells

LEMMA TypeStep == TypeOK /\ [Next]_vars => TypeOK'
<1> SUFFICES ASSUME TypeOK, [Next]_vars PROVE TypeOK'
    OBVIOUS
<1>0. kind' = kind
  BY KindStep
<1> USE <1>0
<1>18. CASE UNCHANGED vars
  BY <1>18 DEF vars, TypeOK
<1>1. ASSUME NEW b \in Buffers, NEW n \in 0..MaxCap,
           Construct(b, n)
      PROVE  TypeOK'
  <2>1. CASE IsChar
    <3>1. Elements(1, Zero) \in [Slots -> Cells] /\ n + 1 \in 0..MaxCap
      BY <1>1, <2>1, SizeAssumption DEF Elements, Construct, Sentinel, Cells
    <3>2. Put(b, n + 1, 1, Elements(1, Zero)) /\ alive' = alive \cup {b} /\ past' = past
      BY <1>1, <2>1 DEF Construct
    <3>3. past' \in [Buffers -> SUBSET Marks]
      BY <3>2 DEF TypeOK
    <3>4. 1 \in 0..MaxCap /\ 1 <= n + 1
      BY SizeAssumption
    <3> QED BY <3>1, <3>2, <3>3, <3>4, PutTyped
  <2>2. CASE ~IsChar
    <3>1. Elements(n, Zero) \in [Slots -> Cells]
      BY DEF Elements, Cells
    <3>2. Put(b, n, n, Elements(n, Zero)) /\ alive' = alive \cup {b} /\ past' = past
      BY <1>1, <2>2 DEF Construct
    <3>3. past' \in [Buffers -> SUBSET Marks]
      BY <3>2 DEF TypeOK
    <3> QED BY <3>1, <3>2, <3>3, SizeAssumption, PutTyped
  <2> QED BY <2>1, <2>2
<1>2. ASSUME NEW b \in Buffers, NEW n \in 0..MaxCap,
           Resize(b, n)
      PROVE  TypeOK'
  <2>1. b \in alive /\ alive' = alive /\ past' \in [Buffers -> SUBSET Marks]
    BY <1>2 DEF Resize, TypeOK
  <2>2. CASE n <= cap[b] /\ Put(b, cap[b], n, ZeroBetween(mem[b], size[b], n))
    <3>1. ZeroBetween(mem[b], size[b], n) \in [Slots -> Cells]
      BY DEF ZeroBetween, TypeOK, Cells
    <3>2. cap[b] \in 0..MaxCap /\ alive' = alive \cup {b}
      BY <2>1 DEF TypeOK
    <3> QED BY <2>1, <2>2, <3>1, <3>2, PutTyped
  <2>3. ASSUME NEW c \in n..MaxCap, Put(b, c, n, ZeroBetween(Prefix(mem[b], size[b]), size[b], n))
        PROVE  TypeOK'
    <3>1. ZeroBetween(Prefix(mem[b], size[b]), size[b], n) \in [Slots -> Cells]
      BY DEF ZeroBetween, Prefix, TypeOK, Cells
    <3>2. c \in 0..MaxCap /\ n <= c /\ alive' = alive \cup {b}
      BY <2>1, <2>3, SizeAssumption DEF TypeOK
    <3> QED BY <2>1, <2>3, <3>1, <3>2, PutTyped
  <2> QED BY <1>2, <2>2, <2>3 DEF Resize
<1>17. ASSUME NEW a \in Buffers, NEW b \in Buffers,
           CopyAssign(a, b)
      PROVE  TypeOK'
  <2>1. a \in alive /\ alive' = alive /\ past' \in [Buffers -> SUBSET Marks]
    BY <1>17 DEF CopyAssign, TypeOK
  <2> DEFINE kept == [i \in Slots |-> IF i <= size[b] THEN mem[b][i] ELSE mem[a][i]]
  <2>2. kept \in [Slots -> Cells] /\ Prefix(mem[b], size[b]) \in [Slots -> Cells]
    BY DEF Prefix, TypeOK, Cells
  <2>3. \/ size[b] <= cap[a] /\ Put(a, cap[a], size[b], kept)
        \/ Put(a, size[b], size[b], Prefix(mem[b], size[b]))
    BY <1>17 DEF CopyAssign
  <2> HIDE DEF kept
  <2>4. /\ size[b] \in 0..MaxCap /\ cap[a] \in 0..MaxCap
        /\ alive' = alive \cup {a}
    BY <2>1 DEF TypeOK
  <2> QED BY <2>1, <2>2, <2>3, <2>4, PutTyped
<1> USE SizeAssumption, CellAssumption DEF TypeOK, Slots, Cells, NoBlock
<1>3. ASSUME NEW b \in Buffers, NEW n \in 0..MaxCap, NEW s \in Secrets,
           ConstructFromSpan(b, n, s)
      PROVE  TypeOK'
  BY <1>3 DEF ConstructFromSpan, Elements, Put, IsChar, Sentinel
<1>4. ASSUME NEW b \in Buffers, NEW n \in 0..MaxCap, NEW s \in Secrets, NEW c \in 0..MaxCap,
             NEW slack \in Secrets \cup {Garbage}, Adopt(b, n, c, s, slack)
      PROVE  TypeOK'
  <2>1. Given(n, c, s, slack) \in [Slots -> Cells]
    BY DEF Given
  <2>2. /\ Put(b, c, n, Given(n, c, s, slack)) /\ n <= c /\ alive' = alive \cup {b}
        /\ past' \in [Buffers -> SUBSET Marks]
    BY <1>4 DEF Adopt
  <2> QED BY ONLY TypeOK, <1>0, <2>1, <2>2, PutTyped
<1>5. ASSUME NEW b \in Buffers, NEW n \in 0..MaxCap, NEW s \in Secrets, NEW c \in 0..MaxCap,
             NEW slack \in Secrets \cup {Garbage}, NEW t \in BOOLEAN, AdoptString(b, n, c, s, slack, t)
      PROVE  TypeOK'
  <2> DEFINE given == GivenString(n, c, s, slack, t)
  <2>1. given \in [Slots -> Cells]
    BY GivenLemma
  <2>2. n <= c /\ b \notin alive /\ alive' = alive \cup {b}
    BY <1>5 DEF AdoptString
  <2>3. PICK r \in Push(given, n, c, Zero) :
           /\ Put(b, r.cap, n + 1, r.mem)
           /\ past' = [past EXCEPT ![b] = IF SlackShows(r.mem, n + 1) THEN {"stained"} ELSE {}]
    BY <1>5 DEF AdoptString, GivenString
  <2> HIDE DEF given
  <2>4. r.cap \in (n + 1)..MaxCap /\ r.mem \in [Slots -> Cells]
    BY <2>1, <2>2, PushLemma
  <2>5. past' \in [Buffers -> SUBSET Marks]
    BY <2>3 DEF Marks
  <2>6. n + 1 \in 0..MaxCap /\ r.cap \in 0..MaxCap /\ n + 1 <= r.cap
    BY <2>4
  <2> QED BY ONLY TypeOK, <1>0, <2>2, <2>3, <2>4, <2>5, <2>6, PutTyped
<1>6. ASSUME NEW b \in Buffers, NEW s \in Secrets,
           RandomGenerate(b, s)
      PROVE  TypeOK'
  BY <1>6 DEF RandomGenerate, IsChar, Sentinel
<1>7. ASSUME NEW b \in Buffers, NEW s \in Secrets,
           PushBack(b, s)
      PROVE  TypeOK'
  <2> DEFINE x == IF IsChar THEN Zero ELSE s
  <2>1. Overwritten(b, s) \in [Slots -> Cells]
    BY <1>7, OverwrittenLemma DEF PushBack
  <2>2. PICK r \in Push(Overwritten(b, s), size[b], cap[b], x) :
           /\ Put(b, r.cap, size[b] + 1, r.mem)
           /\ past' = IF r.cap = cap[b] THEN past ELSE [past EXCEPT ![b] = {}]
    BY <1>7 DEF PushBack
  <2>3. x \in Cells
    OBVIOUS
  <2> HIDE DEF x
  <2>4. r.cap \in (size[b] + 1)..MaxCap /\ r.mem \in [Slots -> Cells]
    BY <2>1, <2>3, PushLemma
  <2>5. b \in alive /\ alive' = alive /\ past' \in [Buffers -> SUBSET Marks]
    BY <1>7, <2>2 DEF PushBack
  <2> QED BY <2>2, <2>4, <2>5 DEF Put
<1>8. ASSUME NEW b \in Buffers, NEW s \in Secrets,
           PushBackThrows(b, s)
      PROVE  TypeOK'
  BY <1>8 DEF PushBackThrows, Overwritten, Writable, IsChar, Sentinel, Marks
<1>9. ASSUME NEW b \in Buffers,
           PopBack(b)
      PROVE  TypeOK'
  BY <1>9 DEF PopBack, IsChar, Sentinel
<1>10. ASSUME NEW b \in Buffers,
           Wipe(b)
      PROVE  TypeOK'
  BY <1>10 DEF Wipe, Wiped, IsChar, Sentinel
<1>11. ASSUME NEW b \in Buffers,
           ShrinkToFit(b)
      PROVE  TypeOK'
  BY <1>11 DEF ShrinkToFit, Prefix, Put, IsChar, Sentinel
<1>12. ASSUME NEW b \in Buffers,
           Destroy(b)
      PROVE  TypeOK'
  BY <1>12 DEF Destroy, NoBlock, Put, IsChar, Sentinel
<1>13. ASSUME NEW a \in Buffers, NEW b \in Buffers,
           MoveConstruct(a, b)
      PROVE  TypeOK'
  BY <1>13, StealTyped DEF MoveConstruct
<1>14. ASSUME NEW a \in Buffers, NEW b \in Buffers,
           MoveAssign(a, b)
      PROVE  TypeOK'
  BY <1>14, StealTyped DEF MoveAssign
<1>15. ASSUME NEW a \in Buffers, NEW b \in Buffers,
           Swap(a, b)
      PROVE  TypeOK'
  BY <1>15 DEF Swap, SwapFields, IsChar, Sentinel
<1>16. ASSUME NEW a \in Buffers, NEW b \in Buffers,
           CopyConstruct(a, b)
      PROVE  TypeOK'
  BY <1>16 DEF CopyConstruct, Prefix, Put, IsChar, Sentinel
<1> HIDE DEF TypeOK
<1>19. ASSUME NEW b \in Buffers, NEW i \in Slots, NEW x \in Secrets \cup {Zero},
           Store(b, i, x)
      PROVE  TypeOK'
  <2>1. PICK block \in [Slots -> Cells] :
           /\ mem' = [mem EXCEPT ![b] = block]
           /\ UNCHANGED <<kind, alive, cap, size, past>>
    BY <1>19, StoreFacts
  <2>2. b \in alive
    BY <1>19 DEF Store
  <2> QED BY <2>1, <2>2 DEF TypeOK
<1> QED BY <1>1, <1>2, <1>3, <1>4, <1>5, <1>6, <1>7, <1>8, <1>9, <1>10, <1>11, <1>12, <1>13, <1>14, <1>15, <1>16, <1>17, <1>18, <1>19 DEF Next

\* Type correctness: a block never holds more elements than cells, and an object
\* not alive owns no memory.
THEOREM TypeCorrect == Spec => []TypeOK
BY TypeInit, TypeStep, PTL DEF Spec

-----------------------------------------------------------------------------
\* What push_back and String(vector&&) do, put in terms of the cells.
LEMMA PushBackFacts ==
    ASSUME TypeOK, NEW b \in Buffers, NEW s \in Secrets, PushBack(b, s)
    PROVE  \E c \in 0..MaxCap, block \in [Slots -> Cells] :
             /\ Put(b, c, size[b] + 1, block)
             /\ past' = IF c = cap[b] THEN past ELSE [past EXCEPT ![b] = {}]
             /\ size[b] + 1 \in Slots
             /\ \A i \in Slots : i <= size[b] => block[i] = Overwritten(b, s)[i]
             /\ block[size[b] + 1] = IF IsChar THEN Zero ELSE s
             /\ \A i \in Slots : i > size[b] + 1 =>
                    block[i] \in IF c = cap[b] THEN {mem[b][i], Garbage} ELSE {Garbage}
<1> DEFINE x == IF IsChar THEN Zero ELSE s
<1>1. /\ Overwritten(b, s) \in [Slots -> Cells]
      /\ \A i \in Slots : Overwritten(b, s)[i] = IF IsChar /\ i = size[b] THEN s ELSE mem[b][i]
  BY OverwrittenLemma DEF PushBack
<1>2. PICK r \in Push(Overwritten(b, s), size[b], cap[b], x) :
         /\ Put(b, r.cap, size[b] + 1, r.mem)
         /\ past' = IF r.cap = cap[b] THEN past ELSE [past EXCEPT ![b] = {}]
  BY DEF PushBack
<1>3. x \in Cells /\ size[b] \in 0..MaxCap /\ cap[b] \in 0..MaxCap /\ size[b] <= cap[b]
  BY DEF TypeOK, Cells
<1> HIDE DEF x
<1>4. /\ r.cap \in (size[b] + 1)..MaxCap
      /\ r.mem \in [Slots -> Cells]
      /\ \A i \in 1..size[b] : r.mem[i] = Overwritten(b, s)[i]
      /\ r.mem[size[b] + 1] = x
      /\ r.cap = cap[b] => \A i \in Slots : i > size[b] + 1 => r.mem[i] \in {Overwritten(b, s)[i], Garbage}
      /\ r.cap # cap[b] => \A i \in Slots : i > size[b] + 1 => r.mem[i] = Garbage
  BY <1>1, <1>3, PushLemma
<1>5. size[b] + 1 \in Slots /\ r.cap \in 0..MaxCap
  BY <1>3, <1>4, SizeAssumption DEF Slots
<1>6. \A i \in Slots : i > size[b] + 1 =>
          r.mem[i] \in IF r.cap = cap[b] THEN {mem[b][i], Garbage} ELSE {Garbage}
  BY <1>1, <1>3, <1>4, SizeAssumption DEF Slots
<1>7. \A i \in Slots : i <= size[b] => r.mem[i] = Overwritten(b, s)[i]
  BY <1>3, <1>4, SizeAssumption DEF Slots
<1> QED BY <1>2, <1>4, <1>5, <1>6, <1>7 DEF x

LEMMA AdoptStringFacts ==
    ASSUME TypeOK, NEW b \in Buffers, NEW n \in 0..MaxCap, NEW c \in 0..MaxCap, NEW s \in Secrets,
           NEW slack \in Secrets \cup {Garbage}, NEW t \in BOOLEAN, AdoptString(b, n, c, s, slack, t)
    PROVE  \E d \in 0..MaxCap, block \in [Slots -> Cells] :
             /\ Put(b, d, n + 1, block)
             /\ past' = [past EXCEPT ![b] = IF SlackShows(block, n + 1) THEN {"stained"} ELSE {}]
             /\ n + 1 \in Slots
             /\ block[n + 1] = Zero
             /\ \A i \in Slots : block[i] \in {s, slack, Zero, Garbage}
<1> DEFINE given == GivenString(n, c, s, slack, t)
<1>1. /\ given \in [Slots -> Cells]
      /\ \A i \in Slots : given[i] \in {s, slack, Zero, Garbage}
  BY GivenLemma
<1>2. PICK r \in Push(given, n, c, Zero) :
         /\ Put(b, r.cap, n + 1, r.mem)
         /\ past' = [past EXCEPT ![b] = IF SlackShows(r.mem, n + 1) THEN {"stained"} ELSE {}]
  BY DEF AdoptString, GivenString
<1>3. n <= c /\ Zero \in Cells
  BY DEF AdoptString, Cells
<1> HIDE DEF given
<1>4. /\ r.cap \in (n + 1)..MaxCap
      /\ r.mem \in [Slots -> Cells]
      /\ \A i \in 1..n : r.mem[i] = given[i]
      /\ r.mem[n + 1] = Zero
      /\ r.cap = c => \A i \in Slots : i > n + 1 => r.mem[i] \in {given[i], Garbage}
      /\ r.cap # c => \A i \in Slots : i > n + 1 => r.mem[i] = Garbage
  BY <1>1, <1>3, PushLemma
<1>5. n + 1 \in Slots /\ r.cap \in 0..MaxCap
  BY <1>4, SizeAssumption DEF Slots
<1>6. \A i \in Slots : r.mem[i] \in {s, slack, Zero, Garbage}
  BY <1>1, <1>4, SizeAssumption DEF Slots
<1> QED BY <1>2, <1>4, <1>5, <1>6

-----------------------------------------------------------------------------
\* A step that changes the cells of one object, and writes into it only what it
\* held or what its caller may write, keeps every secret with a single holder.
LEMMA PutKeepsHolder ==
    ASSUME TypeOK, Apart, NEW b \in Buffers, NEW block,
           mem' = [mem EXCEPT ![b] = block],
           \A i \in Slots : block[i] \in Secrets => block[i] \in HeldBy(b) \cup Writable(b)
    PROVE  Apart'
<1> SUFFICES ASSUME NEW x \in Buffers, NEW y \in Buffers, x # y, NEW s \in Secrets,
                    s \in HeldBy(x)', s \in HeldBy(y)'
             PROVE  FALSE
    BY DEF Apart, HeldBy, SecretsIn
<1>1. \A z \in Buffers : z # b => HeldBy(z)' = HeldBy(z)
  BY DEF HeldBy, SecretsIn, TypeOK
<1>2. HeldBy(b)' \subseteq HeldBy(b) \cup Writable(b)
  <2>1. mem'[b] = block
    BY DEF TypeOK
  <2> QED BY <2>1 DEF HeldBy, SecretsIn
<1>3. \A z \in Buffers \ {b} : (HeldBy(b) \cup Writable(b)) \cap HeldBy(z) = {}
  BY DEF Apart, Writable
<1> QED BY <1>1, <1>2, <1>3 DEF Apart

\* A permutation of the blocks, or a loss, keeps it too.
LEMMA MovesKeepHolder ==
    ASSUME Apart, NEW a \in Buffers, NEW b \in Buffers, a # b,
           \A z \in Buffers \ {a, b} : HeldBy(z)' = HeldBy(z),
           \/ HeldBy(a)' = HeldBy(b) /\ HeldBy(b)' = {}
           \/ HeldBy(a)' = HeldBy(b) /\ HeldBy(b)' = HeldBy(a)
    PROVE  Apart'
BY DEF Apart

LEMMA StealHolders ==
    ASSUME TypeOK, NEW a \in Buffers, NEW b \in Buffers, a # b, Steal(a, b)
    PROVE  /\ \A z \in Buffers \ {a, b} : HeldBy(z)' = HeldBy(z)
           /\ HeldBy(a)' = HeldBy(b) /\ HeldBy(b)' = {}
<1>1. \A z \in Buffers : mem'[z] = IF z = b THEN NoBlock ELSE IF z = a THEN mem[b] ELSE mem[z]
  BY DEF Steal, TypeOK
<1>2. SecretsIn(NoBlock) = {}
  BY CellAssumption DEF SecretsIn, NoBlock
<1> QED BY <1>1, <1>2 DEF HeldBy

LEMMA ApartStep ==
    ASSUME kind # "PrivateKey", TypeOK, Apart, [Next]_vars
    PROVE  Apart'
<1>0. \A b \in Buffers : Random \subseteq Writable(b)
  BY DEF Random, Writable
<1>1. ASSUME NEW b \in Buffers, NEW n \in 0..MaxCap, Construct(b, n)
      PROVE  Apart'
  <2>1. \E m \in Nat : mem' = [mem EXCEPT ![b] = Elements(m, Zero)]
    BY <1>1 DEF Construct, Put
  <2>2. \A m \in Nat, i \in Slots : Elements(m, Zero)[i] \notin Secrets
    BY CellAssumption DEF Elements
  <2> QED BY <2>1, <2>2, PutKeepsHolder
<1>2. ASSUME NEW b \in Buffers, NEW n \in 0..MaxCap, NEW s \in Secrets, NEW c \in 0..MaxCap,
             NEW slack \in Secrets \cup {Garbage}, Adopt(b, n, c, s, slack)
      PROVE  Apart'
  <2>1. mem' = [mem EXCEPT ![b] = Given(n, c, s, slack)] /\ {s, slack} \subseteq Writable(b) \cup {Garbage}
    BY <1>2 DEF Adopt, Put
  <2>2. \A i \in Slots : Given(n, c, s, slack)[i] \in {s, slack, Garbage}
    BY DEF Given
  <2> QED BY <2>1, <2>2, CellAssumption, PutKeepsHolder
<1>3. ASSUME NEW b \in Buffers, NEW n \in 0..MaxCap, NEW s \in Secrets, NEW c \in 0..MaxCap,
             NEW slack \in Secrets \cup {Garbage}, NEW t \in BOOLEAN, AdoptString(b, n, c, s, slack, t)
      PROVE  Apart'
  <2>1. PICK d \in 0..MaxCap, block \in [Slots -> Cells] :
           Put(b, d, n + 1, block) /\ \A i \in Slots : block[i] \in {s, slack, Zero, Garbage}
    BY <1>3, AdoptStringFacts
  <2>2. mem' = [mem EXCEPT ![b] = block] /\ {s, slack} \subseteq Writable(b) \cup {Garbage}
    BY <1>3, <2>1 DEF AdoptString, Put
  <2> QED BY <2>1, <2>2, CellAssumption, PutKeepsHolder
<1>4. ASSUME NEW b \in Buffers, NEW s \in Secrets, RandomGenerate(b, s)
      PROVE  Apart'
  <2> DEFINE block == [i \in Slots |-> IF i <= size[b] THEN s ELSE mem[b][i]]
  <2>1. mem' = [mem EXCEPT ![b] = block] /\ s \in Writable(b)
    BY <1>0, <1>4 DEF RandomGenerate
  <2>2. \A i \in Slots : block[i] \in Secrets => block[i] \in HeldBy(b) \cup Writable(b)
    BY <2>1 DEF HeldBy, SecretsIn
  <2> QED BY <2>1, <2>2, PutKeepsHolder
<1>5. ASSUME NEW b \in Buffers, NEW s \in Secrets, PushBack(b, s)
      PROVE  Apart'
  <2>1. PICK c \in 0..MaxCap, block \in [Slots -> Cells] :
           /\ Put(b, c, size[b] + 1, block)
           /\ size[b] + 1 \in Slots
           /\ \A i \in Slots : i <= size[b] => block[i] = Overwritten(b, s)[i]
           /\ block[size[b] + 1] = IF IsChar THEN Zero ELSE s
           /\ \A i \in Slots : i > size[b] + 1 =>
                  block[i] \in IF c = cap[b] THEN {mem[b][i], Garbage} ELSE {Garbage}
    BY <1>5, PushBackFacts
  <2>2. s \in Writable(b) /\ mem' = [mem EXCEPT ![b] = block] /\ size[b] \in Nat
    <3>1. s \in Writable(b)
      BY <1>5 DEF PushBack
    <3>2. mem' = [mem EXCEPT ![b] = block]
      BY <2>1 DEF Put
    <3>3. size[b] \in Nat
      BY SizeAssumption DEF TypeOK
    <3> QED BY <3>1, <3>2, <3>3
  <2>3. \A i \in Slots : Overwritten(b, s)[i] \in {s, mem[b][i]}
    BY <1>5, OverwrittenLemma DEF PushBack
  <2>4. \A i \in Slots : block[i] \in {s, Zero, Garbage, mem[b][i]}
    <3> TAKE i \in Slots
    <3>1. CASE i <= size[b]
      BY <2>1, <2>3, <3>1
    <3>2. CASE i = size[b] + 1
      BY <2>1, <3>2
    <3>3. CASE i > size[b] + 1
      BY <2>1, <3>3
    <3> QED BY <2>2, <3>1, <3>2, <3>3, SizeAssumption DEF Slots
  <2>5. \A i \in Slots : mem[b][i] \in Secrets => mem[b][i] \in HeldBy(b)
    BY DEF HeldBy, SecretsIn
  <2> QED BY <2>2, <2>4, <2>5, CellAssumption, PutKeepsHolder
<1>6. ASSUME NEW b \in Buffers, NEW s \in Secrets, PushBackThrows(b, s)
      PROVE  Apart'
  <2>1. mem' = [mem EXCEPT ![b] = Overwritten(b, s)] /\ s \in Writable(b)
    BY <1>6 DEF PushBackThrows
  <2>2. \A i \in Slots : Overwritten(b, s)[i] \in {s, mem[b][i]}
    BY <1>6, OverwrittenLemma DEF PushBackThrows
  <2>3. \A i \in Slots : mem[b][i] \in Secrets => mem[b][i] \in HeldBy(b)
    BY DEF HeldBy, SecretsIn
  <2> QED BY <2>1, <2>2, <2>3, PutKeepsHolder
<1>7. ASSUME NEW b \in Buffers, PopBack(b) \/ Wipe(b) \/ ShrinkToFit(b) \/ Destroy(b)
      PROVE  Apart'
  <2>1. PICK block : /\ mem' = [mem EXCEPT ![b] = block]
                     /\ \A i \in Slots : block[i] \in {Zero, Garbage, mem[b][i]}
    <3>1. CASE PopBack(b)
      <4>1. CASE IsChar
        <5> DEFINE block == [mem[b] EXCEPT ![size[b] - 1] = Zero]
        <5>1. mem' = [mem EXCEPT ![b] = block]
          BY <3>1, <4>1 DEF PopBack
        <5>2. mem[b] \in [Slots -> Cells]
          BY DEF TypeOK
        <5>3. \A i \in Slots : block[i] \in {Zero, mem[b][i]}
          BY <5>2
        <5> QED BY <5>1, <5>3
      <4>2. CASE ~IsChar
        <5>1. mem' = [mem EXCEPT ![b] = mem[b]]
          BY <3>1, <4>2 DEF PopBack, TypeOK
        <5> QED BY <5>1
      <4> QED BY <4>1, <4>2
    <3>2. CASE Wipe(b)
      <4>1. mem' = [mem EXCEPT ![b] = Wiped(mem[b], size[b])]
        BY <3>2 DEF Wipe
      <4>2. \A i \in Slots : Wiped(mem[b], size[b])[i] \in {Zero, mem[b][i]}
        BY DEF Wiped
      <4> QED BY <4>1, <4>2
    <3>3. CASE ShrinkToFit(b)
      <4>1. mem' = [mem EXCEPT ![b] = Prefix(mem[b], size[b])]
        BY <3>3 DEF ShrinkToFit, Put
      <4>2. \A i \in Slots : Prefix(mem[b], size[b])[i] \in {Garbage, mem[b][i]}
        BY DEF Prefix
      <4> QED BY <4>1, <4>2
    <3>4. CASE Destroy(b)
      <4>1. mem' = [mem EXCEPT ![b] = NoBlock]
        BY <3>4 DEF Destroy, Put
      <4>2. \A i \in Slots : NoBlock[i] = Garbage
        BY DEF NoBlock
      <4> QED BY <4>1, <4>2
    <3> QED BY <1>7, <3>1, <3>2, <3>3, <3>4
  <2>2. \A i \in Slots : mem[b][i] \in Secrets => mem[b][i] \in HeldBy(b)
    BY DEF HeldBy, SecretsIn
  <2> QED BY <2>1, <2>2, CellAssumption, PutKeepsHolder
<1>8. ASSUME NEW a \in Buffers, NEW b \in Buffers, MoveConstruct(a, b) \/ MoveAssign(a, b)
      PROVE  Apart'
  BY <1>8, StealHolders, MovesKeepHolder DEF MoveConstruct, MoveAssign
<1>9. ASSUME NEW a \in Buffers, NEW b \in Buffers, Swap(a, b)
      PROVE  Apart'
  <2>1. a # b /\ \A z \in Buffers : mem'[z] = IF z = b THEN mem[a] ELSE IF z = a THEN mem[b] ELSE mem[z]
    BY <1>9 DEF Swap, SwapFields, TypeOK
  <2> QED BY <2>1, MovesKeepHolder DEF HeldBy
<1>10. CASE UNCHANGED vars
  BY <1>10 DEF vars, Apart, HeldBy
<1>11. /\ \A b, n, s : ~ConstructFromSpan(b, n, s)
       /\ \A b, n : ~Resize(b, n)
       /\ \A a, b : ~CopyConstruct(a, b) /\ ~CopyAssign(a, b)
  BY DEF ConstructFromSpan, Resize, CopyConstruct, CopyAssign
<1>12. ASSUME NEW b \in Buffers, NEW i \in Slots, NEW x \in Secrets \cup {Zero}, Store(b, i, x)
       PROVE  Apart'
  <2>1. PICK block \in [Slots -> Cells] :
           /\ mem' = [mem EXCEPT ![b] = block]
           /\ \A j \in Slots : block[j] = IF j = i THEN x ELSE mem[b][j]
           /\ x \in Writable(b) \cup {Zero}
    BY <1>12, StoreFacts
  <2>2. \A j \in Slots : mem[b][j] \in Secrets => mem[b][j] \in HeldBy(b)
    BY DEF HeldBy, SecretsIn
  <2>3. \A j \in Slots : block[j] \in Secrets => block[j] \in HeldBy(b) \cup Writable(b)
    BY <2>1, <2>2, CellAssumption
  <2> QED BY <2>1, <2>3, PutKeepsHolder
<1> QED BY <1>1, <1>2, <1>3, <1>4, <1>5, <1>6, <1>7, <1>8, <1>9, <1>10, <1>11, <1>12 DEF Next

\* Move-only buffers (String, Key): a secret is never held by two objects.
THEOREM MoveOnlySingleHolder == Spec => []SingleHolder
<1>1. Init => SingleHolder
  BY CellAssumption DEF Init, SingleHolder, Apart, HeldBy, SecretsIn, NoBlock
<1>2. SingleHolder /\ TypeOK /\ [Next]_vars => SingleHolder'
  BY ApartStep, KindStep DEF SingleHolder
<1> QED BY <1>1, <1>2, TypeCorrect, PTL DEF Spec

-----------------------------------------------------------------------------
(***************************************************************************)
(* The String.  That the slack is clean is not inductive: pop_back leaves  *)
(* in the slack what was the last element, which is harmless because that  *)
(* element was the '\0'.  Termination and clean slack go together, object  *)
(* by object: slack only of blocks that nothing befell, the terminator     *)
(* also of those that came stained.                                        *)
(***************************************************************************)
Clean(b) == past[b] = {} => \A i \in Slots : i > size[b] => mem[b][i] \notin Secrets
Ended(b) == "torn" \notin past[b] /\ b \in alive /\ size[b] > 0 => mem[b][size[b]] = Zero

StringInv == \A b \in Buffers : Clean(b) /\ Ended(b)

\* Only b changes, and it ends up sound: the invariant is kept.
LEMMA PutKeepsSound ==
    ASSUME TypeOK, StringInv, NEW b \in Buffers, NEW n \in 0..MaxCap, NEW block \in [Slots -> Cells],
           NEW marks \in SUBSET Marks,
           alive' \cup {b} = alive \cup {b}, past' = [past EXCEPT ![b] = marks],
           size' = [size EXCEPT ![b] = n], mem' = [mem EXCEPT ![b] = block],
           marks = {} => \A i \in Slots : i > n => block[i] \notin Secrets,
           "torn" \notin marks /\ b \in alive' /\ n > 0 => block[n] = Zero
    PROVE  StringInv'
<1>1. size'[b] = n /\ mem'[b] = block /\ past'[b] = marks
  BY DEF TypeOK
<1>2. \A x \in Buffers \ {b} : size'[x] = size[x] /\ mem'[x] = mem[x] /\ past'[x] = past[x]
  BY DEF TypeOK
<1>3. \A x \in Buffers \ {b} : x \in alive' <=> x \in alive
  OBVIOUS
<1>4. ASSUME NEW x \in Buffers, x # b PROVE Clean(x)' /\ Ended(x)'
  BY <1>2, <1>3, <1>4 DEF StringInv, Clean, Ended
<1>5. Clean(b)' /\ Ended(b)'
  BY <1>1 DEF Clean, Ended
<1> QED BY <1>4, <1>5 DEF StringInv

LEMMA StringStep ==
    ASSUME IsChar, TypeOK, StringInv, [Next]_vars
    PROVE  StringInv'
<1> USE SizeAssumption, CellAssumption
<1>0. \A b \in Buffers : /\ size[b] \in 0..MaxCap /\ cap[b] \in 0..MaxCap /\ size[b] <= cap[b]
                         /\ mem[b] \in [Slots -> Cells] /\ past[b] \in SUBSET Marks
  BY DEF TypeOK
<1>a. \A b \in Buffers : past = [past EXCEPT ![b] = past[b]] /\ size = [size EXCEPT ![b] = size[b]]
  BY DEF TypeOK
<1>1. ASSUME NEW b \in Buffers, NEW n \in 0..MaxCap, Construct(b, n)
      PROVE  StringInv'
  <2>1. /\ alive' = alive \cup {b} /\ past' = [past EXCEPT ![b] = past[b]]
        /\ size' = [size EXCEPT ![b] = 1] /\ mem' = [mem EXCEPT ![b] = Elements(1, Zero)]
    BY <1>a, <1>1 DEF Construct, Put
  <2>2. /\ Elements(1, Zero) \in [Slots -> Cells] /\ 1 \in 0..MaxCap /\ Elements(1, Zero)[1] = Zero
        /\ \A i \in Slots : Elements(1, Zero)[i] \notin Secrets
    BY DEF Elements, Slots, Cells
  <2> QED BY <1>0, <2>1, <2>2, PutKeepsSound
<1>2. ASSUME NEW b \in Buffers, NEW n \in 0..MaxCap, NEW s \in Secrets, NEW c \in 0..MaxCap,
             NEW slack \in Secrets \cup {Garbage}, NEW t \in BOOLEAN, AdoptString(b, n, c, s, slack, t)
      PROVE  StringInv'
  <2>1. PICK d \in 0..MaxCap, block \in [Slots -> Cells] :
           /\ Put(b, d, n + 1, block) /\ n + 1 \in Slots /\ block[n + 1] = Zero
           /\ past' = [past EXCEPT ![b] = IF SlackShows(block, n + 1) THEN {"stained"} ELSE {}]
    BY <1>2, AdoptStringFacts
  <2>2. /\ alive' = alive \cup {b}
        /\ size' = [size EXCEPT ![b] = n + 1] /\ mem' = [mem EXCEPT ![b] = block]
    BY <1>2, <2>1 DEF AdoptString, Put
  <2> DEFINE marks == IF SlackShows(block, n + 1) THEN {"stained"} ELSE {}
  <2>3. marks \in SUBSET Marks /\ "torn" \notin marks /\ n + 1 \in 0..MaxCap
    BY <2>1 DEF Marks, Slots
  <2>4. marks = {} => \A i \in Slots : i > n + 1 => block[i] \notin Secrets
    BY DEF SlackShows
  <2>5. past' = [past EXCEPT ![b] = marks]
    BY <2>1
  <2> HIDE DEF marks
  <2> QED BY <2>1, <2>2, <2>3, <2>4, <2>5, PutKeepsSound
<1>3. ASSUME NEW b \in Buffers, NEW s \in Secrets, PushBack(b, s)
      PROVE  StringInv'
  <2>1. PICK c \in 0..MaxCap, block \in [Slots -> Cells] :
           /\ Put(b, c, size[b] + 1, block)
           /\ past' = IF c = cap[b] THEN past ELSE [past EXCEPT ![b] = {}]
           /\ size[b] + 1 \in Slots
           /\ \A i \in Slots : i <= size[b] => block[i] = Overwritten(b, s)[i]
           /\ block[size[b] + 1] = IF IsChar THEN Zero ELSE s
           /\ \A i \in Slots : i > size[b] + 1 =>
                  block[i] \in IF c = cap[b] THEN {mem[b][i], Garbage} ELSE {Garbage}
    BY ONLY TypeOK, <1>3, PushBackFacts, SMTT(60)
  <2> DEFINE marks == IF c = cap[b] THEN past[b] ELSE {}
  <2>2. alive' = alive
    BY <1>3 DEF PushBack
  <2>3. size' = [size EXCEPT ![b] = size[b] + 1] /\ mem' = [mem EXCEPT ![b] = block]
    BY <2>1 DEF Put
  <2>4. ASSUME marks = {}, NEW i \in Slots, i > size[b] + 1 PROVE block[i] \notin Secrets
    <3>1. CASE c = cap[b]
      <4>1. Clean(b) /\ past[b] = {}
        BY <2>4, <3>1 DEF StringInv
      <4> QED BY <1>0, <2>1, <2>4, <3>1, <4>1 DEF Clean, Slots
    <3>2. CASE c # cap[b]
      BY <2>1, <2>4, <3>2
    <3> QED BY <3>1, <3>2
  <2>5. size[b] + 1 \in 0..MaxCap
    BY <2>1 DEF Slots
  <2>6. past' = [past EXCEPT ![b] = marks] /\ marks \in SUBSET Marks
    BY <1>0, <1>a, <2>1
  <2> HIDE DEF marks
  <2> QED BY <2>1, <2>2, <2>3, <2>4, <2>5, <2>6, PutKeepsSound
<1>4. ASSUME NEW b \in Buffers, NEW s \in Secrets, PushBackThrows(b, s)
      PROVE  StringInv'
  <2> DEFINE marks == past[b] \cup {"torn"}
  <2>1. /\ alive' = alive /\ past' = [past EXCEPT ![b] = marks]
        /\ size' = [size EXCEPT ![b] = size[b]]
        /\ mem' = [mem EXCEPT ![b] = Overwritten(b, s)]
    BY <1>a, <1>4 DEF PushBackThrows
  <2>2. Overwritten(b, s) \in [Slots -> Cells]
    BY <1>4, OverwrittenLemma DEF PushBackThrows
  <2>3. marks \in SUBSET Marks /\ marks # {} /\ "torn" \in marks
    BY <1>0 DEF Marks
  <2> HIDE DEF marks
  <2> QED BY <1>0, <2>1, <2>2, <2>3, PutKeepsSound
<1>5. ASSUME NEW b \in Buffers, PopBack(b)
      PROVE  StringInv'
  <2> DEFINE block == [mem[b] EXCEPT ![size[b] - 1] = Zero]
  <2>1. /\ alive' = alive /\ past' = [past EXCEPT ![b] = past[b]]
        /\ size' = [size EXCEPT ![b] = size[b] - 1]
        /\ mem' = [mem EXCEPT ![b] = block]
    BY <1>a, <1>5 DEF PopBack
  <2>2. b \in alive /\ size[b] > 1
    BY <1>5 DEF PopBack, Sentinel
  <2>3. size[b] - 1 \in Slots /\ size[b] - 1 \in 0..MaxCap /\ size[b] \in Slots
    BY <1>0, <2>2 DEF Slots
  <2>4. block \in [Slots -> Cells] /\ block[size[b] - 1] = Zero
    BY <1>0, <2>3 DEF Cells
  <2>5. ASSUME past[b] = {}, NEW i \in Slots, i > size[b] - 1 PROVE block[i] \notin Secrets
    <3>1. Clean(b) /\ Ended(b)
      BY DEF StringInv
    <3>2. block[i] = mem[b][i]
      BY <1>0, <2>5, <2>3 DEF Slots
    <3>3. CASE i = size[b]
      <4>1. "torn" \notin past[b] /\ size[b] > 0
        BY <1>0, <2>2, <2>5
      <4>2. mem[b][size[b]] = Zero
        BY <2>2, <3>1, <4>1 DEF Ended
      <4> QED BY <3>2, <3>3, <4>2
    <3>4. CASE i > size[b]
      BY <2>5, <3>1, <3>2, <3>4 DEF Clean
    <3> QED BY <1>0, <2>5, <3>3, <3>4 DEF Slots
  <2> HIDE DEF block
  <2> QED BY <1>0, <2>1, <2>3, <2>4, <2>5, PutKeepsSound
<1>6. ASSUME NEW b \in Buffers, Wipe(b)
      PROVE  StringInv'
  <2>1. /\ alive' = alive /\ past' = [past EXCEPT ![b] = past[b]] /\ size' = [size EXCEPT ![b] = 1]
        /\ mem' = [mem EXCEPT ![b] = Wiped(mem[b], size[b])] /\ size[b] > 0
    BY <1>a, <1>6 DEF Wipe
  <2>2. /\ Wiped(mem[b], size[b]) \in [Slots -> Cells] /\ Wiped(mem[b], size[b])[1] = Zero
        /\ 1 \in 0..MaxCap
    BY <1>0, <2>1 DEF Wiped, Slots, Cells
  <2>3. ASSUME past[b] = {}, NEW i \in Slots PROVE Wiped(mem[b], size[b])[i] \notin Secrets
    BY <1>0, <2>3 DEF StringInv, Clean, Wiped, Slots
  <2> QED BY <1>0, <2>1, <2>2, <2>3, PutKeepsSound
<1>7. ASSUME NEW b \in Buffers, ShrinkToFit(b)
      PROVE  StringInv'
  <2> DEFINE marks == past[b] \ {"stained"}
  <2>1. /\ alive' = alive /\ past' = [past EXCEPT ![b] = marks]
        /\ size' = [size EXCEPT ![b] = size[b]]
        /\ mem' = [mem EXCEPT ![b] = Prefix(mem[b], size[b])]
    BY <1>7 DEF ShrinkToFit, Put
  <2>2. /\ Prefix(mem[b], size[b]) \in [Slots -> Cells]
        /\ \A i \in Slots : i > size[b] => Prefix(mem[b], size[b])[i] \notin Secrets
        /\ size[b] > 0 => Prefix(mem[b], size[b])[size[b]] = mem[b][size[b]]
    BY <1>0 DEF Prefix, Slots, Cells
  <2>3. "torn" \notin marks /\ b \in alive /\ size[b] > 0 => mem[b][size[b]] = Zero
    BY DEF StringInv, Ended
  <2>4. marks \in SUBSET Marks
    BY <1>0
  <2> HIDE DEF marks
  <2> QED BY <1>0, <2>1, <2>2, <2>3, <2>4, PutKeepsSound
<1>8. ASSUME NEW b \in Buffers, Destroy(b)
      PROVE  StringInv'
  <2>1. /\ alive' = alive \ {b} /\ past' = [past EXCEPT ![b] = {}] /\ size' = [size EXCEPT ![b] = 0]
        /\ mem' = [mem EXCEPT ![b] = NoBlock]
    BY <1>8 DEF Destroy, Put
  <2>2. /\ NoBlock \in [Slots -> Cells] /\ 0 \in 0..MaxCap /\ \A i \in Slots : NoBlock[i] \notin Secrets
        /\ {} \in SUBSET Marks
    BY DEF NoBlock, Cells
  <2> QED BY <2>1, <2>2, PutKeepsSound
<1>9. ASSUME NEW a \in Buffers, NEW b \in Buffers, MoveConstruct(a, b) \/ MoveAssign(a, b)
      PROVE  StringInv'
  <2>1. a # b /\ b \in alive /\ alive' = alive \cup {a} /\ Steal(a, b)
    BY <1>9 DEF MoveConstruct, MoveAssign
  <2>2. /\ past' = [past EXCEPT ![a] = past[b], ![b] = {}]
        /\ size' = [size EXCEPT ![a] = size[b], ![b] = 0]
        /\ mem' = [mem EXCEPT ![a] = mem[b], ![b] = NoBlock]
    BY <2>1 DEF Steal
  <2>3. /\ size'[a] = size[b] /\ mem'[a] = mem[b] /\ past'[a] = past[b]
        /\ size'[b] = 0 /\ mem'[b] = NoBlock
    BY <2>1, <2>2 DEF TypeOK
  <2>4. \A x \in Buffers \ {a, b} : size'[x] = size[x] /\ mem'[x] = mem[x] /\ past'[x] = past[x]
    BY <2>2 DEF TypeOK
  <2>5. Clean(b)' /\ Ended(b)'
    BY <2>3 DEF Clean, Ended, NoBlock
  <2>6. Clean(a)' /\ Ended(a)'
    BY <2>1, <2>3 DEF Clean, Ended, StringInv
  <2>7. \A x \in Buffers \ {a, b} : Clean(x)' /\ Ended(x)'
    BY <2>1, <2>4 DEF Clean, Ended, StringInv
  <2> QED BY <2>5, <2>6, <2>7 DEF StringInv
<1>10. ASSUME NEW a \in Buffers, NEW b \in Buffers, Swap(a, b)
      PROVE  StringInv'
  <2>1. a # b /\ a \in alive /\ b \in alive /\ alive' = alive
    BY <1>10 DEF Swap
  <2>2. /\ size'[a] = size[b] /\ mem'[a] = mem[b] /\ past'[a] = past[b]
        /\ size'[b] = size[a] /\ mem'[b] = mem[a] /\ past'[b] = past[a]
        /\ \A x \in Buffers \ {a, b} : size'[x] = size[x] /\ mem'[x] = mem[x] /\ past'[x] = past[x]
    BY <1>10 DEF Swap, SwapFields, TypeOK
  <2>3. Clean(a)' /\ Ended(a)' /\ Clean(b)' /\ Ended(b)'
    BY <2>1, <2>2 DEF Clean, Ended, StringInv
  <2>4. \A x \in Buffers \ {a, b} : Clean(x)' /\ Ended(x)'
    BY <2>1, <2>2 DEF Clean, Ended, StringInv
  <2> QED BY <2>3, <2>4 DEF StringInv
<1>11. CASE UNCHANGED vars
  BY <1>11 DEF vars, StringInv, Clean, Ended
<1>12. /\ \A b, n, s : ~ConstructFromSpan(b, n, s)
       /\ \A b, n, c, s, x : ~Adopt(b, n, c, s, x)
       /\ \A b, s : ~RandomGenerate(b, s)
       /\ \A b, n : ~Resize(b, n)
       /\ \A a, b : ~CopyConstruct(a, b) /\ ~CopyAssign(a, b)
  BY DEF ConstructFromSpan, Adopt, RandomGenerate, Resize, CopyConstruct, CopyAssign, IsChar
<1>13. ASSUME NEW b \in Buffers, NEW i \in Slots, NEW x \in Secrets \cup {Zero}, Store(b, i, x)
       PROVE  StringInv'
  <2>1. PICK block \in [Slots -> Cells] :
           /\ mem' = [mem EXCEPT ![b] = block]
           /\ \A j \in Slots : block[j] = IF j = i THEN x ELSE mem[b][j]
           /\ i + Sentinel <= size[b]
           /\ UNCHANGED <<alive, size, past>>
    BY <1>13, StoreFacts
  <2>2. /\ size' = [size EXCEPT ![b] = size[b]] /\ past' = [past EXCEPT ![b] = past[b]]
        /\ i + 1 <= size[b]
    BY <1>a, <2>1 DEF Sentinel
  <2>3. ASSUME NEW j \in Slots, j >= size[b]
        PROVE  block[j] = mem[b][j]
    BY <1>0, <2>1, <2>2, <2>3 DEF Slots
  <2>4. Clean(b) /\ Ended(b)
    BY DEF StringInv
  <2>5. past[b] = {} => \A j \in Slots : j > size[b] => block[j] \notin Secrets
    BY <1>0, <2>3, <2>4 DEF Clean, Slots
  <2>6. "torn" \notin past[b] /\ b \in alive' /\ size[b] > 0 => block[size[b]] = Zero
    BY <1>0, <2>1, <2>3, <2>4 DEF Ended, Slots
  <2> QED BY <1>0, <2>1, <2>2, <2>5, <2>6, PutKeepsSound
<1> QED BY <1>1, <1>2, <1>3, <1>4, <1>5, <1>6, <1>7, <1>8, <1>9, <1>10, <1>11, <1>12, <1>13 DEF Next

LEMMA StringInvariant == Spec => [](TypeOK /\ (IsChar => StringInv))
<1>1. Init => (IsChar => StringInv)
  <2>1. \A i \in Slots : NoBlock[i] \notin Secrets
    BY CellAssumption DEF NoBlock
  <2>2. Init => \A b \in Buffers : mem[b] = NoBlock /\ b \notin alive
    BY DEF Init
  <2> QED BY <2>1, <2>2 DEF StringInv, Clean, Ended
<1>2. TypeOK /\ (IsChar => StringInv) /\ [Next]_vars => (IsChar => StringInv)'
  BY StringStep, KindStep DEF IsChar
<1> QED BY <1>1, <1>2, TypeCorrect, PTL DEF Spec

\* A String that owns a block ends with its '\0' unless a push_back threw on it,
\* whatever vector it was made from.
THEOREM StringTerminated == Spec => []TerminatedUnlessTorn
<1>1. TypeOK /\ (IsChar => StringInv) => TerminatedUnlessTorn
  BY DEF TypeOK, StringInv, Ended, TerminatedUnlessTorn
<1> QED BY <1>1, StringInvariant, PTL

\* wipe() of a String erases the whole block, the slack included, unless a
\* push_back threw on it or it came with a secret in its slack.
THEOREM StringWipeErases == Spec => WipeErases
<1>1. ASSUME TypeOK, StringInv, NEW b \in Buffers, past[b] = {}, Wipe(b)
      PROVE  HeldBy(b)' = {}
  <2>1. mem'[b] = Wiped(mem[b], size[b])
    BY <1>1 DEF Wipe, TypeOK
  <2>2. \A i \in Slots : i > size[b] => mem[b][i] \notin Secrets
    BY <1>1 DEF StringInv, Clean
  <2>3. size[b] \in Nat
    BY <1>1, SizeAssumption DEF TypeOK
  <2>4. \A i \in Slots : Wiped(mem[b], size[b])[i] \notin Secrets
    BY <2>2, <2>3, CellAssumption, SizeAssumption DEF Wiped, Slots
  <2> QED BY <2>1, <2>4 DEF HeldBy, SecretsIn
<1>2. TypeOK /\ (IsChar => StringInv) =>
         [\A b \in Buffers : IsChar /\ past[b] = {} /\ Wipe(b) => HeldBy(b)' = {}]_vars
  BY <1>1
<1> QED BY <1>2, StringInvariant, PTL DEF WipeErases

-----------------------------------------------------------------------------
(***************************************************************************)
(* Initialization, which the allocator of every buffer is a caller of.     *)
(* What makes the properties inductive is the guard: only a thread inside  *)
(* the initializer holds it, and it is done only when libsodium is ready.  *)
(***************************************************************************)
Inside(t) == pc[t] \in {"sodium_init", "locked"} /\ op[t] # "allocate"

GuardHolder == \A t \in Threads : guard = t => Inside(t)
DoneMeansReady == guard = "done" => ready
AtStatic == \A t \in Threads : pc[t] = "static" => op[t] # "allocate"

Guarded == SuccessMeansReady /\ OneInitializer /\ GuardHolder /\ DoneMeansReady /\ AtStatic
InitIInv == InitTypeOK /\ Guarded

LEMMA InitIInvStart == InitStart => InitIInv
<1> SUFFICES ASSUME InitStart PROVE InitIInv
  OBVIOUS
<1>1. InitTypeOK
  <2>1. ready \in BOOLEAN
    BY Zenon DEF InitStart
  <2>2. calls \in [Threads -> 0..MaxCalls] /\ failures \in 0..MaxFailures
    BY BoundAssumption DEF InitStart
  <2>3. /\ pc \in [Threads -> {"idle", "static", "sodium_init", "locked"} \cup Returned]
        /\ op \in [Threads -> Functions] /\ value \in [Threads -> {"none", "0", "-1"}]
        /\ guard \in Threads \cup {"unset", "done"} /\ lock \in Threads \cup {Nobody}
    BY DEF InitStart, Functions
  <2> QED BY <2>1, <2>2, <2>3 DEF InitTypeOK
<1>2. Guarded
  BY StatusAssumption DEF InitStart, Guarded, SuccessMeansReady, OneInitializer, GuardHolder,
                          DoneMeansReady, AtStatic, Inside
<1> QED BY <1>1, <1>2 DEF InitIInv

\* Every step keeps the types.
LEMMA InitTypeStep == InitTypeOK /\ [InitNext]_initVars => InitTypeOK'
<1> SUFFICES ASSUME InitTypeOK, [InitNext]_initVars PROVE InitTypeOK'
  OBVIOUS
<1> USE ThreadAssumption, StatusAssumption, BoundAssumption DEF InitTypeOK, Returned, Functions, Goto, Leave
<1>1. ASSUME NEW t \in Threads, NEW f \in Functions, Call(t, f) PROVE InitTypeOK'
  BY <1>1 DEF Call
<1>2. ASSUME NEW t \in Threads, PassStatic(t) PROVE InitTypeOK'
  BY <1>2 DEF PassStatic
<1>3. ASSUME NEW t \in Threads, EnterStatic(t) PROVE InitTypeOK'
  BY <1>3 DEF EnterStatic
<1>4. ASSUME NEW t \in Threads, TakeLock(t) PROVE InitTypeOK'
  BY <1>4 DEF TakeLock
<1>5. ASSUME NEW t \in Threads, Succeed(t) PROVE InitTypeOK'
  BY <1>5 DEF Succeed
<1>6. ASSUME NEW t \in Threads, Fail(t) PROVE InitTypeOK'
  BY <1>6 DEF Fail
<1>7. ASSUME NEW t \in Threads, Return(t) PROVE InitTypeOK'
  BY <1>7 DEF Return
<1>8. CASE UNCHANGED initVars
  BY <1>8 DEF initVars
<1> QED BY <1>1, <1>2, <1>3, <1>4, <1>5, <1>6, <1>7, <1>8 DEF InitNext, Step

LEMMA InitIInvStep == InitIInv /\ [InitNext]_initVars => InitIInv'
<1> SUFFICES ASSUME InitIInv, [InitNext]_initVars PROVE InitIInv'
  OBVIOUS
<1>0. InitTypeOK'
  BY InitTypeStep DEF InitIInv
<1>a. /\ \A t \in Threads : t # "unset" /\ t # "done"
      /\ pc \in [Threads -> {"idle", "static", "sodium_init", "locked", "ok", "failed"}]
      /\ op \in [Threads -> Functions] /\ value \in [Threads -> {"none", "0", "-1"}]
  BY StatusAssumption DEF InitIInv, InitTypeOK, Returned
<1>b. Guarded
  BY DEF InitIInv
<1> USE <1>b DEF Goto, Leave, Guarded, SuccessMeansReady, OneInitializer, GuardHolder, DoneMeansReady,
              AtStatic, Inside
<1>1. ASSUME NEW t \in Threads, NEW f \in Functions, Call(t, f) PROVE Guarded'
  BY <1>a, <1>1 DEF Call
<1>2. ASSUME NEW t \in Threads, PassStatic(t) PROVE Guarded'
  BY <1>a, <1>2 DEF PassStatic
<1>3. ASSUME NEW t \in Threads, EnterStatic(t) PROVE Guarded'
  BY <1>a, <1>3 DEF EnterStatic
<1>4. ASSUME NEW t \in Threads, TakeLock(t) PROVE Guarded'
  BY <1>a, <1>4 DEF TakeLock
<1>5. ASSUME NEW t \in Threads, Succeed(t) PROVE Guarded'
  BY <1>a, <1>5 DEF Succeed
<1>6. ASSUME NEW t \in Threads, Fail(t) PROVE Guarded'
  BY <1>a, <1>6 DEF Fail
<1>7. ASSUME NEW t \in Threads, Return(t) PROVE Guarded'
  BY <1>a, <1>7 DEF Return, Returned
<1>8. ASSUME UNCHANGED initVars PROVE Guarded'
  <2>1. (ready' <=> ready) /\ pc' = pc /\ op' = op /\ guard' = guard /\ value' = value
    BY <1>8 DEF initVars
  <2> QED BY <2>1
<1> HIDE DEF Guarded
<1>9. Guarded'
  BY <1>1, <1>2, <1>3, <1>4, <1>5, <1>6, <1>7, <1>8 DEF InitNext, Step
<1> QED BY <1>0, <1>9 DEF InitIInv

LEMMA InitIInvAlways == InitSpec => []InitIInv
BY InitIInvStart, InitIInvStep, PTL DEF InitSpec

-----------------------------------------------------------------------------
\* The threads, the guard and the lock keep to their places.
THEOREM InitTypeCorrect == InitSpec => []InitTypeOK
<1>1. InitIInv => InitTypeOK
  BY DEF InitIInv
<1> QED BY <1>1, InitIInvAlways, PTL

\* No thread comes back from ensure_init, init or allocate without an error
\* before libsodium is initialized, however many race and fail.
THEOREM InitSucceeds == InitSpec => []SuccessMeansReady
<1>1. InitIInv => SuccessMeansReady
  BY DEF InitIInv, Guarded
<1> QED BY <1>1, InitIInvAlways, PTL

\* The initializer of ensure_init's static runs in at most one thread.
THEOREM InitOnceAtATime == InitSpec => []OneInitializer
<1>1. InitIInv => OneInitializer
  BY DEF InitIInv, Guarded
<1> QED BY <1>1, InitIInvAlways, PTL
=============================================================================
