---------------------------- MODULE SecureBuffer ----------------------------
(***************************************************************************)
(* The buffers that hold secrets: Base<T, Alloc> of internal/base.hpp over *)
(* the secure allocator of internal/salloc.hpp, as String, Key and         *)
(* PrivateKey instantiate it.                                              *)
(*                                                                         *)
(* A buffer is a std::vector: a block of cap cells of which the first size *)
(* are elements; the cells above are slack that no member reads but that   *)
(* is memory all the same.  A cell holds zero, the allocator's fill        *)
(* (Garbage) or an element of a secret.  Cells above cap are not memory    *)
(* and are kept Garbage.  Secrets are told apart, their elements are not.  *)
(* A block that is released goes through sodium_free, which overwrites it: *)
(* what was in it is gone, and is not modelled further.                    *)
(***************************************************************************)
EXTENDS Naturals

CONSTANTS
    Buffers,    \* names of buffer objects
    Secrets,    \* secrets the program handles (passwords, keys)
    Zero,       \* the zero byte, '\0'
    Garbage,    \* what the allocator leaves in a fresh block, or any byte of no secret
    KeySizes,   \* the sizes a PrivateKey is constructed with (32 and 64 bytes)
    MaxCap      \* bound: largest block allocated

ASSUME CellAssumption == Zero # Garbage /\ Zero \notin Secrets /\ Garbage \notin Secrets
ASSUME SizeAssumption == MaxCap \in Nat /\ MaxCap > 1 /\ KeySizes \subseteq 1..MaxCap

VARIABLES
    kind,       \* the class the buffers are objects of, which never changes
    alive,      \* the objects constructed and not yet destroyed
    cap,        \* vec_.capacity()
    size,       \* vec_.size(), the sentinel of a String included
    mem,        \* the cells of the block
    past        \* what befell the present block of a String (history): "torn", a
                \* push_back threw on it; "stained", it came from a vector whose
                \* slack showed a secret

vars == <<kind, alive, cap, size, mem, past>>

Slots == 1..MaxCap
Cells == Secrets \cup {Zero, Garbage}
NoBlock == [i \in Slots |-> Garbage]
Kinds == {"String", "Key", "PrivateKey"}
IsChar == kind = "String"
Sentinel == IF IsChar THEN 1 ELSE 0
Marks == {"torn", "stained"}

TypeOK ==
    /\ kind \in Kinds
    /\ alive \subseteq Buffers
    /\ cap \in [Buffers -> 0..MaxCap]
    /\ size \in [Buffers -> 0..MaxCap]
    /\ mem \in [Buffers -> [Slots -> Cells]]
    /\ past \in [Buffers -> SUBSET Marks]
    /\ \A b \in Buffers : size[b] <= cap[b]
    /\ \A b \in Buffers \ alive : cap[b] = 0 /\ mem[b] = NoBlock

-----------------------------------------------------------------------------
SecretsIn(block) == {block[i] : i \in Slots} \cap Secrets
HeldBy(b) == SecretsIn(mem[b])

\* What a caller may write into b: no secret that another object already holds.
Writable(b) == Secrets \ UNION {HeldBy(c) : c \in Buffers \ {b}}
\* What the random generator returns: a value found nowhere.
Random == Secrets \ UNION {HeldBy(c) : c \in Buffers}

Elements(n, value) == [i \in Slots |-> IF i <= n THEN value ELSE Garbage]
Prefix(block, n) == [i \in Slots |-> IF i <= n THEN block[i] ELSE Garbage]

\* A vector of a caller's: n elements in a block of c cells, and in its slack
\* what pop_back, resize or clear left there.
Given(n, c, value, slack) ==
    [i \in Slots |-> IF i <= n THEN value ELSE IF i <= c THEN slack ELSE Garbage]
SlackShows(block, n) == \E i \in Slots : i > n /\ block[i] \in Secrets

\* vector::push_back of x to n elements in a block of c cells: in place, or in
\* a larger block (how much larger is the library's choice).
Push(block, n, c, x) ==
    IF n < c
    THEN {[cap |-> c, mem |-> [block EXCEPT ![n + 1] = x]]}
    ELSE {[cap |-> d, mem |-> [Prefix(block, n) EXCEPT ![n + 1] = x]] : d \in (n + 1)..MaxCap}

Put(b, c, n, block) ==
    /\ cap' = [cap EXCEPT ![b] = c]
    /\ size' = [size EXCEPT ![b] = n]
    /\ mem' = [mem EXCEPT ![b] = block]

-----------------------------------------------------------------------------
Init ==
    /\ kind \in Kinds
    /\ alive = {}
    /\ cap = [b \in Buffers |-> 0]
    /\ size = [b \in Buffers |-> 0]
    /\ mem = [b \in Buffers |-> NoBlock]
    /\ past = [b \in Buffers |-> {}]

\* Key(size_) and PrivateKey(sz_) make n zero elements; String(init_cap_)
\* reserves n + 1 cells and writes the sentinel only.
Construct(b, n) ==
    /\ b \notin alive
    /\ n + Sentinel <= MaxCap
    /\ kind = "PrivateKey" => n \in KeySizes
    /\ alive' = alive \cup {b}
    /\ IF IsChar THEN Put(b, n + 1, 1, Elements(1, Zero))
                 ELSE Put(b, n, n, Elements(n, Zero))
    /\ UNCHANGED <<kind, past>>

\* PrivateKey(span): the elements are copied from the caller's bytes.
ConstructFromSpan(b, n, s) ==
    /\ kind = "PrivateKey"
    /\ n \in KeySizes
    /\ b \notin alive
    /\ s \in Writable(b)
    /\ alive' = alive \cup {b}
    /\ Put(b, n, n, Elements(n, s))
    /\ UNCHANGED <<kind, past>>

\* Key(vector&&) and PrivateKey(vector&&) take the caller's block, slack and
\* all; the latter throws for a size that is not a key's.
Adopt(b, n, c, s, slack) ==
    /\ ~IsChar
    /\ b \notin alive
    /\ n <= c
    /\ kind = "PrivateKey" => n \in KeySizes
    /\ s \in Writable(b)
    /\ slack \in Writable(b) \cup {Garbage}
    /\ alive' = alive \cup {b}
    /\ Put(b, c, n, Given(n, c, s, slack))
    /\ UNCHANGED <<kind, past>>

\* String(vector&&): by the time the last element is looked at the vector has
\* been moved into vec_ and is empty, so a '\0' is appended whatever it held,
\* one that already ended with '\0' included.
AdoptString(b, n, c, s, slack, terminated) ==
    /\ IsChar
    /\ b \notin alive
    /\ n <= c
    /\ terminated => n > 0
    /\ s \in Writable(b)
    /\ slack \in Writable(b) \cup {Garbage}
    /\ LET given == IF terminated THEN [Given(n, c, s, slack) EXCEPT ![n] = Zero]
                                 ELSE Given(n, c, s, slack)
       IN  \E r \in Push(given, n, c, Zero) :
               /\ Put(b, r.cap, n + 1, r.mem)
               /\ past' = [past EXCEPT ![b] = IF SlackShows(r.mem, n + 1) THEN {"stained"} ELSE {}]
    /\ alive' = alive \cup {b}
    /\ UNCHANGED kind

\* Key::random_generate.
RandomGenerate(b, s) ==
    /\ ~IsChar
    /\ b \in alive
    /\ s \in Random
    /\ mem' = [mem EXCEPT ![b] = [i \in Slots |-> IF i <= size[b] THEN s ELSE mem[b][i]]]
    /\ UNCHANGED <<kind, alive, cap, size, past>>

\* A store of the caller's, through at(), operator[], back(), an iterator or
\* span_data(): into an element, never the sentinel.
Store(b, i, x) ==
    /\ b \in alive
    /\ i + Sentinel <= size[b]
    /\ x \in Writable(b) \cup {Zero}
    /\ mem' = [mem EXCEPT ![b] = [mem[b] EXCEPT ![i] = x]]
    /\ UNCHANGED <<kind, alive, cap, size, past>>

\* push_back of a String writes the character over the sentinel first.  On the
\* empty vector of a moved-from String, back() is undefined: not a step.
Overwritten(b, s) == IF IsChar THEN [mem[b] EXCEPT ![size[b]] = s] ELSE mem[b]

PushBack(b, s) ==
    /\ b \in alive
    /\ IsChar => size[b] > 0
    /\ s \in Writable(b)
    /\ \E r \in Push(Overwritten(b, s), size[b], cap[b], IF IsChar THEN Zero ELSE s) :
           /\ Put(b, r.cap, size[b] + 1, r.mem)
           /\ past' = IF r.cap = cap[b] THEN past ELSE [past EXCEPT ![b] = {}]
    /\ UNCHANGED <<kind, alive>>

\* The larger block cannot be had: vector::push_back throws bad_alloc and
\* leaves the vector alone, but the sentinel has been overwritten.
PushBackThrows(b, s) ==
    /\ b \in alive
    /\ IsChar => size[b] > 0
    /\ size[b] = cap[b]
    /\ s \in Writable(b)
    /\ mem' = [mem EXCEPT ![b] = Overwritten(b, s)]
    /\ past' = IF IsChar THEN [past EXCEPT ![b] = @ \cup {"torn"}] ELSE past
    /\ UNCHANGED <<kind, alive, cap, size>>

\* Mutant: a String's pop_back as a byte buffer's.
PopBackUnterminated(b) ==
    /\ b \in alive
    /\ size[b] > Sentinel
    /\ size' = [size EXCEPT ![b] = size[b] - 1]
    /\ UNCHANGED <<kind, alive, cap, mem, past>>

\* pop_back: the last element of a String becomes its sentinel; of a byte
\* buffer it stays in the slack.  On an empty byte buffer it is undefined.
PopBack(b) ==
    /\ b \in alive
    /\ size[b] > Sentinel
    /\ size' = [size EXCEPT ![b] = size[b] - 1]
    /\ mem' = IF IsChar THEN [mem EXCEPT ![b] = [mem[b] EXCEPT ![size[b] - 1] = Zero]] ELSE mem
    /\ UNCHANGED <<kind, alive, cap, past>>

\* PrivateKey::resize: vector::resize, the elements it adds are zero.
ZeroBetween(block, m, n) == [i \in Slots |-> IF m < i /\ i <= n THEN Zero ELSE block[i]]

Resize(b, n) ==
    /\ kind = "PrivateKey"
    /\ b \in alive
    /\ \/ /\ n <= cap[b]
          /\ Put(b, cap[b], n, ZeroBetween(mem[b], size[b], n))
       \/ /\ n > cap[b]
          /\ \E c \in n..MaxCap : Put(b, c, n, ZeroBetween(Prefix(mem[b], size[b]), size[b], n))
    /\ UNCHANGED <<kind, alive, past>>

\* Mutant: the String is cut to its sentinel before it is overwritten.
WipedAfterCut(block, n) == [i \in Slots |-> IF i <= 1 THEN Zero ELSE block[i]]

\* wipe: sodium_memzero over vec_.size() elements; a String is then cut to its
\* sentinel, a byte buffer keeps its size.
Wiped(block, n) == [i \in Slots |-> IF i <= n THEN Zero ELSE block[i]]

Wipe(b) ==
    /\ b \in alive
    /\ size[b] > 0
    /\ mem' = [mem EXCEPT ![b] = Wiped(mem[b], size[b])]
    /\ size' = IF IsChar THEN [size EXCEPT ![b] = 1] ELSE size
    /\ UNCHANGED <<kind, alive, cap, past>>

ShrinkToFit(b) ==
    /\ b \in alive
    /\ size[b] < cap[b]
    /\ Put(b, size[b], size[b], Prefix(mem[b], size[b]))
    /\ past' = [past EXCEPT ![b] = @ \ {"stained"}]
    /\ UNCHANGED <<kind, alive>>

-----------------------------------------------------------------------------
\* Mutant: the source keeps a copy of the elements.
StealShares(dst, src) ==
    /\ cap' = [cap EXCEPT ![dst] = cap[src]]
    /\ size' = [size EXCEPT ![dst] = size[src]]
    /\ mem' = [mem EXCEPT ![dst] = mem[src]]
    /\ past' = [past EXCEPT ![dst] = past[src]]

\* Mutant: the source gives up its block and not its size.
StealKeepsSize(dst, src) ==
    /\ cap' = [cap EXCEPT ![dst] = cap[src], ![src] = 0]
    /\ size' = [size EXCEPT ![dst] = size[src]]
    /\ mem' = [mem EXCEPT ![dst] = mem[src], ![src] = NoBlock]
    /\ past' = [past EXCEPT ![dst] = past[src], ![src] = {}]

\* The vector of src becomes dst's; src is left with no block.
Steal(dst, src) ==
    /\ cap' = [cap EXCEPT ![dst] = cap[src], ![src] = 0]
    /\ size' = [size EXCEPT ![dst] = size[src], ![src] = 0]
    /\ mem' = [mem EXCEPT ![dst] = mem[src], ![src] = NoBlock]
    /\ past' = [past EXCEPT ![dst] = past[src], ![src] = {}]

MoveConstruct(dst, src) ==
    /\ dst \notin alive
    /\ src \in alive
    /\ alive' = alive \cup {dst}
    /\ Steal(dst, src)
    /\ UNCHANGED kind

\* The allocator propagates on move assignment, so the block itself moves.
MoveAssign(dst, src) ==
    /\ dst # src
    /\ {dst, src} \subseteq alive
    /\ Steal(dst, src)
    /\ UNCHANGED <<kind, alive>>

\* String::swap.
SwapFields(f, a, b) == [f EXCEPT ![a] = f[b], ![b] = f[a]]

Swap(a, b) ==
    /\ IsChar
    /\ a # b
    /\ {a, b} \subseteq alive
    /\ cap' = SwapFields(cap, a, b)
    /\ size' = SwapFields(size, a, b)
    /\ mem' = SwapFields(mem, a, b)
    /\ past' = SwapFields(past, a, b)
    /\ UNCHANGED <<kind, alive>>

\* PrivateKey does not derive from NonCopyable: Base's implicit copy
\* operations are available.  Copy assignment reuses a block large enough.
CopyConstruct(dst, src) ==
    /\ kind = "PrivateKey"
    /\ dst \notin alive
    /\ src \in alive
    /\ alive' = alive \cup {dst}
    /\ Put(dst, size[src], size[src], Prefix(mem[src], size[src]))
    /\ UNCHANGED <<kind, past>>

CopyAssign(dst, src) ==
    /\ kind = "PrivateKey"
    /\ dst # src
    /\ {dst, src} \subseteq alive
    /\ \/ /\ size[src] <= cap[dst]
          /\ Put(dst, cap[dst], size[src],
                 [i \in Slots |-> IF i <= size[src] THEN mem[src][i] ELSE mem[dst][i]])
       \/ /\ size[src] > cap[dst]
          /\ Put(dst, size[src], size[src], Prefix(mem[src], size[src]))
    /\ UNCHANGED <<kind, alive, past>>

Destroy(b) ==
    /\ b \in alive
    /\ alive' = alive \ {b}
    /\ Put(b, 0, 0, NoBlock)
    /\ past' = [past EXCEPT ![b] = {}]
    /\ UNCHANGED kind

Next ==
    \/ \E b \in Buffers, n \in 0..MaxCap :
          \/ Construct(b, n)
          \/ Resize(b, n)
          \/ \E s \in Secrets : ConstructFromSpan(b, n, s)
          \/ \E s \in Secrets, c \in 0..MaxCap, slack \in Secrets \cup {Garbage} :
                \/ Adopt(b, n, c, s, slack)
                \/ \E t \in BOOLEAN : AdoptString(b, n, c, s, slack, t)
    \/ \E b \in Buffers, s \in Secrets :
          RandomGenerate(b, s) \/ PushBack(b, s) \/ PushBackThrows(b, s)
    \/ \E b \in Buffers, i \in Slots, x \in Secrets \cup {Zero} : Store(b, i, x)
    \/ \E b \in Buffers : PopBack(b) \/ Wipe(b) \/ ShrinkToFit(b) \/ Destroy(b)
    \/ \E a, b \in Buffers :
          \/ MoveConstruct(a, b) \/ MoveAssign(a, b) \/ Swap(a, b)
          \/ CopyConstruct(a, b) \/ CopyAssign(a, b)

Spec == Init /\ [][Next]_vars

-----------------------------------------------------------------------------
(***************************************************************************)
(* Properties                                                              *)
(***************************************************************************)

\* Key material stays in one place (NonCopyable): however objects are built,
\* moved, assigned and destroyed, at most one of them holds a given secret.
\* A PrivateKey, which can be copied, is exempt.
Apart == \A a, b \in Buffers : a # b => HeldBy(a) \cap HeldBy(b) = {}
SingleHolder == kind # "PrivateKey" => Apart

\* A String that owns a block ends with its '\0', unless a push_back threw on it.
TerminatedUnlessTorn ==
    IsChar => \A b \in alive : "torn" \notin past[b] /\ size[b] > 0 => mem[b][size[b]] = Zero

\* After wipe() the whole block of a String shows no secret, the slack that
\* wipe() does not reach included: growth, pop_back, shrink_to_fit and moves see
\* to it together.  Two blocks are exempt: one on which a push_back threw, and one
\* that String(vector&&) took with a secret in its slack.
WipeErases == [][\A b \in Buffers : IsChar /\ past[b] = {} /\ Wipe(b) => HeldBy(b)' = {}]_vars
=============================================================================
