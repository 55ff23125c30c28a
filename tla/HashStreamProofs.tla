-------------------------- MODULE HashStreamProofs --------------------------
(***************************************************************************)
(* Theorems about HashStream for any objects, bytes, keys and lengths.     *)
(* One invariant carries them: an object is dead, or open with exactly the *)
(* bytes it has taken, or padded, finalized and answered for.              *)
(***************************************************************************)
EXTENDS HashStream, SequenceTheorems, TLAPS

IsDead(s) == state[s] = Dead /\ given[s] = Dead /\ ~finalized[s] /\ result[s] = Dead

IsOpen(s) ==
    /\ given[s] \in Accepted
    /\ state[s] = Open(given[s], log[s])
    /\ ~finalized[s]
    /\ result[s] = Dead

IsDone(s) ==
    /\ given[s] \in Accepted
    /\ state[s] = Padded
    /\ finalized[s]
    /\ result[s] = Digest(given[s], log[s])

InPhase == \A s \in Streams : IsDead(s) \/ IsOpen(s) \/ IsDone(s)

\* The variables are functions on the objects.
Tables ==
    /\ class \in Classes
    /\ state = [s \in Streams |-> state[s]]
    /\ finalized \in [Streams -> BOOLEAN]
    /\ given \in [Streams -> Accepted \cup {Dead}]
    /\ log \in [Streams -> Texts]
    /\ result = [s \in Streams |-> result[s]]

IInv == Tables /\ InPhase

-----------------------------------------------------------------------------
LEMMA TextsAreShort == \A t : t \in Texts <=> t \in Seq(Bytes) /\ Len(t) <= MaxLen
<1> TAKE t
<1>1. ASSUME t \in Texts PROVE t \in Seq(Bytes) /\ Len(t) <= MaxLen
  BY <1>1, BoundAssumption DEF Texts
<1>2. ASSUME t \in Seq(Bytes), Len(t) <= MaxLen PROVE t \in Texts
  <2>1. Len(t) \in 0..MaxLen
    BY <1>2, BoundAssumption
  <2>2. t \in [1..Len(t) -> Bytes]
    BY <1>2
  <2> QED BY <2>1, <2>2 DEF Texts
<1> QED BY <1>1, <1>2

\* Chunks that fit make a text again.
LEMMA TextsJoin ==
  ASSUME NEW t \in Texts, NEW c \in Texts, Len(t) + Len(c) <= MaxLen
  PROVE  t \o c \in Texts
<1>1. t \in Seq(Bytes) /\ c \in Seq(Bytes)
  BY TextsAreShort
<1>2. t \o c \in Seq(Bytes) /\ Len(t \o c) = Len(t) + Len(c)
  BY <1>1
<1> QED BY <1>2, TextsAreShort

LEMMA EmptyText == <<>> \in Texts
<1> DEFINE e == <<>>
<1>1. e \in Seq(Bytes) /\ Len(e) = 0
  OBVIOUS
<1>2. Len(e) <= MaxLen
  BY <1>1, BoundAssumption
<1> HIDE DEF e
<1>3. e \in Texts
  BY <1>1, <1>2, TextsAreShort
<1> QED BY <1>3 DEF e

\* The phases of an object exclude each other, and no digest is Dead.
LEMMA PhasesDiffer ==
  /\ \A p, t : Open(p, t) # Dead /\ Open(p, t) # Padded
  /\ Padded # Dead
<1>1. \A p, t : Open(p, t).phase = "open"
  BY DEF Open
<1>2. Dead.phase = "dead" /\ Padded.phase = "padded"
  BY DEF Dead, Padded
<1> QED BY <1>1, <1>2

LEMMA DigestNotDead == \A p, t : Digest(p, t) # Dead
<1> TAKE p, t
<1>1. DOMAIN Digest(p, t) = {"name", "key", "len", "text"}
  BY DEF Digest, DigestOf
<1>2. DOMAIN Dead = {"phase"}
  BY DEF Dead
<1> QED BY <1>1, <1>2

-----------------------------------------------------------------------------
LEMMA IInvInit == Init => IInv
<1> SUFFICES ASSUME Init PROVE IInv
  OBVIOUS
<1>1. Tables
  BY EmptyText DEF Init, Tables
<1>2. InPhase
  BY DEF Init, InPhase, IsDead
<1> QED BY <1>1, <1>2 DEF IInv

LEMMA IInvStep == IInv /\ [Next]_vars => IInv'
<1> SUFFICES ASSUME IInv, [Next]_vars PROVE IInv'
  OBVIOUS
<1> USE DEF IInv
<1>1. ASSUME NEW s \in Streams, NEW p \in Params, Construct(s, p) PROVE IInv'
  <2> USE <1>1 DEF Construct
  <2>1. Tables'
    BY EmptyText DEF Tables, Accepted
  <2>2. IsOpen(s)'
    BY DEF Tables, IsOpen, Accepted
  <2>3. \A r \in Streams \ {s} : (IsDead(r) \/ IsOpen(r) \/ IsDone(r))'
    BY DEF Tables, InPhase, IsDead, IsOpen, IsDone, Accepted, Digest
  <2> QED BY <2>1, <2>2, <2>3 DEF InPhase
<1>2. ASSUME NEW s \in Streams, NEW c \in Texts, Update(s, c) PROVE IInv'
  <2> USE <1>2 DEF Update
  <2>1. IsOpen(s)
    BY DEF InPhase, IsDead, IsDone
  <2>2. log[s] \o c \in Texts
    BY TextsJoin DEF Tables
  <2>3. Tables'
    BY <2>2 DEF Tables, Accepted
  <2>4. Absorb(state[s], c) = Open(given[s], log[s] \o c)
    BY <2>1 DEF IsOpen, Absorb, Open
  <2>5. IsOpen(s)'
    BY <2>1, <2>4 DEF Tables, IsOpen, Accepted
  <2>6. \A r \in Streams \ {s} : (IsDead(r) \/ IsOpen(r) \/ IsDone(r))'
    BY DEF Tables, InPhase, IsDead, IsOpen, IsDone, Accepted, Digest
  <2> QED BY <2>3, <2>5, <2>6 DEF InPhase
<1>3. ASSUME NEW s \in Streams, Finalize(s) PROVE IInv'
  <2> USE <1>3 DEF Finalize
  <2>1. IsOpen(s)
    BY DEF InPhase, IsDead, IsDone
  <2>2. Tables'
    BY DEF Tables, Accepted
  <2>3. Final(state[s]) = Digest(given[s], log[s])
    BY <2>1 DEF IsOpen, Final, Open
  <2>4. IsOpen(s)' \/ IsDone(s)'
    BY <2>1, <2>3 DEF Tables, IsOpen, IsDone, Accepted, Digest
  <2>5. \A r \in Streams \ {s} : (IsDead(r) \/ IsOpen(r) \/ IsDone(r))'
    BY DEF Tables, InPhase, IsDead, IsOpen, IsDone, Accepted, Digest
  <2> QED BY <2>2, <2>4, <2>5 DEF InPhase
<1>4. ASSUME NEW d \in Streams, NEW s \in Streams, Move(d, s) PROVE IInv'
  <2> USE <1>4 DEF Move
  <2>1. Tables'
    BY DEF Tables, Accepted
  <2>2. (IsDead(d) \/ IsOpen(d) \/ IsDone(d))'
    BY DEF Tables, InPhase, IsDead, IsOpen, IsDone, Accepted, Digest
  <2>3. \A r \in Streams \ {d} : (IsDead(r) \/ IsOpen(r) \/ IsDone(r))'
    BY DEF Tables, InPhase, IsDead, IsOpen, IsDone, Accepted, Digest
  <2> QED BY <2>1, <2>2, <2>3 DEF InPhase
<1>5. ASSUME NEW s \in Streams, Destroy(s) PROVE IInv'
  <2> USE <1>5 DEF Destroy
  <2>1. Tables'
    BY EmptyText DEF Tables, Accepted
  <2>2. IsDead(s)'
    BY DEF Tables, IsDead
  <2>3. \A r \in Streams \ {s} : (IsDead(r) \/ IsOpen(r) \/ IsDone(r))'
    BY DEF Tables, InPhase, IsDead, IsOpen, IsDone, Accepted, Digest
  <2> QED BY <2>1, <2>2, <2>3 DEF InPhase
<1>6. CASE UNCHANGED vars
  BY <1>6 DEF vars, Tables, InPhase, IsDead, IsOpen, IsDone, Accepted, Digest
<1> QED BY <1>1, <1>2, <1>3, <1>4, <1>5, <1>6 DEF Next

\* The strengthening the four theorems rest on.
LEMMA Invariance == Spec => []IInv
BY IInvInit, IInvStep, PTL DEF Spec

-----------------------------------------------------------------------------
LEMMA IInvTypes == IInv => TypeOK
<1> SUFFICES ASSUME IInv PROVE TypeOK
  OBVIOUS
<1> USE DEF IInv
<1>1. ASSUME NEW s \in Streams
      PROVE /\ state[s].phase \in {"dead", "open", "padded"}
            /\ state[s].phase = "open" => state[s].params \in Accepted /\ state[s].text \in Texts
  <2>1. CASE IsDead(s)
    BY <2>1 DEF IsDead, Dead
  <2>2. CASE IsOpen(s)
    BY <2>2 DEF IsOpen, Open, Tables
  <2>3. CASE IsDone(s)
    BY <2>3 DEF IsDone, Padded
  <2> QED BY <2>1, <2>2, <2>3 DEF InPhase
<1>2. ASSUME NEW s \in Streams, result[s] # Dead
      PROVE /\ result[s].name = class.name
            /\ \E key \in Keys : result[s].key = Effective(class, key)
            /\ result[s].len \in class.lens
            /\ result[s].text \in Texts
  <2>1. IsDone(s)
    BY <1>2 DEF InPhase, IsDead, IsOpen
  <2>2. given[s].key \in Keys /\ given[s].len \in class.lens /\ log[s] \in Texts
    BY <2>1 DEF IsDone, Accepted, Params, Tables
  <2> QED BY <2>1, <2>2 DEF IsDone, Digest, DigestOf
<1>3. class \in Classes /\ finalized \in [Streams -> BOOLEAN]
      /\ given \in [Streams -> Accepted \cup {Dead}] /\ log \in [Streams -> Texts]
  BY DEF Tables
<1> QED BY <1>1, <1>2, <1>3 DEF TypeOK

\* Objects, parameters, texts and digests are well typed whatever the program
\* constructs, feeds and moves.
THEOREM HashTypeCorrect == Spec => []TypeOK
BY Invariance, IInvTypes, PTL

\* A Stream's digest is the one-shot function's of all it was fed, where that
\* function takes the parameters (Stream::finalize against digest and mac).
THEOREM StreamMeansOneShot == Spec => []AgreesWithOneShot
<1>1. IInv => AgreesWithOneShot
  <2> SUFFICES ASSUME IInv, NEW s \in Streams, result[s] # Dead
               PROVE  OneShot(given[s], log[s]) \in {result[s], Refusal}
    BY DEF AgreesWithOneShot
  <2>1. IsDone(s)
    BY DEF IInv, InPhase, IsDead, IsOpen
  <2> QED BY <2>1 DEF IsDone, OneShot
<1> QED BY <1>1, Invariance, PTL

\* is_finalized() is true of exactly the Streams that returned their digest.
THEOREM FlagExact == Spec => []FinalizedMeansReturned
<1>1. IInv => FinalizedMeansReturned
  <2> SUFFICES ASSUME IInv, NEW s \in Streams, state[s] # Dead
               PROVE  finalized[s] <=> result[s] # Dead
    BY DEF FinalizedMeansReturned
  <2>1. CASE IsOpen(s)
    BY <2>1 DEF IsOpen
  <2>2. CASE IsDone(s)
    BY <2>2, DigestNotDead DEF IsDone
  <2> QED BY <2>1, <2>2 DEF IInv, InPhase, IsDead
<1> QED BY <1>1, Invariance, PTL

-----------------------------------------------------------------------------
\* No two namespaces have one name.
LEMMA NamesDiffer ==
  ASSUME NEW c \in Classes, NEW d \in Classes, c.name = d.name
  PROVE  c = d
BY DEF Classes, Blake2b, Sha256, Sha512, Sha3_256, Sha3_512, Unkeyed,
       Hmacs, HmacSha256, HmacSha512, Hmac

LEMMA HmacSizes ==
  ASSUME NEW c \in Hmacs
  PROVE  /\ c.lens = {c.size} /\ c.keys = {32}
         /\ c.size \in 32..64 /\ c.block \in Nat /\ c.block >= 64
BY DEF Hmacs, HmacSha256, HmacSha512, Hmac

\* A key is its three fields, and its seed fills no more than its length.
LEMMA KeyFields ==
  ASSUME NEW k \in Keys
  PROVE  /\ k = [seed |-> k.seed, core |-> k.core, len |-> k.len]
         /\ k.core \in Nat /\ k.len \in Nat /\ k.core <= k.len
<1>1. CASE k \in Drawn
  <2> DEFINE seeds == {<<>>} \cup {<<id>> : id \in KeyIds}
  <2>1. k \in [seed : seeds, core : {0} \cup KeyLens, len : KeyLens]
    BY <1>1 DEF Drawn
  <2> HIDE DEF seeds
  <2>2. k.core \in {0} \cup KeyLens /\ k.len \in KeyLens
    BY <2>1
  <2>3. k = [seed |-> k.seed, core |-> k.core, len |-> k.len]
    BY <2>1
  <2>4. k.core <= k.len
    BY <1>1 DEF Drawn
  <2>5. k.core \in Nat /\ k.len \in Nat
    <3>1. \A n \in KeyLens : n \in Nat
      BY LengthAssumption, Zenon
    <3>2. k.core = 0 \/ k.core \in KeyLens
      BY <2>2
    <3> QED BY <2>2, <3>1, <3>2
  <2> QED BY <2>3, <2>4, <2>5
<1>2. CASE k \notin Drawn
  <2>1. PICK c \in Hmacs, d \in Drawn : k = HashOf(c, d)
    BY <1>2 DEF Keys
  <2>2. c.size \in Nat
    BY HmacSizes
  <2> QED BY <2>1, <2>2 DEF HashOf
<1> QED BY <1>1, <1>2

\* The block of a key of 32 bytes is that of its twins and of no other key.
LEMMA TwinsShareBlock ==
  ASSUME class \in Hmacs, NEW key \in Keys, key.len = 32, NEW original \in Keys
  PROVE  Effective(class, key) = Effective(class, original) <=> Twin(key, original)
<1> DEFINE n == class.block
<1>1. /\ class.size \in 32..64 /\ n \in Nat /\ n >= 64
  BY HmacSizes
<1>2. /\ key = [seed |-> key.seed, core |-> key.core, len |-> 32]
      /\ key.core \in Nat /\ key.core <= 32
  BY KeyFields
<1>3. /\ original = [seed |-> original.seed, core |-> original.core, len |-> original.len]
      /\ original.len \in Nat
  BY KeyFields
<1>4. Effective(class, key) = [seed |-> key.seed, core |-> key.core, len |-> n]
  <2>1. ~(key.len > n)
    BY <1>1
  <2>2. Effective(class, key) = [key EXCEPT !.len = n]
    BY <2>1 DEF Effective
  <2> QED BY <1>2, <2>2
<1>5. CASE original.len <= n
  <2>1. ~(original.len > n)
    BY <1>1, <1>3, <1>5
  <2>2. Effective(class, original) = [original EXCEPT !.len = n]
    BY <2>1 DEF Effective
  <2>3. Effective(class, original) = [seed |-> original.seed, core |-> original.core, len |-> n]
    BY <1>3, <2>2
  <2>4. Effective(class, key) = Effective(class, original)
            <=> key.seed = original.seed /\ key.core = original.core
    BY <1>4, <2>3
  <2> QED BY <1>5, <2>4 DEF Twin
<1>6. CASE ~(original.len <= n)
  <2> DEFINE h == HashOf(class, original)
  <2>1. original.len > n
    BY <1>1, <1>3, <1>6
  <2>2. h = [seed |-> h.seed, core |-> class.size, len |-> class.size]
    BY DEF HashOf
  <2>3. Effective(class, original) = [h EXCEPT !.len = n]
    BY <2>1 DEF Effective
  <2>4. Effective(class, original) = [seed |-> h.seed, core |-> class.size, len |-> n]
    BY <2>2, <2>3
  <2>5. Effective(class, key) = Effective(class, original)
            <=> key.seed = h.seed /\ key.core = class.size
    BY <1>4, <2>4
  <2>6. key = h <=> key.seed = h.seed /\ key.core = class.size
    <3>1. key.core = class.size => class.size = 32
      BY <1>1, <1>2
    <3> HIDE DEF h
    <3>2. key = h => key.seed = h.seed /\ key.core = class.size
      BY <2>2
    <3>3. ASSUME key.seed = h.seed, key.core = class.size PROVE key = h
      BY <1>2, <2>2, <3>1, <3>3
    <3> QED BY <3>2, <3>3
  <2>7. Twin(key, original) <=> key = h
    BY <1>6 DEF Twin
  <2> QED BY <2>5, <2>6, <2>7
<1> QED BY <1>5, <1>6

\* verify takes what an HMAC Stream returned, whole, for its own text and under
\* the keys HMAC cannot tell from its own, and nothing else: no other text or
\* key, no tag of another size and none of another namespace.
THEOREM TagsExact == Spec => []VerifyExact
<1>1. IInv => VerifyExact
  <2> SUFFICES ASSUME IInv, class \in Hmacs, NEW s \in Streams, result[s] # Dead,
                      NEW d \in {result[s]} \cup Foreign(s), NEW size \in OutLens,
                      NEW text \in Texts, NEW key \in Keys
               PROVE  Verify(Tag(d, size), text, key) = "true" <=>
                          /\ d = result[s]
                          /\ size = class.size
                          /\ text = log[s]
                          /\ Twin(key, given[s].key)
    BY DEF VerifyExact
  <2> DEFINE p == [key |-> key, len |-> class.size]
  <2>1. IsDone(s)
    BY DEF IInv, InPhase, IsDead, IsOpen
  <2>2. /\ result[s] = Digest(given[s], log[s])
        /\ given[s].key \in Keys /\ given[s].len = class.size
    BY <2>1, HmacSizes DEF IsDone, Accepted, Params
  <2>3. Verify(Tag(d, size), text, key) = "true"
            <=> size = class.size /\ key.len = 32 /\ d = Digest(p, text)
    BY HmacSizes DEF Verify, Compare, Tag
  <2>4. ASSUME key.len = 32
        PROVE  result[s] = Digest(p, text) <=> text = log[s] /\ Twin(key, given[s].key)
    <3>1. Effective(class, key) = Effective(class, given[s].key) <=> Twin(key, given[s].key)
      BY <2>2, <2>4, TwinsShareBlock
    <3>2. result[s] = Digest(p, text)
              <=> Effective(class, key) = Effective(class, given[s].key) /\ text = log[s]
      BY <2>2 DEF Digest, DigestOf
    <3> QED BY <3>1, <3>2
  <2>5. ASSUME d # result[s] PROVE d # Digest(p, text)
    <3>1. PICK c \in Classes \ {class}, n \in OutLens :
              d = DigestOf(c, [key |-> given[s].key, len |-> n], log[s])
      BY <2>5 DEF Foreign
    <3>2. d.name = c.name /\ Digest(p, text).name = class.name
      BY <3>1 DEF Digest, DigestOf
    <3>3. class \in Classes
      BY DEF IInv, Tables
    <3> QED BY <3>1, <3>2, <3>3, NamesDiffer
  <2>6. Twin(key, given[s].key) => key.len = 32
    BY DEF Twin
  <2> QED BY <2>3, <2>4, <2>5, <2>6
<1> QED BY <1>1, Invariance, PTL
=============================================================================
