-------------------------- MODULE KeyExchangeProofs --------------------------
(***************************************************************************)
(* Theorems about KeyExchange for any number of holders, draws, messages   *)
(* and derivations: what is sent opens for those who had the key, and for  *)
(* them it does.                                                           *)
(***************************************************************************)
EXTENDS KeyExchange, FiniteSetTheorems, TLAPS

-----------------------------------------------------------------------------
(***************************************************************************)
(* Buffers that key pairs can have.  owner is the algorithm that each pair *)
(* was generated for.                                                      *)
(***************************************************************************)
IsSecret(owner, b) ==
    /\ b \in SecretBuffers
    /\ b.kept <= b.size
    /\ b.kept = 0 => b.of = Zero
    /\ b.kept > 0 => /\ b.of.draw \in DOMAIN owner
                     /\ b.of = [alg |-> owner[b.of.draw], draw |-> b.of.draw]

\* What the public keys of an algorithm were made from: for X25519 the first 32
\* bytes of anything.
IsHalf(owner, a, s) ==
    /\ IsSecret(owner, s)
    /\ s.size = SecretBytes[a]
    /\ a # "crypto" => s.kept = s.size
    /\ a \in Kems => s.of.alg = a

IsPublic(owner, b) ==
    /\ b \in PublicBuffers
    /\ b.kept <= b.size
    /\ b.kept = 0 => b.of = Zero
    /\ b.kept > 0 => /\ b.of \in [alg : Algorithms, half : SecretBuffers]
                     /\ b.kept <= PublicBytes[b.of.alg]
                     /\ IsHalf(owner, b.of.alg, b.of.half)

IsMessage(owner, m) ==
    \/ /\ m.kind = "box"
       /\ m = [kind |-> "box", from |-> m.from, to |-> m.to]
       /\ IsSecret(owner, m.from) /\ m.from.size = 32
       /\ IsPublic(owner, m.to) /\ m.to.size = 32 /\ m.to # Blank(32)
    \/ /\ m.kind = "seal"
       /\ m = [kind |-> "seal", to |-> m.to]
       /\ IsPublic(owner, m.to) /\ m.to.size = 32
    \/ /\ m.kind = "signature"
       /\ m = [kind |-> "signature", by |-> m.by, signer |-> m.signer]
       /\ IsSecret(owner, m.by) /\ m.by.size = 64
       /\ m.signer \in Holders /\ Touched(m.by) \subseteq held[m.signer]
    \/ /\ m.kind = "capsule"
       /\ m = [kind |-> "capsule", alg |-> m.alg, to |-> m.to, draw |-> m.draw]
       /\ m.alg \in Kems /\ m.draw \in drawn
       /\ IsPublic(owner, m.to) /\ m.to.size = PublicBytes[m.alg]
    \/ /\ m.kind = "secretbox"
       /\ m = [kind |-> "secretbox", cipher |-> m.cipher, key |-> m.key, aad |-> m.aad, origin |-> m.origin]
       /\ m.cipher \in {"XChaCha20Box", "XSalsa20Box"}
       /\ m.cipher = "XSalsa20Box" => m.aad = "none"
       /\ m.key.size = 32

Owned(owner) ==
    /\ DOMAIN owner \subseteq drawn
    /\ \A d \in DOMAIN owner : owner[d] \in Algorithms

Buffers(owner) ==
    /\ sk = [h \in Holders |-> sk[h]] /\ \A h \in Holders : IsSecret(owner, sk[h])
    /\ pk = [h \in Holders |-> pk[h]] /\ \A h \in Holders : IsPublic(owner, pk[h])

\* A private key that nobody cut, wiped or overwrote is somewhere.
Survives(owner) == \A d \in DOMAIN owner \ spoilt : \E h \in Holders : d \in Pairs(sk[h])

\* What the history variables remember.
Seen ==
    /\ held \in [Holders -> SUBSET drawn]
    /\ \A h \in Holders : Touched(sk[h]) \subseteq held[h]
    /\ spoilt \subseteq drawn

Messages(owner) == \A m \in wire : IsMessage(owner, m)

Known(owner) ==
    /\ Owned(owner)
    /\ Buffers(owner)
    /\ Survives(owner)
    /\ Seen
    /\ Messages(owner)

-----------------------------------------------------------------------------
(***************************************************************************)
(* The book of derivations: entries of a key's size, its material and what *)
(* it was made from.  The book keeps the master keys that subkeys have     *)
(* taken the place of.  Z is the capsules sent.                            *)
(***************************************************************************)
KeyOf(n, m) == IF m = Zero THEN Blank(n) ELSE [size |-> n, of |-> m]

Capsules == {m \in wire : m.kind = "capsule"}

\* A draw made one capsule only.
OneEach(Z) == \A b, c \in Z : b.draw = c.draw => b = c

Nulled(n, m, o) == m = Zero /\ o = Nothing(n)
Agreed(Z, n, m, o) == n = SharedBytes /\ \E c \in Z : m = [secret |-> c] /\ o = [encapsulated |-> c.draw]
MadeUp(n, m, o) == n = SharedBytes /\ o = m /\ DOMAIN m = {"rejected", "altered", "with"}
Stretched(n, m, o) ==
    \E p \in Passwords, s \in Salts, r \in Profiles :
       /\ m = [password |-> p, salt |-> s, profile |-> r]
       /\ o = [stretched |-> p, salt |-> s, profile |-> r, size |-> n]
Derived(book, n, m, o) ==
    \E e \in book, i \in {0, 1} :
       /\ e.size = 32
       /\ m = [master |-> e.of, id |-> i]
       /\ o = [subkey |-> e.from, id |-> i, size |-> n]

Justified(Z, book, n, m, o) ==
    \/ Nulled(n, m, o) \/ Agreed(Z, n, m, o) \/ MadeUp(n, m, o)
    \/ Stretched(n, m, o) \/ Derived(book, n, m, o)

Entry(n, m, o) == [size |-> n, of |-> m, from |-> o]

\* Of two keys that are the same both were made alike, and the reverse.
IsBook(Z, book) ==
    /\ \A e \in book : e = Entry(e.size, e.of, e.from) /\ Justified(Z, book, e.size, e.of, e.from)
    /\ \A e, f \in book : (e.size = f.size /\ e.of = f.of) \/ e.from = f.from => e = f

Booked(book) ==
    /\ IsBook(Capsules, book)
    /\ key = [h \in Holders |-> key[h]] /\ origin = [h \in Holders |-> origin[h]]
    /\ \A h \in Holders : /\ key[h] = KeyOf(key[h].size, key[h].of)
                          /\ Entry(key[h].size, key[h].of, origin[h]) \in book
    /\ \A m \in wire : m.kind = "secretbox" =>
          /\ m.key = KeyOf(m.key.size, m.key.of)
          /\ Entry(m.key.size, m.key.of, m.origin) \in book


-----------------------------------------------------------------------------
(***************************************************************************)
(* Sizes, and what becomes of buffers that are cut, made and derived.      *)
(***************************************************************************)
LEMMA SizeLemma ==
    /\ PublicBytes["crypto"] = 32 /\ PublicBytes["sign"] = 32
    /\ PublicBytes["XWing"] = 1216 /\ PublicBytes["MlKem768"] = 1184
    /\ SecretBytes["crypto"] = 32 /\ SecretBytes["sign"] = 64
    /\ SecretBytes["XWing"] = 32 /\ SecretBytes["MlKem768"] = 2400
    /\ CapsuleBytes["XWing"] = 1120 /\ CapsuleBytes["MlKem768"] = 1088
BY DEF PublicBytes, SecretBytes, CapsuleBytes

LEMMA SizesOfAll ==
    \A a \in Algorithms : /\ PublicBytes[a] \in PublicSizes /\ PublicBytes[a] >= 32
                          /\ SecretBytes[a] \in SecretSizes /\ SecretBytes[a] >= 32
BY SizeLemma DEF Algorithms, Kems, PublicSizes, SecretSizes

LEMMA ResizedForm ==
    ASSUME NEW b, b.kept \in Nat, NEW n \in Nat
    PROVE  /\ Resized(b, n).size = n
           /\ Resized(b, n).kept = Least(b.kept, n)
           /\ Resized(b, n).of = IF Least(b.kept, n) = 0 THEN Zero ELSE b.of
           /\ Resized(b, n) = [size |-> n, kept |-> Resized(b, n).kept, of |-> Resized(b, n).of]
BY DEF Resized, Blank, Least

LEMMA SecretForm ==
    ASSUME NEW b \in SecretBuffers
    PROVE  /\ b = [size |-> b.size, kept |-> b.kept, of |-> b.of]
           /\ b.size \in SecretSizes /\ b.kept \in SecretSizes
           /\ b.size \in Nat /\ b.kept \in Nat
           /\ b.of \in [alg : Algorithms, draw : Draws] \cup {Zero}
BY DEF SecretBuffers, SecretSizes

LEMMA PublicForm ==
    ASSUME NEW b \in PublicBuffers
    PROVE  /\ b = [size |-> b.size, kept |-> b.kept, of |-> b.of]
           /\ b.size \in PublicSizes /\ b.kept \in PublicSizes
           /\ b.size \in Nat /\ b.kept \in Nat
           /\ b.of \in [alg : Algorithms, half : SecretBuffers] \cup {Zero}
BY DEF PublicBuffers, PublicSizes

LEMMA BlankSecret ==
    ASSUME NEW owner, NEW n \in SecretSizes
    PROVE  IsSecret(owner, Blank(n)) /\ Touched(Blank(n)) = {} /\ Pairs(Blank(n)) = {}
BY DEF IsSecret, Blank, SecretBuffers, SecretSizes, Touched, Pairs

LEMMA BlankPublic ==
    ASSUME NEW owner, NEW n \in PublicSizes
    PROVE  IsPublic(owner, Blank(n))
BY DEF IsPublic, Blank, PublicBuffers, PublicSizes

\* A private key as it is generated.
LEMMA FreshSecret ==
    ASSUME NEW owner, NEW d \in DOMAIN owner \cap Draws, owner[d] \in Algorithms
    PROVE  LET s == Whole(SecretBytes[owner[d]], [alg |-> owner[d], draw |-> d])
           IN  /\ IsSecret(owner, s) /\ IsHalf(owner, owner[d], s)
               /\ Touched(s) = {d} /\ Pairs(s) = {d}
<1> DEFINE a == owner[d]
           s == Whole(SecretBytes[a], [alg |-> a, draw |-> d])
<1>1. a \in Algorithms /\ d \in Draws
  OBVIOUS
<1>2. SecretBytes[a] \in SecretSizes /\ SecretBytes[a] > 0 /\ SecretBytes[a] \in Nat
  BY <1>1, SizesOfAll DEF SecretSizes
<1>3. s.size = SecretBytes[a] /\ s.kept = SecretBytes[a] /\ s.of = [alg |-> a, draw |-> d] /\ s \in SecretBuffers
  BY <1>1, <1>2 DEF Whole, SecretBuffers
<1>4. s.of.alg = a /\ s.of.draw = d
  BY <1>3
<1>5. IsSecret(owner, s)
  BY <1>2, <1>3, <1>4 DEF IsSecret
<1>6. IsHalf(owner, a, s)
  BY <1>3, <1>4, <1>5 DEF IsHalf
<1>7. Touched(s) = {d} /\ Pairs(s) = {d}
  BY <1>2, <1>3, <1>4 DEF Touched, Pairs
<1> QED BY <1>5, <1>6, <1>7

LEMMA ResizedSecret ==
    ASSUME NEW owner, NEW b, IsSecret(owner, b), NEW n \in SecretSizes
    PROVE  /\ IsSecret(owner, Resized(b, n))
           /\ Touched(Resized(b, n)) \subseteq Touched(b)
<1>1. n \in Nat /\ b \in SecretBuffers /\ b.kept <= b.size
  BY DEF IsSecret, SecretSizes
<1>2. b.kept \in SecretSizes /\ b.kept \in Nat /\ b.of \in [alg : Algorithms, draw : Draws] \cup {Zero}
  BY <1>1, SecretForm
<1> DEFINE r == Resized(b, n)
<1>3. r.size = n /\ r.kept = Least(b.kept, n) /\ r.of = (IF Least(b.kept, n) = 0 THEN Zero ELSE b.of)
      /\ r = [size |-> n, kept |-> r.kept, of |-> r.of]
  BY <1>1, <1>2, ResizedForm
<1>4. r.kept \in SecretSizes /\ r.kept <= n /\ r.kept <= b.kept /\ r.kept \in Nat
  BY <1>1, <1>2, <1>3 DEF Least
<1> HIDE DEF r
<1>5. r \in SecretBuffers
  BY <1>2, <1>3, <1>4 DEF SecretBuffers
<1>6. r.kept > 0 => r.of = b.of /\ b.kept > 0
  BY <1>1, <1>2, <1>3, <1>4
<1>7. IsSecret(owner, r)
  BY <1>3, <1>4, <1>5, <1>6 DEF IsSecret
<1>8. Touched(r) \subseteq Touched(b)
  BY <1>6 DEF Touched
<1> QED BY <1>7, <1>8 DEF r

LEMMA ResizedPublic ==
    ASSUME NEW owner, NEW b, IsPublic(owner, b), NEW n \in PublicSizes
    PROVE  IsPublic(owner, Resized(b, n))
<1>1. n \in Nat /\ b \in PublicBuffers /\ b.kept <= b.size
  BY DEF IsPublic, PublicSizes
<1>2. b.kept \in PublicSizes /\ b.kept \in Nat /\ b.of \in [alg : Algorithms, half : SecretBuffers] \cup {Zero}
  BY <1>1, PublicForm
<1> DEFINE r == Resized(b, n)
<1>3. r.size = n /\ r.kept = Least(b.kept, n) /\ r.of = (IF Least(b.kept, n) = 0 THEN Zero ELSE b.of)
      /\ r = [size |-> n, kept |-> r.kept, of |-> r.of]
  BY <1>1, <1>2, ResizedForm
<1>4. r.kept \in PublicSizes /\ r.kept <= n /\ r.kept <= b.kept /\ r.kept \in Nat
  BY <1>1, <1>2, <1>3 DEF Least
<1> HIDE DEF r
<1>5. r \in PublicBuffers
  BY <1>2, <1>3, <1>4 DEF PublicBuffers
<1>6. r.kept > 0 => r.of = b.of /\ b.kept > 0
  BY <1>1, <1>2, <1>3, <1>4
<1>7. r.kept > 0 => r.kept <= PublicBytes[b.of.alg]
  <2> SUFFICES ASSUME r.kept > 0 PROVE r.kept <= PublicBytes[b.of.alg]
    OBVIOUS
  <2>1. b.kept <= PublicBytes[b.of.alg] /\ b.of.alg \in Algorithms
    BY <1>6 DEF IsPublic
  <2>2. PublicBytes[b.of.alg] \in Nat
    BY <2>1, SizesOfAll DEF PublicSizes
  <2> QED BY <1>2, <1>4, <2>1, <2>2
<1>8. IsPublic(owner, r)
  BY <1>3, <1>4, <1>5, <1>6, <1>7 DEF IsPublic
<1> QED BY <1>8 DEF r

\* The public half of a private key an algorithm takes.
LEMMA HalfPublic ==
    ASSUME NEW owner, NEW a \in Algorithms, NEW s, IsHalf(owner, a, s)
    PROVE  IsPublic(owner, PublicOf(a, s))
<1> DEFINE p == PublicOf(a, s)
<1>1. s \in SecretBuffers
  BY DEF IsHalf, IsSecret
<1>2. PublicBytes[a] \in PublicSizes /\ PublicBytes[a] \in Nat /\ PublicBytes[a] > 0
  BY SizesOfAll DEF PublicSizes
<1>3. p = [size |-> PublicBytes[a], kept |-> PublicBytes[a], of |-> [alg |-> a, half |-> s]]
  BY DEF PublicOf, Whole
<1> HIDE DEF p
<1>4. p \in PublicBuffers /\ p.of \in [alg : Algorithms, half : SecretBuffers]
  BY <1>1, <1>2, <1>3 DEF PublicBuffers
<1>5. p.of.alg = a /\ p.of.half = s /\ p.kept = PublicBytes[a] /\ p.size = PublicBytes[a]
  BY <1>3
<1>6. IsPublic(owner, p)
  BY <1>2, <1>4, <1>5 DEF IsPublic
<1> QED BY <1>6 DEF p

\* FromSkToPk of a private key of any algorithm.
LEMMA DerivedPublic ==
    ASSUME NEW owner, NEW s, IsSecret(owner, s), NEW a \in {"crypto", "sign"}
    PROVE  IsPublic(owner, FromSkToPk(a, s))
<1>0. s.kept \in Nat /\ 32 \in SecretSizes /\ 64 \in SecretSizes /\ 32 \in PublicSizes /\ a \in Algorithms
  BY SecretForm DEF IsSecret, SecretSizes, PublicSizes, Algorithms
<1>1. CASE a = "crypto"
  <2>1. IsSecret(owner, Resized(s, 32)) /\ Resized(s, 32).size = 32
    BY <1>0, ResizedSecret, ResizedForm
  <2>2. IsHalf(owner, a, Resized(s, 32))
    BY <1>1, <2>1, SizeLemma DEF IsHalf, Kems
  <2> QED BY <1>0, <1>1, <2>2, HalfPublic DEF FromSkToPk
<1>2. CASE a = "sign" /\ s.kept >= 64
  <2>1. IsSecret(owner, Resized(s, 64)) /\ Resized(s, 64).size = 64 /\ Resized(s, 64).kept = 64
    BY <1>0, <1>2, ResizedSecret, ResizedForm DEF Least
  <2>2. IsHalf(owner, a, Resized(s, 64))
    BY <1>2, <2>1, SizeLemma DEF IsHalf, Kems
  <2> QED BY <1>0, <1>2, <2>2, HalfPublic DEF FromSkToPk
<1>3. CASE a = "sign" /\ ~(s.kept >= 64)
  BY <1>0, <1>3, BlankPublic DEF FromSkToPk
<1> QED BY <1>1, <1>2, <1>3

-----------------------------------------------------------------------------
(***************************************************************************)
(* The bounds: a step draws, sends, handles, or draws and sends a capsule. *)
(***************************************************************************)
Others == {m \in wire : m.kind # "capsule"}

Counted ==
    /\ IsFiniteSet(wire) /\ Cardinality(wire) <= MaxSent
    /\ IsFiniteSet(drawn) /\ drawn \subseteq Draws
    /\ handled \in 0..MaxHandled
    /\ Work <= MaxWork

LEMMA WorkLemma ==
    ASSUME Counted
    PROVE  /\ IsFiniteSet(Others)
           /\ Cardinality(drawn) \in Nat /\ Cardinality(Others) \in Nat /\ Cardinality(wire) \in Nat
           /\ handled \in Nat /\ handled \div 2 \in Nat
           /\ Work = Cardinality(drawn) + handled + handled \div 2 + Cardinality(Others)
           /\ Work \in Nat
<1>1. IsFiniteSet(Others)
  BY FS_Subset DEF Counted, Others
<1>2. Cardinality(drawn) \in Nat /\ Cardinality(Others) \in Nat /\ Cardinality(wire) \in Nat
  BY <1>1, FS_CardinalityType DEF Counted
<1>3. handled \in Nat /\ handled \div 2 \in Nat
  BY BoundAssumption DEF Counted
<1>4. Work = Cardinality(drawn) + handled + handled \div 2 + Cardinality(Others)
  BY DEF Work, Others
<1> HIDE DEF Others
<1> QED BY <1>1, <1>2, <1>3, <1>4

LEMMA DrawCounts ==
    ASSUME Counted, NEW d \in Draws, Draw(d), handled' = handled,
           IsFiniteSet(wire)', Cardinality(wire)' <= MaxSent, Others' = Others
    PROVE  Counted'
<1>1. IsFiniteSet(drawn') /\ Cardinality(drawn') = Cardinality(drawn) + 1 /\ drawn' \subseteq Draws
  BY FS_AddElement DEF Counted, Draw
<1>2. Work' = Cardinality(drawn') + handled' + handled' \div 2 + Cardinality(Others')
  BY DEF Work, Others
<1>3. Work' = Work + 1
  BY <1>1, <1>2, WorkLemma
<1>4. Work' <= MaxWork
  BY <1>3, WorkLemma, BoundAssumption DEF Draw
<1> QED BY <1>1, <1>4 DEF Counted

LEMMA SentFinite ==
    ASSUME Counted, NEW m, Send(m)
    PROVE  /\ IsFiniteSet(wire') /\ Cardinality(wire') <= MaxSent
           /\ m.kind = "capsule" => Others' = Others
<1>1. m.kind = "capsule" => Others' = Others
  BY DEF Send, Others
<1>2. CASE m \in wire
  <2>1. wire' = wire
    BY <1>2 DEF Send
  <2> QED BY <1>1, <2>1 DEF Counted
<1>3. CASE m \notin wire
  <2>1. wire' = wire \cup {m} /\ Cardinality(wire) < MaxSent
    BY <1>3 DEF Send
  <2>2. IsFiniteSet(wire') /\ Cardinality(wire') = Cardinality(wire) + 1
    BY <1>3, <2>1, FS_AddElement DEF Counted
  <2>3. Cardinality(wire) \in Nat
    BY WorkLemma
  <2> QED BY <1>1, <2>1, <2>2, <2>3, BoundAssumption
<1> QED BY <1>2, <1>3

LEMMA SendCounts ==
    ASSUME Counted, NEW m, Send(m), m.kind # "capsule", UNCHANGED <<drawn, handled>>
    PROVE  Counted'
<1>1. IsFiniteSet(wire') /\ Cardinality(wire') <= MaxSent
  BY SentFinite
<1>2. Work' = Cardinality(drawn) + handled + handled \div 2 + Cardinality(Others')
  BY DEF Work, Others
<1>3. CASE m \in wire
  <2>1. wire' = wire
    BY <1>3 DEF Send
  <2>2. Work' = Work
    BY <2>1 DEF Work
  <2> QED BY <1>1, <2>2 DEF Counted
<1>4. CASE m \notin wire
  <2>1. wire' = wire \cup {m} /\ Work < MaxWork
    BY <1>4 DEF Send
  <2>2. Others' = Others \cup {m} /\ m \notin Others
    BY <1>4, <2>1 DEF Others
  <2>3. Cardinality(Others') = Cardinality(Others) + 1
    BY <2>2, WorkLemma, FS_AddElement
  <2>4. Work' = Work + 1
    BY <1>2, <2>3, WorkLemma
  <2>5. Work' <= MaxWork
    BY <2>1, <2>4, WorkLemma, BoundAssumption
  <2> QED BY <1>1, <2>5 DEF Counted
<1> QED BY <1>3, <1>4

LEMMA HandleCounts ==
    ASSUME Counted, Handle, UNCHANGED <<drawn, wire>>
    PROVE  Counted'
<1>1. /\ handled' = handled + 1 /\ handled \in Nat /\ handled' \in 0..MaxHandled
      /\ Work + handled < MaxWork /\ Work \in Nat
  BY WorkLemma, BoundAssumption DEF Handle, Counted
<1>2. Work' = Cardinality(drawn) + handled' + handled' \div 2 + Cardinality(Others)
  BY DEF Work, Others
<1>3. \/ handled' \div 2 = handled \div 2
      \/ handled' \div 2 = handled \div 2 + 1 /\ handled >= 1
  BY <1>1
<1>4. Work' <= MaxWork
  BY <1>1, <1>2, <1>3, WorkLemma, BoundAssumption
<1> QED BY <1>1, <1>4 DEF Counted

LEMMA IdleCounts ==
    ASSUME Counted, UNCHANGED <<drawn, wire, handled>>
    PROVE  Counted'
BY DEF Counted, Work

-----------------------------------------------------------------------------
(***************************************************************************)
(* Known is kept: by what changes public keys only, private keys without   *)
(* drawing any, a key pair that is generated, and a message.               *)
(***************************************************************************)

\* The pairs of a buffer.
LEMMA PairsLemma ==
    ASSUME NEW owner, NEW b, IsSecret(owner, b)
    PROVE  /\ Touched(b) \subseteq DOMAIN owner
           /\ Pairs(b) \subseteq Touched(b)
           /\ \A d \in Touched(b) : b.of = [alg |-> owner[d], draw |-> d] /\ b.kept > 0
BY DEF IsSecret, Touched, Pairs

\* More owners, draws and holdings than before.
More(owner, also) ==
    /\ DOMAIN owner \subseteq DOMAIN also
    /\ \A d \in DOMAIN owner : also[d] = owner[d]

LEMMA SecretMore ==
    ASSUME NEW owner, NEW also, More(owner, also), NEW b, IsSecret(owner, b)
    PROVE  IsSecret(also, b)
BY DEF IsSecret, More

LEMMA PublicMore ==
    ASSUME NEW owner, NEW also, More(owner, also), NEW b, IsPublic(owner, b)
    PROVE  IsPublic(also, b)
<1>1. b.kept > 0 => IsHalf(also, b.of.alg, b.of.half)
  BY SecretMore DEF IsPublic, IsHalf
<1> QED BY <1>1 DEF IsPublic

LEMMA MessageMore ==
    ASSUME NEW owner, NEW also, More(owner, also), NEW m, IsMessage(owner, m),
           drawn \subseteq drawn', \A h \in Holders : held[h] \subseteq held[h]'
    PROVE  IsMessage(also, m)'
<1>1. CASE m.kind = "box"
  <2>1. IsSecret(owner, m.from) /\ IsPublic(owner, m.to)
    BY <1>1 DEF IsMessage
  <2>2. IsSecret(also, m.from) /\ IsPublic(also, m.to)
    BY <2>1, SecretMore, PublicMore
  <2> QED BY <1>1, <2>2 DEF IsMessage
<1>2. CASE m.kind = "seal"
  BY <1>2, PublicMore DEF IsMessage
<1>3. CASE m.kind = "signature"
  <2>1. IsSecret(also, m.by) /\ m.signer \in Holders /\ Touched(m.by) \subseteq held'[m.signer]
    BY <1>3, SecretMore DEF IsMessage
  <2> QED BY <1>3, <2>1 DEF IsMessage
<1>4. CASE m.kind = "capsule"
  BY <1>4, PublicMore DEF IsMessage
<1>5. CASE m.kind = "secretbox"
  BY <1>5 DEF IsMessage
<1> QED BY <1>1, <1>2, <1>3, <1>4, <1>5 DEF IsMessage

LEMMA MoreSelf == \A owner : More(owner, owner)
BY DEF More

LEMMA PublicStep ==
    ASSUME NEW owner, Known(owner), UNCHANGED <<sk, wire, drawn, held, spoilt>>,
           pk' = [h \in Holders |-> pk'[h]], \A h \in Holders : IsPublic(owner, pk'[h])
    PROVE  Known(owner)'
<1>1. Messages(owner)'
  BY MessageMore, MoreSelf DEF Known, Messages
<1>2. Owned(owner)' /\ Survives(owner)' /\ Seen'
  BY DEF Known, Owned, Survives, Seen
<1>3. Buffers(owner)'
  BY DEF Known, Buffers
<1> QED BY <1>1, <1>2, <1>3 DEF Known

\* s is what the private keys become and D the pairs that are spoilt.
LEMMA PrivateStep ==
    ASSUME NEW owner, Known(owner), UNCHANGED <<wire, drawn>>,
           pk' = [h \in Holders |-> pk'[h]], \A h \in Holders : IsPublic(owner, pk'[h]),
           NEW s, s = [h \in Holders |-> s[h]], \A h \in Holders : IsSecret(owner, s[h]), SetPrivate(s),
           NEW D, D \subseteq drawn, Spoil(D),
           \A g \in Holders : \A d \in Pairs(sk[g]) : d \in D \/ \E h \in Holders : d \in Pairs(s[h])
    PROVE  Known(owner)'
<1>1. sk' = s /\ held' = [h \in Holders |-> held[h] \cup Touched(s[h])] /\ spoilt' = spoilt \cup D
  BY DEF SetPrivate, Spoil
<1>2. Owned(owner)' /\ Buffers(owner)'
  BY <1>1 DEF Known, Owned, Buffers
<1>3. Survives(owner)'
  BY <1>1 DEF Known, Survives
<1>4. Seen'
  <2>1. \A h \in Holders : Touched(s[h]) \subseteq drawn
    BY PairsLemma DEF Known, Owned
  <2> QED BY <1>1, <2>1 DEF Known, Seen
<1>5. Messages(owner)'
  BY <1>1, MessageMore, MoreSelf DEF Known, Messages
<1> QED BY <1>2, <1>3, <1>4, <1>5 DEF Known

LEMMA SentStep ==
    ASSUME NEW owner, Known(owner), UNCHANGED <<pk, sk, held, spoilt>>, drawn \subseteq drawn',
           NEW m, wire' \subseteq wire \cup {m}, IsMessage(owner, m)'
    PROVE  Known(owner)'
<1>1. Messages(owner)'
  BY MessageMore, MoreSelf DEF Known, Messages
<1>2. Owned(owner)' /\ Survives(owner)' /\ Seen'
  BY DEF Known, Owned, Survives, Seen
<1>3. Buffers(owner)'
  BY DEF Known, Buffers
<1> QED BY <1>1, <1>2, <1>3 DEF Known

LEMMA UntouchedStep ==
    ASSUME NEW owner, Known(owner), UNCHANGED <<pk, sk, wire, drawn, held, spoilt>>
    PROVE  Known(owner)'
<1>1. Messages(owner)'
  BY MessageMore, MoreSelf DEF Known, Messages
<1>2. Owned(owner)' /\ Survives(owner)' /\ Seen'
  BY DEF Known, Owned, Survives, Seen
<1>3. Buffers(owner)'
  BY DEF Known, Buffers
<1> QED BY <1>1, <1>2, <1>3 DEF Known

LEMMA GeneratedStep ==
    ASSUME NEW owner, Known(owner), drawn \subseteq Draws,
           NEW h \in Holders, NEW a \in Algorithms, NEW d \in Draws, Generate(h, a, d)
    PROVE  \E also : Known(also)'
<1> DEFINE also == [e \in DOMAIN owner \cup {d} |-> IF e = d THEN a ELSE owner[e]]
           new == Whole(SecretBytes[a], [alg |-> a, draw |-> d])
           s == [sk EXCEPT ![h] = new]
<1>1. /\ d \notin drawn /\ drawn' = drawn \cup {d}
      /\ pk' = [pk EXCEPT ![h] = PublicOf(a, new)]
      /\ sk' = s
      /\ held' = [g \in Holders |-> held[g] \cup Touched(s[g])]
      /\ spoilt' = spoilt \cup Pairs(sk[h])
      /\ wire' = wire
  BY DEF Generate, Draw, SetPrivate, Spoil
<1>2. DOMAIN also = DOMAIN owner \cup {d} /\ also[d] = a /\ More(owner, also)
  BY <1>1 DEF More, Known, Owned
<1>3. Owned(also)'
  BY <1>1, <1>2 DEF Known, Owned, More
<1>4. IsSecret(also, new) /\ IsHalf(also, a, new) /\ Touched(new) = {d} /\ Pairs(new) = {d}
  <2> HIDE DEF also
  <2> QED BY <1>2, FreshSecret
<1> HIDE DEF also, new
<1>5. IsPublic(also, PublicOf(a, new))
  BY <1>4, HalfPublic
<1>6. sk = [g \in Holders |-> sk[g]] /\ pk = [g \in Holders |-> pk[g]]
  BY DEF Known, Buffers
<1>7. \A g \in Holders : s[g] = IF g = h THEN new ELSE sk[g]
  BY <1>6
<1>8. Buffers(also)'
  <2>1. \A g \in Holders : IsSecret(also, s[g])
    BY <1>2, <1>4, <1>7, SecretMore DEF Known, Buffers
  <2>2. \A g \in Holders : IsPublic(also, pk'[g])
    BY <1>1, <1>2, <1>5, <1>6, PublicMore DEF Known, Buffers
  <2>3. pk' = [g \in Holders |-> pk'[g]] /\ sk' = [g \in Holders |-> sk'[g]]
    BY <1>1, <1>6
  <2> QED BY <1>1, <2>1, <2>2, <2>3 DEF Buffers
<1>9. Survives(also)'
  <2> SUFFICES ASSUME NEW e \in DOMAIN owner \cup {d}, e \notin spoilt, e \notin Pairs(sk[h])
               PROVE  \E g \in Holders : e \in Pairs(s[g])
    BY <1>1, <1>2 DEF Survives
  <2>1. CASE e = d
    BY <1>4, <1>7, <2>1
  <2>2. CASE e # d
    <3>1. PICK g \in Holders : e \in Pairs(sk[g])
      BY <2>2 DEF Known, Survives
    <3> QED BY <1>7, <3>1
  <2> QED BY <2>1, <2>2
<1>10. Seen'
  <2>1. \A g \in Holders : Touched(s[g]) \subseteq drawn'
    BY <1>1, <1>4, <1>7, PairsLemma DEF Known, Owned, Buffers
  <2>2. Pairs(sk[h]) \subseteq drawn
    BY PairsLemma DEF Known, Owned, Buffers
  <2> QED BY <1>1, <2>1, <2>2 DEF Known, Seen
<1>11. Messages(also)'
  <2>1. drawn \subseteq drawn' /\ \A g \in Holders : held[g] \subseteq held'[g]
    BY <1>1
  <2> QED BY <1>1, <1>2, <2>1, MessageMore DEF Known, Messages
<1> QED BY <1>3, <1>8, <1>9, <1>10, <1>11 DEF Known

-----------------------------------------------------------------------------
(***************************************************************************)
(* The book: an entry that is justified can be added.                      *)
(***************************************************************************)
LEMMA ShapeLemma ==
    ASSUME NEW Z, NEW book, NEW n, NEW m, NEW o
    PROVE  /\ Nulled(n, m, o) => DOMAIN m = {"zero"} /\ DOMAIN o = {"nothing"}
           /\ Agreed(Z, n, m, o) => DOMAIN m = {"secret"} /\ DOMAIN o = {"encapsulated"}
           /\ MadeUp(n, m, o) => /\ DOMAIN m = {"rejected", "altered", "with"}
                                 /\ DOMAIN o = {"rejected", "altered", "with"}
           /\ Stretched(n, m, o) => /\ DOMAIN m = {"password", "salt", "profile"}
                                    /\ DOMAIN o = {"stretched", "salt", "profile", "size"}
           /\ Derived(book, n, m, o) => DOMAIN m = {"master", "id"} /\ DOMAIN o = {"subkey", "id", "size"}
<1>1. Nulled(n, m, o) => DOMAIN m = {"zero"} /\ DOMAIN o = {"nothing"}
  BY DEF Nulled, Zero, Nothing
<1>2. Agreed(Z, n, m, o) => DOMAIN m = {"secret"} /\ DOMAIN o = {"encapsulated"}
  BY DEF Agreed
<1>3. MadeUp(n, m, o) => DOMAIN m = {"rejected", "altered", "with"} /\ DOMAIN o = {"rejected", "altered", "with"}
  BY DEF MadeUp
<1>4. Stretched(n, m, o) => /\ DOMAIN m = {"password", "salt", "profile"}
                            /\ DOMAIN o = {"stretched", "salt", "profile", "size"}
  BY DEF Stretched
<1>5. Derived(book, n, m, o) => DOMAIN m = {"master", "id"} /\ DOMAIN o = {"subkey", "id", "size"}
  BY DEF Derived
<1> QED BY <1>1, <1>2, <1>3, <1>4, <1>5

LEMMA SameMade ==
    ASSUME NEW Z, OneEach(Z), NEW book, IsBook(Z, book),
           NEW n, NEW m, NEW o, Justified(Z, book, n, m, o),
           NEW k, NEW l, NEW p, Justified(Z, book, k, l, p)
    PROVE  /\ n = k /\ m = l => o = p
           /\ o = p => n = k /\ m = l
<1> SUFFICES ASSUME (n = k /\ m = l) \/ o = p PROVE n = k /\ m = l /\ o = p
  OBVIOUS
<1>1. DOMAIN m = DOMAIN l \/ DOMAIN o = DOMAIN p
  OBVIOUS
<1>2. CASE Nulled(n, m, o)
  <2>1. Nulled(k, l, p)
    BY <1>1, <1>2, ShapeLemma DEF Justified
  <2>2. o = [nothing |-> n] /\ p = [nothing |-> k] /\ m = Zero /\ l = Zero
    BY <1>2, <2>1 DEF Nulled, Nothing
  <2>3. o = p => o.nothing = p.nothing
    OBVIOUS
  <2> QED BY <2>2, <2>3
<1>3. CASE Agreed(Z, n, m, o)
  <2>1. Agreed(Z, k, l, p)
    BY <1>1, <1>3, ShapeLemma DEF Justified
  <2>2. PICK c \in Z : m = [secret |-> c] /\ o = [encapsulated |-> c.draw]
    BY <1>3 DEF Agreed
  <2>3. PICK b \in Z : l = [secret |-> b] /\ p = [encapsulated |-> b.draw]
    BY <2>1 DEF Agreed
  <2>4. m.secret = c /\ l.secret = b /\ o.encapsulated = c.draw /\ p.encapsulated = b.draw
    BY <2>2, <2>3
  <2>5. c = b
    BY <2>4 DEF OneEach
  <2> QED BY <1>3, <2>1, <2>2, <2>3, <2>5 DEF Agreed
<1>4. CASE MadeUp(n, m, o)
  <2>1. MadeUp(k, l, p)
    BY <1>1, <1>4, ShapeLemma DEF Justified
  <2> QED BY <1>4, <2>1 DEF MadeUp
<1>5. CASE Stretched(n, m, o)
  <2>1. Stretched(k, l, p)
    BY <1>1, <1>5, ShapeLemma DEF Justified
  <2>2. PICK a, s, r : /\ m = [password |-> a, salt |-> s, profile |-> r]
                       /\ o = [stretched |-> a, salt |-> s, profile |-> r, size |-> n]
    BY <1>5 DEF Stretched
  <2>3. PICK b, t, q : /\ l = [password |-> b, salt |-> t, profile |-> q]
                       /\ p = [stretched |-> b, salt |-> t, profile |-> q, size |-> k]
    BY <2>1 DEF Stretched
  <2>4. /\ m.password = a /\ m.salt = s /\ m.profile = r
        /\ o.stretched = a /\ o.salt = s /\ o.profile = r /\ o.size = n
        /\ l.password = b /\ l.salt = t /\ l.profile = q
        /\ p.stretched = b /\ p.salt = t /\ p.profile = q /\ p.size = k
    BY <2>2, <2>3
  <2>5. a = b /\ s = t /\ r = q /\ n = k
    BY <2>4
  <2> QED BY <2>2, <2>3, <2>5
<1>6. CASE Derived(book, n, m, o)
  <2>1. Derived(book, k, l, p)
    BY <1>1, <1>6, ShapeLemma DEF Justified
  <2>2. PICK e \in book, i \in {0, 1} : /\ e.size = 32
                                       /\ m = [master |-> e.of, id |-> i]
                                       /\ o = [subkey |-> e.from, id |-> i, size |-> n]
    BY <1>6 DEF Derived
  <2>3. PICK f \in book, j \in {0, 1} : /\ f.size = 32
                                       /\ l = [master |-> f.of, id |-> j]
                                       /\ p = [subkey |-> f.from, id |-> j, size |-> k]
    BY <2>1 DEF Derived
  <2>4. /\ m.master = e.of /\ m.id = i /\ o.subkey = e.from /\ o.id = i /\ o.size = n
        /\ l.master = f.of /\ l.id = j /\ p.subkey = f.from /\ p.id = j /\ p.size = k
    BY <2>2, <2>3
  <2>5. (e.of = f.of \/ e.from = f.from) /\ i = j /\ n = k
    BY <2>4
  <2>6. e = f
    BY <2>2, <2>3, <2>5 DEF IsBook
  <2> QED BY <2>2, <2>3, <2>5, <2>6
<1> QED BY <1>2, <1>3, <1>4, <1>5, <1>6 DEF Justified

LEMMA JustifiedMore ==
    ASSUME NEW Z, NEW Y, Z \subseteq Y, NEW book, NEW more, book \subseteq more,
           NEW n, NEW m, NEW o, Justified(Z, book, n, m, o)
    PROVE  Justified(Y, more, n, m, o)
<1>1. Agreed(Z, n, m, o) => Agreed(Y, n, m, o)
  BY DEF Agreed
<1>2. Derived(book, n, m, o) => Derived(more, n, m, o)
  BY DEF Derived
<1> QED BY <1>1, <1>2 DEF Justified

LEMMA BookLater ==
    ASSUME NEW Z, NEW Y, Z \subseteq Y, NEW book, IsBook(Z, book)
    PROVE  IsBook(Y, book)
BY JustifiedMore DEF IsBook

LEMMA AddEntry ==
    ASSUME NEW Z, OneEach(Z), NEW book, IsBook(Z, book),
           NEW n, NEW m, NEW o, Justified(Z, book, n, m, o)
    PROVE  IsBook(Z, book \cup {Entry(n, m, o)})
<1> DEFINE x == Entry(n, m, o)
           more == book \cup {x}
<1>1. x.size = n /\ x.of = m /\ x.from = o
  BY DEF Entry
<1>2. \A e \in book : e = Entry(e.size, e.of, e.from) /\ Justified(Z, book, e.size, e.of, e.from)
  BY DEF IsBook
<1> HIDE DEF x
<1>3. \A e \in more : Justified(Z, book, e.size, e.of, e.from)
  BY <1>1, <1>2
<1>4. \A e \in more : e = Entry(e.size, e.of, e.from)
  BY <1>1, <1>2 DEF x
<1>5. \A e \in more : Justified(Z, more, e.size, e.of, e.from)
  BY <1>3, JustifiedMore
<1>6. ASSUME NEW e \in more, NEW f \in more, (e.size = f.size /\ e.of = f.of) \/ e.from = f.from
      PROVE  e = f
  <2>1. e.size = f.size /\ e.of = f.of /\ e.from = f.from
    BY <1>3, <1>6, SameMade
  <2> QED BY <1>4, <2>1
<1> QED BY <1>4, <1>5, <1>6 DEF IsBook, x

-----------------------------------------------------------------------------
(***************************************************************************)
(* The keys and the book in a step.                                        *)
(***************************************************************************)
KeysFit == \A h \in Holders : key[h].size \in KeySizes \cup {0, SharedBytes}

Kept(book) == OneEach(Capsules) /\ KeysFit /\ Booked(book)

LEMMA KeyOfForm ==
    ASSUME NEW n, NEW m
    PROVE  /\ KeyOf(n, m).size = n /\ KeyOf(n, m).of = m
           /\ Blank(n) = KeyOf(n, Zero)
           /\ m # Zero => KeyOf(n, m) = [size |-> n, of |-> m]
BY DEF KeyOf, Blank

LEMMA EntryForm ==
    ASSUME NEW n, NEW m, NEW o
    PROVE  Entry(n, m, o).size = n /\ Entry(n, m, o).of = m /\ Entry(n, m, o).from = o
BY DEF Entry

\* Keys are what they were, and what is sent is neither a secret box nor a
\* capsule.
LEMMA SameKeys ==
    ASSUME NEW book, Kept(book), UNCHANGED symmetric,
           NEW m, m.kind # "secretbox", m.kind # "capsule", wire \subseteq wire', wire' \subseteq wire \cup {m}
    PROVE  Kept(book)'
<1>1. key' = key /\ origin' = origin
  BY DEF symmetric
<1>2. Capsules' = Capsules
  BY DEF Capsules
<1>3. KeysFit' /\ OneEach(Capsules')
  BY <1>1, <1>2 DEF Kept, KeysFit
<1>4. Booked(book)'
  BY <1>1, <1>2 DEF Kept, Booked
<1> QED BY <1>2, <1>3, <1>4 DEF Kept

LEMMA QuietKeys ==
    ASSUME NEW book, Kept(book), UNCHANGED <<symmetric, wire>>
    PROVE  Kept(book)'
<1>1. key' = key /\ origin' = origin /\ wire' = wire
  BY DEF symmetric
<1>2. Capsules' = Capsules
  BY <1>1 DEF Capsules
<1>3. KeysFit' /\ OneEach(Capsules')
  BY <1>1, <1>2 DEF Kept, KeysFit
<1>4. Booked(book)'
  BY <1>1, <1>2 DEF Kept, Booked
<1> QED BY <1>2, <1>3, <1>4 DEF Kept

\* A holder's key becomes one of n bytes, m, made from o.
LEMMA KeySet ==
    ASSUME NEW book, Kept(book), NEW h \in Holders,
           NEW n \in KeySizes \cup {0, SharedBytes}, NEW m, NEW o,
           SetKey(h, KeyOf(n, m), o),
           OneEach(Capsules'), Capsules \subseteq Capsules', Justified(Capsules', book, n, m, o),
           \A x \in wire' : x.kind = "secretbox" => x \in wire
    PROVE  \E more : Kept(more)'
<1> DEFINE more == book \cup {Entry(n, m, o)}
<1>1. IsBook(Capsules', book)
  BY BookLater DEF Kept, Booked
<1>2. IsBook(Capsules', more)
  BY <1>1, AddEntry
<1>3. key' = [key EXCEPT ![h] = KeyOf(n, m)] /\ origin' = [origin EXCEPT ![h] = o]
  BY DEF SetKey
<1>4. key = [g \in Holders |-> key[g]] /\ origin = [g \in Holders |-> origin[g]]
  BY DEF Kept, Booked
<1>5. /\ key' = [g \in Holders |-> key'[g]] /\ origin' = [g \in Holders |-> origin'[g]]
      /\ \A g \in Holders : /\ key'[g] = IF g = h THEN KeyOf(n, m) ELSE key[g]
                            /\ origin'[g] = IF g = h THEN o ELSE origin[g]
  BY <1>3, <1>4
<1>6. \A g \in Holders : /\ key'[g] = KeyOf(key'[g].size, key'[g].of)
                         /\ Entry(key'[g].size, key'[g].of, origin'[g]) \in more
  <2> TAKE g \in Holders
  <2>1. CASE g = h
    BY <1>5, <2>1, KeyOfForm
  <2>2. CASE g # h
    BY <1>5, <2>2 DEF Kept, Booked
  <2> QED BY <2>1, <2>2
<1>7. \A x \in wire' : x.kind = "secretbox" =>
          /\ x.key = KeyOf(x.key.size, x.key.of)
          /\ Entry(x.key.size, x.key.of, x.origin) \in more
  BY DEF Kept, Booked
<1>8. KeysFit'
  <2> SUFFICES ASSUME NEW g \in Holders PROVE key'[g].size \in KeySizes \cup {0, SharedBytes}
    BY DEF KeysFit
  <2> QED BY <1>5, KeyOfForm DEF Kept, KeysFit
<1> HIDE DEF more
<1>9. Booked(more)'
  BY <1>2, <1>5, <1>6, <1>7 DEF Booked
<1> QED BY <1>8, <1>9 DEF Kept

LEMMA KeyMoved ==
    ASSUME NEW book, Kept(book), NEW h \in Holders, NEW g \in Holders, MoveKey(h, g)
    PROVE  \E more : Kept(more)'
<1> DEFINE more == book \cup {Entry(0, Zero, Nothing(0))}
<1>1. IsBook(Capsules, more)
  BY AddEntry DEF Kept, Booked, Justified, Nulled
<1>2. /\ key' = [key EXCEPT ![h] = key[g], ![g] = Blank(0)]
      /\ origin' = [origin EXCEPT ![h] = origin[g], ![g] = Nothing(0)]
      /\ wire' = wire
  BY DEF MoveKey
<1>3. key = [x \in Holders |-> key[x]] /\ origin = [x \in Holders |-> origin[x]]
  BY DEF Kept, Booked
<1>4. /\ key' = [x \in Holders |-> key'[x]] /\ origin' = [x \in Holders |-> origin'[x]]
      /\ \A x \in Holders :
            \/ key'[x] = Blank(0) /\ origin'[x] = Nothing(0)
            \/ \E y \in Holders : key'[x] = key[y] /\ origin'[x] = origin[y]
  BY <1>2, <1>3
<1>5. \A x \in Holders : /\ key'[x] = KeyOf(key'[x].size, key'[x].of)
                         /\ Entry(key'[x].size, key'[x].of, origin'[x]) \in more
                         /\ key'[x].size \in KeySizes \cup {0, SharedBytes}
  <2> TAKE x \in Holders
  <2>1. CASE key'[x] = Blank(0) /\ origin'[x] = Nothing(0)
    <3>1. Blank(0) = KeyOf(0, Zero) /\ Blank(0).size = 0 /\ Blank(0).of = Zero
      BY KeyOfForm
    <3> QED BY <2>1, <3>1
  <2>2. ASSUME NEW y \in Holders, key'[x] = key[y] /\ origin'[x] = origin[y]
        PROVE  /\ key'[x] = KeyOf(key'[x].size, key'[x].of)
               /\ Entry(key'[x].size, key'[x].of, origin'[x]) \in more
               /\ key'[x].size \in KeySizes \cup {0, SharedBytes}
    BY <2>2 DEF Kept, Booked, KeysFit
  <2> QED BY <1>4, <2>1, <2>2
<1>6. KeysFit'
  BY <1>5 DEF KeysFit
<1>7. Capsules' = Capsules
  BY <1>2 DEF Capsules
<1>8. \A x \in wire : x.kind = "secretbox" => /\ x.key = KeyOf(x.key.size, x.key.of)
                                              /\ Entry(x.key.size, x.key.of, x.origin) \in more
  BY DEF Kept, Booked
<1> HIDE DEF more
<1>9. Booked(more)'
  BY <1>1, <1>2, <1>4, <1>5, <1>7, <1>8 DEF Booked
<1> QED BY <1>6, <1>7, <1>9 DEF Kept

LEMMA BoxSealed ==
    ASSUME NEW book, Kept(book), NEW h \in Holders, NEW c, NEW aad, SealSecret(h, c, aad)
    PROVE  Kept(book)'
<1> DEFINE m == [kind |-> "secretbox", cipher |-> c, key |-> key[h], aad |-> aad, origin |-> origin[h]]
<1>1. m.kind = "secretbox" /\ m.key = key[h] /\ m.origin = origin[h]
  OBVIOUS
<1>2. wire' = wire \cup {m} /\ key' = key /\ origin' = origin
  BY DEF SealSecret, Send, symmetric
<1> HIDE DEF m
<1>3. Capsules' = Capsules
  BY <1>1, <1>2 DEF Capsules
<1>4. Booked(book)'
  BY <1>1, <1>2, <1>3 DEF Kept, Booked
<1> QED BY <1>2, <1>3, <1>4 DEF Kept, KeysFit

-----------------------------------------------------------------------------
(***************************************************************************)
(* What the pair of a buffer says of its bytes.                            *)
(***************************************************************************)
LEMMA WholePublic ==
    ASSUME NEW owner, NEW a \in Algorithms, NEW p, IsPublic(owner, p),
           NEW d, d # None, PublicPair(p, a) = d
    PROVE  /\ d \in DOMAIN owner
           /\ p.kept = PublicBytes[a] /\ p.kept > 0
           /\ p.of = [alg |-> a, half |-> Whole(SecretBytes[a], [alg |-> owner[d], draw |-> d])]
           /\ IsHalf(owner, a, p.of.half)
           /\ p = [size |-> p.size, kept |-> p.kept, of |-> p.of] /\ p.size >= p.kept /\ p.size \in Nat
           /\ a \in Kems => owner[d] = a
<1> DEFINE H == p.of.half
<1>1. p.kept = PublicBytes[a] /\ p.of.alg = a /\ SecretPair(H, H.size) = d
  BY DEF PublicPair
<1>2. PublicBytes[a] >= 32 /\ PublicBytes[a] \in Nat /\ SecretBytes[a] \in Nat /\ SecretBytes[a] > 0
  BY SizesOfAll DEF PublicSizes, SecretSizes
<1>3. p.of \in [alg : Algorithms, half : SecretBuffers] /\ IsHalf(owner, a, H)
  BY <1>1, <1>2 DEF IsPublic
<1>4. p \in PublicBuffers /\ p.size >= p.kept /\ p.size \in Nat /\ p.kept \in Nat
  BY PublicForm DEF IsPublic
<1>5. p = [size |-> p.size, kept |-> p.kept, of |-> p.of]
  BY <1>4, PublicForm
<1>6. p.of = [alg |-> a, half |-> H]
  BY <1>1, <1>3
<1> HIDE DEF H
<1>7. IsSecret(owner, H) /\ H.size = SecretBytes[a] /\ (a \in Kems => H.of.alg = a)
  BY <1>3 DEF IsHalf
<1>8. H.kept <= H.size /\ H.kept \in Nat /\ H.size \in Nat /\ H = [size |-> H.size, kept |-> H.kept, of |-> H.of]
  BY <1>7, SecretForm DEF IsSecret
<1>9. H.kept >= H.size /\ H.kept > 0 /\ H.of.draw = d
  BY <1>1, <1>2, <1>7, <1>8 DEF SecretPair
<1>10. d \in DOMAIN owner /\ H.of = [alg |-> owner[d], draw |-> d]
  BY <1>7, <1>9 DEF IsSecret
<1>11. H = Whole(SecretBytes[a], [alg |-> owner[d], draw |-> d])
  BY <1>7, <1>8, <1>9, <1>10 DEF Whole
<1>12. a \in Kems => owner[d] = a
  BY <1>7, <1>10
<1> QED BY <1>1, <1>2, <1>3, <1>4, <1>5, <1>6, <1>10, <1>11, <1>12 DEF H

LEMMA WholeSecret ==
    ASSUME NEW owner, Owned(owner), NEW s, IsSecret(owner, s), NEW d \in Pairs(s)
    PROVE  /\ d \in DOMAIN owner
           /\ s.kept = SecretBytes[owner[d]] /\ s.kept >= 32 /\ s.kept \in Nat /\ s.size \in Nat /\ s.size >= s.kept
           /\ s = [size |-> s.size, kept |-> s.kept, of |-> [alg |-> owner[d], draw |-> d]]
           /\ owner[d] \in Kems => s.size = s.kept
<1>1. s.kept > 0 /\ s.kept = SecretBytes[s.of.alg] /\ s.of.draw = d /\ (s.of.alg \in Kems => s.size = s.kept)
  BY DEF Pairs
<1>2. s \in SecretBuffers /\ s.kept <= s.size
  BY DEF IsSecret
<1>3. s = [size |-> s.size, kept |-> s.kept, of |-> s.of] /\ s.kept \in Nat /\ s.size \in Nat
  BY <1>2, SecretForm
<1>4. d \in DOMAIN owner /\ s.of = [alg |-> owner[d], draw |-> d]
  BY <1>1 DEF IsSecret
<1>5. s.of.alg = owner[d] /\ owner[d] \in Algorithms
  BY <1>4 DEF Owned
<1>6. SecretBytes[owner[d]] >= 32
  BY <1>5, SizesOfAll
<1> QED BY <1>1, <1>2, <1>3, <1>4, <1>5, <1>6

\* The secret comes out of a capsule exactly for who has the pair's key.
LEMMA RecoverLemma ==
    ASSUME NEW owner, Owned(owner), drawn \subseteq Draws, NEW a \in Kems,
           NEW s, IsSecret(owner, s), s.size = SecretBytes[a],
           NEW p, IsPublic(owner, p), p.size = PublicBytes[a]
    PROVE  p = PublicOf(a, s) <=> PublicPair(p, a) \in Pairs(s)
<1>0. a \in Algorithms /\ PublicBytes[a] > 0 /\ SecretBytes[a] > 0 /\ SecretBytes[a] \in Nat
  <2>1. a \in Algorithms
    BY DEF Algorithms
  <2> QED BY <2>1, SizesOfAll DEF SecretSizes, PublicSizes
<1>1. ASSUME p = PublicOf(a, s) PROVE PublicPair(p, a) \in Pairs(s)
  <2>1. p.kept = PublicBytes[a] /\ p.of = [alg |-> a, half |-> s]
    BY <1>1 DEF PublicOf, Whole
  <2>2. p.of.alg = a /\ p.of.half = s
    BY <2>1
  <2>3. IsHalf(owner, a, s)
    BY <1>0, <2>1, <2>2 DEF IsPublic
  <2>4. s.kept = s.size /\ s.of.alg = a
    BY <2>3, SizeLemma DEF IsHalf, Kems
  <2>5. PublicPair(p, a) = s.of.draw
    BY <1>0, <2>1, <2>2, <2>4 DEF PublicPair, SecretPair
  <2>6. Pairs(s) = {s.of.draw}
    BY <1>0, <2>4 DEF Pairs
  <2> QED BY <2>5, <2>6
<1>2. ASSUME PublicPair(p, a) \in Pairs(s) PROVE p = PublicOf(a, s)
  <2> DEFINE d == PublicPair(p, a)
  <2>1. /\ d \in DOMAIN owner /\ s.kept = SecretBytes[owner[d]]
        /\ s = [size |-> s.size, kept |-> s.kept, of |-> [alg |-> owner[d], draw |-> d]]
    BY <1>2, WholeSecret
  <2>2. d # None
    BY <2>1, NoneAssumption DEF Owned
  <2>3. /\ p.kept = PublicBytes[a] /\ owner[d] = a
        /\ p.of = [alg |-> a, half |-> Whole(SecretBytes[a], [alg |-> owner[d], draw |-> d])]
        /\ p = [size |-> p.size, kept |-> p.kept, of |-> p.of]
    BY <1>0, <2>2, WholePublic
  <2>4. s = Whole(SecretBytes[a], [alg |-> owner[d], draw |-> d])
    BY <2>1, <2>3 DEF Whole
  <2> HIDE DEF d
  <2> QED BY <2>3, <2>4 DEF PublicOf, Whole
<1> QED BY <1>1, <1>2

-----------------------------------------------------------------------------
(***************************************************************************)
(* The inductive invariant.  It holds of some owner of the pairs and some  *)
(* book of derivations, which the state does not keep.                     *)
(***************************************************************************)
IInv == Counted /\ (\E owner : Known(owner)) /\ (\E book : Kept(book))

LEMMA IInvInit == Init => IInv
<1> SUFFICES ASSUME Init PROVE IInv
  OBVIOUS
<1>1. Counted
  <2>1. IsFiniteSet(wire) /\ IsFiniteSet(drawn) /\ Cardinality(wire) = 0 /\ Cardinality(drawn) = 0
    BY FS_EmptySet DEF Init
  <2>2. {m \in wire : m.kind # "capsule"} = {} /\ handled = 0 /\ drawn = {}
    BY DEF Init
  <2>3. Work = 0
    BY <2>1, <2>2, FS_EmptySet DEF Work
  <2> QED BY <2>1, <2>2, <2>3, BoundAssumption DEF Counted
<1>2. \E owner : Known(owner)
  <2> DEFINE owner == [d \in {} |-> "crypto"]
  <2>1. DOMAIN owner = {}
    OBVIOUS
  <2> HIDE DEF owner
  <2>2. Owned(owner) /\ Survives(owner) /\ Messages(owner)
    BY <2>1 DEF Init, Owned, Survives, Messages
  <2>3. 0 \in SecretSizes /\ 32 \in PublicSizes
    BY DEF SecretSizes, PublicSizes
  <2>4. Buffers(owner) /\ Seen
    BY <2>3, BlankSecret, BlankPublic DEF Init, Buffers, Seen
  <2> QED BY <2>2, <2>4 DEF Known
<1>3. \E book : Kept(book)
  <2> DEFINE book == {Entry(0, Zero, Nothing(0))}
  <2>1. Capsules = {}
    BY DEF Init, Capsules
  <2>2. OneEach({})
    BY DEF OneEach
  <2>3. IsBook({}, {})
    BY DEF IsBook
  <2>4. IsBook({}, {} \cup {Entry(0, Zero, Nothing(0))})
    BY <2>2, <2>3, AddEntry DEF Justified, Nulled
  <2>5. IsBook({}, book)
    BY <2>4
  <2> HIDE DEF book
  <2>6. \A h \in Holders : key[h] = KeyOf(0, Zero) /\ origin[h] = Nothing(0)
    BY KeyOfForm DEF Init
  <2>7. \A h \in Holders : key[h].size = 0 /\ key[h].of = Zero
    BY <2>6, KeyOfForm
  <2>8. Entry(0, Zero, Nothing(0)) \in book
    BY DEF book
  <2>9. Booked(book)
    BY <2>1, <2>5, <2>6, <2>7, <2>8 DEF Init, Booked
  <2> QED BY <2>1, <2>2, <2>7, <2>9 DEF Kept, KeysFit
<1> QED BY <1>1, <1>2, <1>3 DEF IInv

\* What the invariant says of the buffers in a state.
LEMMA BufferFacts ==
    ASSUME NEW owner, Known(owner)
    PROVE  /\ sk = [h \in Holders |-> sk[h]] /\ pk = [h \in Holders |-> pk[h]]
           /\ \A h \in Holders : /\ IsSecret(owner, sk[h]) /\ IsPublic(owner, pk[h])
                                 /\ sk[h].size \in SecretSizes /\ pk[h].size \in PublicSizes
                                 /\ sk[h].kept \in Nat /\ pk[h].kept \in Nat
                                 /\ sk[h].size \in Nat /\ pk[h].size \in Nat
                                 /\ Pairs(sk[h]) \subseteq drawn
<1> SUFFICES ASSUME NEW h \in Holders
             PROVE  /\ IsSecret(owner, sk[h]) /\ IsPublic(owner, pk[h])
                    /\ sk[h].size \in SecretSizes /\ pk[h].size \in PublicSizes
                    /\ sk[h].kept \in Nat /\ pk[h].kept \in Nat
                    /\ sk[h].size \in Nat /\ pk[h].size \in Nat
                    /\ Pairs(sk[h]) \subseteq drawn
  BY DEF Known, Buffers
<1>1. IsSecret(owner, sk[h]) /\ IsPublic(owner, pk[h])
  BY DEF Known, Buffers
<1>2. sk[h] \in SecretBuffers /\ pk[h] \in PublicBuffers
  BY <1>1 DEF IsSecret, IsPublic
<1>3. Pairs(sk[h]) \subseteq drawn
  BY <1>1, PairsLemma DEF Known, Owned
<1> QED BY <1>1, <1>2, <1>3, SecretForm, PublicForm

-----------------------------------------------------------------------------
(***************************************************************************)
(* The handling steps.                                                     *)
(***************************************************************************)

\* A public key is replaced by one that a key pair can have.
LEMMA PublicHandled ==
    ASSUME IInv, Handle, UNCHANGED <<sk, symmetric, wire, drawn, history>>,
           NEW owner, Known(owner), NEW f, pk' = [h \in Holders |-> f[h]],
           \A h \in Holders : IsPublic(owner, f[h])
    PROVE  IInv'
<1>1. Counted'
  BY HandleCounts DEF IInv
<1>2. Known(owner)'
  <2>1. UNCHANGED <<sk, wire, drawn, held, spoilt>>
    BY DEF history
  <2>2. pk' = [h \in Holders |-> pk'[h]] /\ \A h \in Holders : IsPublic(owner, pk'[h])
    OBVIOUS
  <2> QED BY <2>1, <2>2, PublicStep
<1>3. \E book : Kept(book)'
  BY QuietKeys DEF IInv
<1> QED BY <1>1, <1>2, <1>3 DEF IInv

\* Private keys are replaced, and the pairs in D spoilt.
LEMMA PrivateHandled ==
    ASSUME IInv, Handle, UNCHANGED <<symmetric, wire, drawn>>,
           NEW owner, Known(owner), NEW f, pk' = [h \in Holders |-> f[h]],
           \A h \in Holders : IsPublic(owner, f[h]),
           NEW s, s = [h \in Holders |-> s[h]], \A h \in Holders : IsSecret(owner, s[h]), SetPrivate(s),
           NEW D, D \subseteq drawn, Spoil(D),
           \A g \in Holders : \A d \in Pairs(sk[g]) : d \in D \/ \E h \in Holders : d \in Pairs(s[h])
    PROVE  IInv'
<1>1. Counted'
  BY HandleCounts DEF IInv
<1>2. Known(owner)'
  <2>1. pk' = [h \in Holders |-> pk'[h]] /\ \A h \in Holders : IsPublic(owner, pk'[h])
    OBVIOUS
  <2> QED BY <2>1, PrivateStep
<1>3. \E book : Kept(book)'
  BY QuietKeys DEF IInv
<1> QED BY <1>1, <1>2, <1>3 DEF IInv

LEMMA MovePublicStep ==
    ASSUME IInv, NEW h \in Holders, NEW g \in Holders, MovePublic(h, g)
    PROVE  IInv'
<1>1. PICK owner : Known(owner)
  BY DEF IInv
<1> DEFINE f == [pk EXCEPT ![h] = pk[g], ![g] = Blank(0)]
<1>2. IsPublic(owner, Blank(0))
  BY BlankPublic DEF PublicSizes
<1>3. f = [x \in Holders |-> f[x]] /\ \A x \in Holders : IsPublic(owner, f[x])
  BY <1>1, <1>2, BufferFacts
<1>4. pk' = f /\ Handle /\ UNCHANGED <<sk, symmetric, wire, drawn, history>>
  BY DEF MovePublic
<1> HIDE DEF f
<1> QED BY <1>1, <1>3, <1>4, PublicHandled

LEMMA CopyPublicStep ==
    ASSUME IInv, NEW h \in Holders, NEW g \in Holders, NEW n \in PublicSizes, CopyPublic(h, g, n)
    PROVE  IInv'
<1>1. PICK owner : Known(owner)
  BY DEF IInv
<1> DEFINE f == [pk EXCEPT ![h] = Resized(pk[g], n)]
<1>2. IsPublic(owner, Resized(pk[g], n))
  BY <1>1, BufferFacts, ResizedPublic
<1>3. f = [x \in Holders |-> f[x]] /\ \A x \in Holders : IsPublic(owner, f[x])
  BY <1>1, <1>2, BufferFacts
<1>4. pk' = f /\ Handle /\ UNCHANGED <<sk, symmetric, wire, drawn, history>>
  BY DEF CopyPublic
<1> HIDE DEF f
<1> QED BY <1>1, <1>3, <1>4, PublicHandled

LEMMA DerivePublicStep ==
    ASSUME IInv, NEW h \in Holders, NEW g \in Holders, NEW a, DerivePublic(h, g, a)
    PROVE  IInv'
<1>1. PICK owner : Known(owner)
  BY DEF IInv
<1> DEFINE f == [pk EXCEPT ![h] = FromSkToPk(a, sk[g])]
<1>2. IsPublic(owner, FromSkToPk(a, sk[g]))
  BY <1>1, BufferFacts, DerivedPublic DEF DerivePublic
<1>3. f = [x \in Holders |-> f[x]] /\ \A x \in Holders : IsPublic(owner, f[x])
  BY <1>1, <1>2, BufferFacts
<1>4. pk' = f /\ Handle /\ UNCHANGED <<sk, symmetric, wire, drawn, history>>
  BY DEF DerivePublic
<1> HIDE DEF f
<1> QED BY <1>1, <1>3, <1>4, PublicHandled

LEMMA WipePublicStep ==
    ASSUME IInv, NEW h \in Holders, WipePublic(h)
    PROVE  IInv'
<1>1. PICK owner : Known(owner)
  BY DEF IInv
<1> DEFINE f == [pk EXCEPT ![h] = Blank(@.size)]
<1>2. IsPublic(owner, Blank(pk[h].size))
  BY <1>1, BufferFacts, BlankPublic
<1>3. f = [x \in Holders |-> f[x]] /\ \A x \in Holders : IsPublic(owner, f[x])
  BY <1>1, <1>2, BufferFacts
<1>4. pk' = f /\ Handle /\ UNCHANGED <<sk, symmetric, wire, drawn, history>>
  BY DEF WipePublic
<1> HIDE DEF f
<1> QED BY <1>1, <1>3, <1>4, PublicHandled

LEMMA MovePrivateStep ==
    ASSUME IInv, NEW h \in Holders, NEW g \in Holders, MovePrivate(h, g)
    PROVE  IInv'
<1>1. PICK owner : Known(owner)
  BY DEF IInv
<1> DEFINE s == [sk EXCEPT ![h] = sk[g], ![g] = Blank(0)]
<1>2. IsSecret(owner, Blank(0)) /\ h # g
  BY BlankSecret DEF SecretSizes, MovePrivate
<1>3. s = [x \in Holders |-> s[x]]
      /\ \A x \in Holders : s[x] = IF x = g THEN Blank(0) ELSE IF x = h THEN sk[g] ELSE sk[x]
  BY <1>1, <1>2, BufferFacts
<1>4. /\ pk' = pk /\ Handle /\ UNCHANGED <<symmetric, wire, drawn>>
      /\ SetPrivate(s) /\ Spoil(Pairs(sk[h]))
  BY DEF MovePrivate
<1> HIDE DEF s
<1>5. \A x \in Holders : IsSecret(owner, s[x])
  BY <1>1, <1>2, <1>3, BufferFacts
<1>6. \A x \in Holders : \A d \in Pairs(sk[x]) :
          d \in Pairs(sk[h]) \/ \E y \in Holders : d \in Pairs(s[y])
  <2> TAKE x \in Holders
  <2> TAKE d \in Pairs(sk[x])
  <2>1. CASE x = h
    BY <2>1
  <2>2. CASE x = g
    BY <1>2, <1>3, <2>2
  <2>3. CASE x # h /\ x # g
    BY <1>3, <2>3
  <2> QED BY <2>1, <2>2, <2>3
<1> QED BY <1>1, <1>3, <1>4, <1>5, <1>6, BufferFacts, PrivateHandled

\* The private key of h alone becomes b, and D is spoilt.
LEMMA PrivateReplaced ==
    ASSUME IInv, Handle, UNCHANGED <<symmetric, wire, drawn>>,
           NEW owner, Known(owner), NEW f, pk' = [x \in Holders |-> f[x]],
           \A x \in Holders : IsPublic(owner, f[x]),
           NEW h \in Holders, NEW b, IsSecret(owner, b), SetPrivate([sk EXCEPT ![h] = b]),
           NEW D, Spoil(D), Pairs(sk[h]) \ Pairs(b) \subseteq D, D \subseteq Pairs(sk[h])
    PROVE  IInv'
<1> DEFINE s == [sk EXCEPT ![h] = b]
<1>1. s = [x \in Holders |-> s[x]] /\ \A x \in Holders : s[x] = IF x = h THEN b ELSE sk[x]
  BY BufferFacts
<1>2. SetPrivate(s)
  OBVIOUS
<1> HIDE DEF s
<1>3. \A x \in Holders : IsSecret(owner, s[x])
  BY <1>1, BufferFacts
<1>4. \A x \in Holders : \A d \in Pairs(sk[x]) : d \in D \/ \E y \in Holders : d \in Pairs(s[y])
  <2> TAKE x \in Holders
  <2> TAKE d \in Pairs(sk[x])
  <2>1. CASE x = h
    BY <1>1, <2>1
  <2>2. CASE x # h
    BY <1>1, <2>2
  <2> QED BY <2>1, <2>2
<1>5. D \subseteq drawn
  BY BufferFacts
<1> QED BY <1>1, <1>2, <1>3, <1>4, <1>5, PrivateHandled

LEMMA CopyPrivateStep ==
    ASSUME IInv, NEW h \in Holders, NEW g \in Holders, NEW n \in SecretSizes, CopyPrivate(h, g, n)
    PROVE  IInv'
<1>1. PICK owner : Known(owner)
  BY DEF IInv
<1>2. IsSecret(owner, Resized(sk[g], n))
  BY <1>1, BufferFacts, ResizedSecret
<1>3. /\ pk' = pk /\ Handle /\ UNCHANGED <<symmetric, wire, drawn>>
      /\ SetPrivate([sk EXCEPT ![h] = Resized(sk[g], n)]) /\ Spoil(Pairs(sk[h]))
  BY DEF CopyPrivate
<1> QED BY <1>1, <1>2, <1>3, BufferFacts, PrivateReplaced

LEMMA WipePrivateStep ==
    ASSUME IInv, NEW h \in Holders, WipePrivate(h)
    PROVE  IInv'
<1>1. PICK owner : Known(owner)
  BY DEF IInv
<1>2. IsSecret(owner, Blank(sk[h].size))
  BY <1>1, BufferFacts, BlankSecret
<1>3. /\ pk' = pk /\ Handle /\ UNCHANGED <<symmetric, wire, drawn>>
      /\ SetPrivate([sk EXCEPT ![h] = Blank(sk[h].size)]) /\ Spoil(Pairs(sk[h]))
  BY DEF WipePrivate
<1> QED BY <1>1, <1>2, <1>3, BufferFacts, PrivateReplaced

LEMMA ResizeKeysStep ==
    ASSUME IInv, NEW h \in Holders, NEW n \in PublicSizes, NEW m \in SecretSizes, ResizeKeys(h, n, m)
    PROVE  IInv'
<1>1. PICK owner : Known(owner)
  BY DEF IInv
<1> DEFINE f == [pk EXCEPT ![h] = Resized(@, n)]
<1>2. IsSecret(owner, Resized(sk[h], m)) /\ IsPublic(owner, Resized(pk[h], n))
  BY <1>1, BufferFacts, ResizedSecret, ResizedPublic
<1>3. f = [x \in Holders |-> f[x]] /\ \A x \in Holders : IsPublic(owner, f[x])
  BY <1>1, <1>2, BufferFacts
<1>4. /\ pk' = f /\ Handle /\ UNCHANGED <<symmetric, wire, drawn>>
      /\ SetPrivate([sk EXCEPT ![h] = Resized(sk[h], m)])
      /\ Spoil(Pairs(sk[h]) \ Pairs(Resized(sk[h], m)))
  BY DEF ResizeKeys
<1> HIDE DEF f
<1> QED BY <1>1, <1>2, <1>3, <1>4, PrivateReplaced

-----------------------------------------------------------------------------
(***************************************************************************)
(* The steps that draw, send and derive.                                   *)
(***************************************************************************)
LEMMA GenerateStep ==
    ASSUME IInv, NEW h \in Holders, NEW a \in Algorithms, NEW d \in Draws, Generate(h, a, d)
    PROVE  IInv'
<1>1. Draw(d) /\ UNCHANGED <<symmetric, wire, handled>>
  BY DEF Generate
<1>2. Counted'
  <2>1. Others' = Others
    BY <1>1 DEF Others
  <2> QED BY <1>1, <2>1, DrawCounts DEF IInv, Counted
<1>3. \E owner : Known(owner)'
  BY GeneratedStep DEF IInv, Counted
<1>4. \E book : Kept(book)'
  BY <1>1, QuietKeys DEF IInv
<1> QED BY <1>2, <1>3, <1>4 DEF IInv

\* A message other than a capsule and a secret box.
LEMMA MessageSent ==
    ASSUME IInv, NEW m, Send(m), m.kind # "capsule", m.kind # "secretbox",
           UNCHANGED <<pk, sk, symmetric, drawn, history, handled>>,
           NEW owner, Known(owner), IsMessage(owner, m)'
    PROVE  IInv'
<1>1. wire' = wire \cup {m} /\ UNCHANGED <<pk, sk, held, spoilt, drawn, handled>>
  BY DEF Send, history
<1>2. Counted'
  BY SendCounts DEF IInv
<1>3. Known(owner)'
  BY <1>1, SentStep
<1>4. \E book : Kept(book)'
  BY <1>1, SameKeys DEF IInv
<1> QED BY <1>2, <1>3, <1>4 DEF IInv

LEMMA BoxEncryptStep ==
    ASSUME IInv, NEW h \in Holders, NEW g \in Holders, BoxEncrypt(h, g)
    PROVE  IInv'
<1>1. PICK owner : Known(owner)
  BY DEF IInv
<1>m. PICK m : m = [kind |-> "box", from |-> Resized(sk[h], 32), to |-> Resized(pk[g], 32)]
  OBVIOUS
<1>2. m.kind = "box" /\ m.from = Resized(sk[h], 32) /\ m.to = Resized(pk[g], 32)
      /\ m = [kind |-> "box", from |-> m.from, to |-> m.to]
  BY <1>m
<1>3. Send(m) /\ Resized(pk[g], 32) # Blank(32) /\ UNCHANGED <<pk, sk, symmetric, drawn, history, handled>>
  BY <1>m DEF BoxEncrypt
<1>4. IsSecret(owner, Resized(sk[h], 32)) /\ IsPublic(owner, Resized(pk[g], 32))
  BY <1>1, BufferFacts, ResizedSecret, ResizedPublic DEF SecretSizes, PublicSizes
<1>5. Resized(sk[h], 32).size = 32 /\ Resized(pk[g], 32).size = 32
  <2>1. sk[h].kept \in Nat /\ pk[g].kept \in Nat /\ 32 \in Nat
    BY <1>1, BufferFacts
  <2> QED BY <2>1, ResizedForm
<1>6. IsMessage(owner, m)'
  BY <1>2, <1>3, <1>4, <1>5 DEF IsMessage
<1> QED BY <1>1, <1>2, <1>3, <1>6, MessageSent

LEMMA SealStep ==
    ASSUME IInv, NEW g \in Holders, Seal(g)
    PROVE  IInv'
<1>1. PICK owner : Known(owner)
  BY DEF IInv
<1>m. PICK m : m = [kind |-> "seal", to |-> Resized(pk[g], 32)]
  OBVIOUS
<1>2. m.kind = "seal" /\ m.to = Resized(pk[g], 32) /\ m = [kind |-> "seal", to |-> m.to]
  BY <1>m
<1>3. Send(m) /\ UNCHANGED <<pk, sk, symmetric, drawn, history, handled>>
  BY <1>m DEF Seal
<1>4. IsPublic(owner, Resized(pk[g], 32)) /\ Resized(pk[g], 32).size = 32
  <2>1. pk[g].kept \in Nat /\ 32 \in Nat /\ IsPublic(owner, pk[g]) /\ 32 \in PublicSizes
    BY <1>1, BufferFacts DEF PublicSizes
  <2> QED BY <2>1, ResizedPublic, ResizedForm
<1>5. IsMessage(owner, m)'
  BY <1>2, <1>4 DEF IsMessage
<1> QED BY <1>1, <1>2, <1>3, <1>5, MessageSent

LEMMA SignStep ==
    ASSUME IInv, NEW h \in Holders, Sign(h)
    PROVE  IInv'
<1>1. PICK owner : Known(owner)
  BY DEF IInv
<1>m. PICK m : m = [kind |-> "signature", by |-> Resized(sk[h], 64), signer |-> h]
  OBVIOUS
<1>2. m.kind = "signature" /\ m.by = Resized(sk[h], 64) /\ m.signer = h
      /\ m = [kind |-> "signature", by |-> m.by, signer |-> m.signer]
  BY <1>m
<1>3. Send(m) /\ UNCHANGED <<pk, sk, symmetric, drawn, history, handled>>
  BY <1>m DEF Sign
<1>4. IsSecret(owner, Resized(sk[h], 64)) /\ Resized(sk[h], 64).size = 64
      /\ Touched(Resized(sk[h], 64)) \subseteq Touched(sk[h])
  <2>1. sk[h].kept \in Nat /\ 64 \in Nat /\ IsSecret(owner, sk[h]) /\ 64 \in SecretSizes
    BY <1>1, BufferFacts DEF SecretSizes
  <2> QED BY <2>1, ResizedSecret, ResizedForm
<1>5. Touched(m.by) \subseteq held'[m.signer]
  BY <1>1, <1>2, <1>3, <1>4 DEF Known, Seen, history
<1>6. IsMessage(owner, m)'
  BY <1>2, <1>4, <1>5 DEF IsMessage
<1> QED BY <1>1, <1>2, <1>3, <1>6, MessageSent

LEMMA SealSecretStep ==
    ASSUME IInv, NEW h \in Holders, NEW c, NEW aad, SealSecret(h, c, aad),
           c \in {"XChaCha20Box", "XSalsa20Box"}, c = "XSalsa20Box" => aad = "none"
    PROVE  IInv'
<1>1. PICK owner : Known(owner)
  BY DEF IInv
<1>m. PICK m : m = [kind |-> "secretbox", cipher |-> c, key |-> key[h], aad |-> aad, origin |-> origin[h]]
  OBVIOUS
<1>2. /\ m.kind = "secretbox" /\ m.cipher = c /\ m.key = key[h] /\ m.aad = aad
      /\ m = [kind |-> "secretbox", cipher |-> m.cipher, key |-> m.key, aad |-> m.aad, origin |-> m.origin]
  BY <1>m
<1>3. Send(m) /\ UNCHANGED <<pk, sk, symmetric, drawn, history, handled>> /\ key[h].size = 32
  BY <1>m DEF SealSecret
<1>4. IsMessage(owner, m)'
  BY <1>2, <1>3 DEF IsMessage
<1>5. wire' = wire \cup {m} /\ UNCHANGED <<pk, sk, held, spoilt, drawn, handled>>
  BY <1>3 DEF Send, history
<1>6. Counted'
  BY <1>2, <1>3, SendCounts DEF IInv
<1>7. Known(owner)'
  BY <1>1, <1>4, <1>5, SentStep
<1>8. \E book : Kept(book)'
  BY BoxSealed DEF IInv
<1> QED BY <1>6, <1>7, <1>8 DEF IInv

LEMMA EncapsulateStep ==
    ASSUME IInv, NEW h \in Holders, NEW g \in Holders, NEW a \in Kems, NEW d \in Draws, Encapsulate(h, g, a, d)
    PROVE  IInv'
<1>1. PICK owner : Known(owner)
  BY DEF IInv
<1>2. PICK book : Kept(book)
  BY DEF IInv
<1>c. PICK c : c = [kind |-> "capsule", alg |-> a, to |-> pk[g], draw |-> d]
  OBVIOUS
<1>3. /\ c.kind = "capsule" /\ c.alg = a /\ c.to = pk[g] /\ c.draw = d
      /\ c = [kind |-> "capsule", alg |-> c.alg, to |-> c.to, draw |-> c.draw]
  BY <1>c
<1>4. /\ Draw(d) /\ pk[g].size = PublicBytes[a] /\ Send(c)
      /\ SetKey(h, [size |-> SharedBytes, of |-> [secret |-> c]], [encapsulated |-> d])
      /\ UNCHANGED <<pk, sk, history, handled>>
  BY <1>c DEF Encapsulate
<1>5. /\ d \notin drawn /\ drawn' = drawn \cup {d} /\ wire' = wire \cup {c}
      /\ UNCHANGED <<pk, sk, held, spoilt, handled>>
  BY <1>4 DEF Draw, Send, history
<1>6. Counted'
  <2>1. IsFiniteSet(wire)' /\ Cardinality(wire)' <= MaxSent /\ Others' = Others
    BY <1>3, <1>4, SentFinite DEF IInv
  <2> QED BY <1>4, <2>1, DrawCounts DEF IInv
<1>7. IsMessage(owner, c)'
  <2>1. IsPublic(owner, pk[g])
    BY <1>1, BufferFacts
  <2> QED BY <1>3, <1>4, <1>5, <2>1 DEF IsMessage
<1>8. Known(owner)'
  BY <1>1, <1>5, <1>7, SentStep
<1>9. Capsules' = Capsules \cup {c}
  BY <1>3, <1>5 DEF Capsules
<1>10. \A b \in Capsules : b.draw \in drawn
  BY <1>1 DEF Capsules, Known, Messages, IsMessage
<1>11. OneEach(Capsules')
  BY <1>2, <1>3, <1>5, <1>9, <1>10 DEF Kept, OneEach
<1>12. Justified(Capsules', book, SharedBytes, [secret |-> c], [encapsulated |-> d])
  BY <1>3, <1>9 DEF Justified, Agreed
<1>13. [size |-> SharedBytes, of |-> [secret |-> c]] = KeyOf(SharedBytes, [secret |-> c])
  <2>1. [secret |-> c] # Zero
    BY DEF Zero
  <2> QED BY <2>1, KeyOfForm
<1>14. SetKey(h, KeyOf(SharedBytes, [secret |-> c]), [encapsulated |-> d])
  BY <1>4, <1>13
<1>15. \A x \in wire' : x.kind = "secretbox" => x \in wire
  BY <1>3, <1>5
<1>16. \E more : Kept(more)'
  BY <1>2, <1>9, <1>11, <1>12, <1>14, <1>15, KeySet
<1> QED BY <1>6, <1>8, <1>16 DEF IInv

\* A step that changes keys and what they were made from, and nothing else
\* but the count of such steps.
LEMMA KeyHandled ==
    ASSUME IInv, NEW h \in Holders, UNCHANGED <<pk, sk, wire, drawn, history>>,
           Handle \/ UNCHANGED handled,
           NEW n \in KeySizes \cup {0, SharedBytes}, NEW m, NEW o,
           SetKey(h, KeyOf(n, m), o),
           NEW book, Kept(book), Justified(Capsules, book, n, m, o)
    PROVE  IInv'
<1>1. UNCHANGED <<pk, sk, wire, drawn, held, spoilt>> /\ wire' = wire
  BY DEF history
<1>2. Counted'
  BY <1>1, HandleCounts, IdleCounts DEF IInv
<1>3. \E owner : Known(owner)'
  BY <1>1, UntouchedStep DEF IInv
<1>4. Capsules' = Capsules
  BY <1>1 DEF Capsules
<1>5. \E more : Kept(more)'
  BY <1>1, <1>4, KeySet DEF Kept
<1> QED BY <1>2, <1>3, <1>5 DEF IInv

LEMMA DecapsulateStep ==
    ASSUME IInv, NEW h \in Holders, NEW c \in wire, NEW a \in Kems, NEW altered \in BOOLEAN,
           Decapsulate(h, c, a, altered)
    PROVE  IInv'
<1>1. PICK owner : Known(owner)
  BY DEF IInv
<1>2. PICK book : Kept(book)
  BY DEF IInv
<1>3. /\ c.kind = "capsule" /\ CapsuleBytes[c.alg] = CapsuleBytes[a] /\ sk[h].size = SecretBytes[a]
      /\ UNCHANGED <<pk, sk, wire, drawn, history, handled>>
  BY DEF Decapsulate
<1>4. c.alg \in Kems /\ IsPublic(owner, c.to) /\ c.to.size = PublicBytes[c.alg]
  BY <1>1, <1>3 DEF Known, Messages, IsMessage
<1>5. c.alg = a
  BY <1>3, <1>4, SizeLemma DEF Kems
<1>6. c.to = PublicOf(a, sk[h]) <=> PublicPair(c.to, a) \in Pairs(sk[h])
  BY <1>1, <1>3, <1>4, <1>5, BufferFacts, RecoverLemma DEF IInv, Counted, Known
<1> DEFINE r == [rejected |-> c, altered |-> altered, with |-> sk[h]]
<1>7. CASE Recovers(c, a, altered, sk[h])
  <2>1. /\ Decapsulated(c, a, altered, sk[h]) = [size |-> SharedBytes, of |-> [secret |-> c]]
        /\ ~altered /\ PublicPair(c.to, a) \in Pairs(sk[h])
    BY <1>6, <1>7 DEF Decapsulated, Recovers
  <2>2. [secret |-> c] # Zero
    BY DEF Zero
  <2>3. [size |-> SharedBytes, of |-> [secret |-> c]] = KeyOf(SharedBytes, [secret |-> c])
    BY <2>2, KeyOfForm
  <2>4. SetKey(h, KeyOf(SharedBytes, [secret |-> c]), [encapsulated |-> c.draw])
    BY <2>1, <2>3 DEF Decapsulate
  <2>5. Justified(Capsules, book, SharedBytes, [secret |-> c], [encapsulated |-> c.draw])
    BY <1>3 DEF Justified, Agreed, Capsules
  <2> QED BY <1>2, <1>3, <2>4, <2>5, KeyHandled
<1>8. CASE ~Recovers(c, a, altered, sk[h])
  <2>1. /\ Decapsulated(c, a, altered, sk[h]) = [size |-> SharedBytes, of |-> r]
        /\ ~(~altered /\ PublicPair(c.to, a) \in Pairs(sk[h]))
    BY <1>6, <1>8 DEF Decapsulated, Recovers
  <2>2. r # Zero /\ DOMAIN r = {"rejected", "altered", "with"}
    BY DEF Zero
  <2>3. SetKey(h, [size |-> SharedBytes, of |-> r], r)
    BY <2>1 DEF Decapsulate
  <2> HIDE DEF r
  <2>4. [size |-> SharedBytes, of |-> r] = KeyOf(SharedBytes, r)
    BY <2>2, KeyOfForm
  <2>5. SetKey(h, KeyOf(SharedBytes, r), r)
    BY <2>3, <2>4
  <2>6. Justified(Capsules, book, SharedBytes, r, r)
    BY <2>2 DEF Justified, MadeUp
  <2> QED BY <1>2, <1>3, <2>5, <2>6, KeyHandled
<1> QED BY <1>7, <1>8

LEMMA DeriveSubkeyStep ==
    ASSUME IInv, NEW h \in Holders, NEW i \in {0, 1}, NEW n \in KeySizes, DeriveSubkey(h, i, n)
    PROVE  IInv'
<1>1. PICK book : Kept(book)
  BY DEF IInv
<1> DEFINE m == [master |-> key[h].of, id |-> i]
           o == [subkey |-> origin[h], id |-> i, size |-> n]
<1>2. /\ key[h].size = 32 /\ Handle /\ UNCHANGED <<pk, sk, wire, drawn, history>>
      /\ SetKey(h, [size |-> n, of |-> m], o)
  BY DEF DeriveSubkey
<1>3. m # Zero
  BY DEF Zero
<1>4. [size |-> n, of |-> m] = KeyOf(n, m)
  BY <1>3, KeyOfForm
<1>5. Entry(32, key[h].of, origin[h]) \in book
  BY <1>1, <1>2 DEF Kept, Booked
<1>6. Derived(book, n, m, o)
  <2> DEFINE e == Entry(32, key[h].of, origin[h])
  <2>1. e.size = 32 /\ m = [master |-> e.of, id |-> i] /\ o = [subkey |-> e.from, id |-> i, size |-> n]
    BY EntryForm
  <2>2. e \in book
    BY <1>5
  <2> QED BY <2>1, <2>2 DEF Derived
<1>7. Justified(Capsules, book, n, m, o)
  BY <1>6 DEF Justified
<1> HIDE DEF m, o
<1>8. SetKey(h, KeyOf(n, m), o)
  BY <1>2, <1>4
<1> QED BY <1>1, <1>2, <1>7, <1>8, KeyHandled

LEMMA DeriveFromPasswordStep ==
    ASSUME IInv, NEW h \in Holders, NEW p \in Passwords, NEW s \in Salts, NEW r \in Profiles,
           NEW n \in KeySizes, DeriveFromPassword(h, p, s, r, n)
    PROVE  IInv'
<1>1. PICK book : Kept(book)
  BY DEF IInv
<1> DEFINE m == [password |-> p, salt |-> s, profile |-> r]
           o == [stretched |-> p, salt |-> s, profile |-> r, size |-> n]
<1>2. /\ Handle /\ UNCHANGED <<pk, sk, wire, drawn, history>>
      /\ SetKey(h, [size |-> n, of |-> m], o)
  BY DEF DeriveFromPassword
<1>3. m # Zero
  BY DEF Zero
<1>4. [size |-> n, of |-> m] = KeyOf(n, m)
  BY <1>3, KeyOfForm
<1>5. Justified(Capsules, book, n, m, o)
  BY DEF Justified, Stretched
<1> HIDE DEF m, o
<1>6. SetKey(h, KeyOf(n, m), o)
  BY <1>2, <1>4
<1> QED BY <1>1, <1>2, <1>5, <1>6, KeyHandled

LEMMA WipeKeyStep ==
    ASSUME IInv, NEW h \in Holders, WipeKey(h)
    PROVE  IInv'
<1>1. PICK book : Kept(book)
  BY DEF IInv
<1>2. /\ Handle /\ UNCHANGED <<pk, sk, wire, drawn, history>>
      /\ SetKey(h, Blank(key[h].size), Nothing(key[h].size))
  BY DEF WipeKey
<1>3. SetKey(h, KeyOf(key[h].size, Zero), Nothing(key[h].size))
  BY <1>2, KeyOfForm
<1>4. Justified(Capsules, book, key[h].size, Zero, Nothing(key[h].size))
  BY DEF Justified, Nulled
<1>5. key[h].size \in KeySizes \cup {0, SharedBytes}
  BY <1>1 DEF Kept, KeysFit
<1> QED BY <1>1, <1>2, <1>3, <1>4, <1>5, KeyHandled

LEMMA MoveKeyStep ==
    ASSUME IInv, NEW h \in Holders, NEW g \in Holders, MoveKey(h, g)
    PROVE  IInv'
<1>1. Handle /\ UNCHANGED <<pk, sk, wire, drawn, held, spoilt>>
  BY DEF MoveKey, history
<1>2. Counted'
  BY <1>1, HandleCounts DEF IInv
<1>3. \E owner : Known(owner)'
  BY <1>1, UntouchedStep DEF IInv
<1>4. \E book : Kept(book)'
  BY KeyMoved DEF IInv
<1> QED BY <1>2, <1>3, <1>4 DEF IInv

LEMMA IInvStep == IInv /\ [Next]_vars => IInv'
<1> SUFFICES ASSUME IInv, [Next]_vars PROVE IInv'
  OBVIOUS
<1>0. PICK owner : Known(owner)
  BY DEF IInv
<1>1. ASSUME NEW h \in Holders, Handling(h) PROVE IInv'
  <2>1. CASE \/ WipePublic(h) \/ WipePrivate(h) \/ WipeKey(h)
    BY <2>1, WipePublicStep, WipePrivateStep, WipeKeyStep
  <2>2. ASSUME NEW n \in PublicSizes, ResizePublic(h, n) PROVE IInv'
    BY <1>0, <2>2, BufferFacts, ResizeKeysStep DEF ResizePublic
  <2>3. ASSUME NEW n \in SecretSizes, ResizePrivate(h, n) PROVE IInv'
    BY <1>0, <2>3, BufferFacts, ResizeKeysStep DEF ResizePrivate
  <2>4. ASSUME NEW a \in Kems, ResizeToKem(h, a) PROVE IInv'
    <3>1. PublicBytes[a] \in PublicSizes /\ SecretBytes[a] \in SecretSizes
      BY SizesOfAll DEF Algorithms
    <3> QED BY <2>4, <3>1, ResizeKeysStep DEF ResizeToKem
  <2>5. ASSUME NEW g \in Holders, MovePublic(h, g) \/ MovePrivate(h, g) \/ MoveKey(h, g) PROVE IInv'
    BY <2>5, MovePublicStep, MovePrivateStep, MoveKeyStep
  <2>6. ASSUME NEW g \in Holders, NEW n \in PublicSizes, CopyPublic(h, g, n) PROVE IInv'
    BY <2>6, CopyPublicStep
  <2>7. ASSUME NEW g \in Holders, NEW n \in SecretSizes, CopyPrivate(h, g, n) PROVE IInv'
    BY <2>7, CopyPrivateStep
  <2>8. ASSUME NEW g \in Holders, NEW a, DerivePublic(h, g, a) PROVE IInv'
    BY <2>8, DerivePublicStep
  <2> QED BY <1>1, <2>1, <2>2, <2>3, <2>4, <2>5, <2>6, <2>7, <2>8 DEF Handling
<1>2. ASSUME NEW h \in Holders, Using(h) PROVE IInv'
  <2>1. CASE Seal(h) \/ Sign(h)
    BY <2>1, SealStep, SignStep
  <2>2. ASSUME NEW g \in Holders, BoxEncrypt(h, g) PROVE IInv'
    BY <2>2, BoxEncryptStep
  <2>3. ASSUME NEW d \in Draws,
               CryptoKeypair(h, d) \/ SignKeypair(h, d) \/ XWingKeypair(h, d) \/ MlKem768Keypair(h, d)
        PROVE  IInv'
    BY <2>3, GenerateStep DEF CryptoKeypair, SignKeypair, XWingKeypair, MlKem768Keypair, Algorithms, Kems
  <2>4. ASSUME NEW d \in Draws, NEW g \in Holders, XWingEncapsulate(h, g, d) \/ MlKem768Encapsulate(h, g, d)
        PROVE  IInv'
    BY <2>4, EncapsulateStep DEF XWingEncapsulate, MlKem768Encapsulate, Kems
  <2>5. ASSUME NEW c \in wire, NEW altered \in BOOLEAN,
               XWingDecapsulate(h, c, altered) \/ MlKem768Decapsulate(h, c, altered)
        PROVE  IInv'
    BY <2>5, DecapsulateStep DEF XWingDecapsulate, MlKem768Decapsulate, Kems
  <2>6. CASE XSalsa20Encrypt(h)
    BY <2>6, SealSecretStep DEF XSalsa20Encrypt
  <2>7. ASSUME NEW aad \in AADs, XChaCha20Encrypt(h, aad) PROVE IInv'
    BY <2>7, SealSecretStep DEF XChaCha20Encrypt
  <2> QED BY <1>2, <2>1, <2>2, <2>3, <2>4, <2>5, <2>6, <2>7 DEF Using
<1>3. ASSUME NEW h \in Holders, Deriving(h) PROVE IInv'
  <2>1. ASSUME NEW n \in KeySizes, NEW i \in {0, 1}, DeriveSubkey(h, i, n) PROVE IInv'
    BY <2>1, DeriveSubkeyStep
  <2>2. ASSUME NEW n \in KeySizes, NEW p \in Passwords, NEW s \in Salts, NEW r \in Profiles,
               DeriveFromPassword(h, p, s, r, n)
        PROVE  IInv'
    BY <2>2, DeriveFromPasswordStep
  <2> QED BY <1>3, <2>1, <2>2 DEF Deriving
<1>4. CASE UNCHANGED vars
  <2>1. UNCHANGED <<pk, sk, symmetric, wire, drawn, held, spoilt, handled>>
    BY <1>4 DEF vars, symmetric
  <2>2. Counted'
    BY <2>1, IdleCounts DEF IInv
  <2>3. Known(owner)'
    BY <1>0, <2>1, UntouchedStep
  <2>4. \E book : Kept(book)'
    BY <2>1, QuietKeys DEF IInv
  <2> QED BY <2>2, <2>3, <2>4 DEF IInv
<1> QED BY <1>1, <1>2, <1>3, <1>4 DEF Next

LEMMA IInvAlways == Spec => []IInv
BY IInvInit, IInvStep, PTL DEF Spec

-----------------------------------------------------------------------------
(***************************************************************************)
(* Theorems                                                                *)
(***************************************************************************)

\* Buffers keep to the sizes of the four algorithms and to their own, keys to
\* what the derivations are asked for, and every count to its bound.
THEOREM KeyTypes == Spec => []TypeOK
<1>1. ASSUME IInv PROVE TypeOK
  <2>1. PICK owner : Known(owner)
    BY <1>1 DEF IInv
  <2>2. \A h \in Holders : /\ sk[h] \in SecretBuffers /\ pk[h] \in PublicBuffers
                           /\ pk[h].kept <= pk[h].size /\ sk[h].kept <= sk[h].size
    BY <2>1, BufferFacts DEF IsSecret, IsPublic
  <2>3. pk \in [Holders -> PublicBuffers] /\ sk \in [Holders -> SecretBuffers]
    BY <2>1, <2>2, BufferFacts
  <2>4. held \in [Holders -> SUBSET drawn] /\ spoilt \subseteq drawn
    BY <2>1 DEF Known, Seen
  <2>5. \A h \in Holders : key[h].size \in KeySizes \cup {0, SharedBytes}
    BY <1>1 DEF IInv, Kept, KeysFit
  <2>6. Cardinality(wire) <= MaxSent /\ drawn \subseteq Draws /\ handled \in 0..MaxHandled /\ Work <= MaxWork
    BY <1>1 DEF IInv, Counted
  <2> QED BY <2>2, <2>3, <2>4, <2>5, <2>6 DEF TypeOK
<1> QED BY <1>1, IInvAlways, PTL

\* What a private key, cut or whole, is a key of was held.
LEMMA TouchedHeld ==
    ASSUME NEW owner, Known(owner), NEW h \in Holders, NEW n \in Nat, NEW b,
           b.kept > 0, b = Resized(sk[h], n) \/ b = sk[h]
    PROVE  b.of.draw \in held[h]
<1>1. sk[h].kept \in Nat
  BY BufferFacts
<1>2. b.of = sk[h].of /\ sk[h].kept > 0
  BY <1>1, ResizedForm DEF Least
<1>3. sk[h].of.draw \in Touched(sk[h])
  BY <1>2 DEF Touched
<1> QED BY <1>2, <1>3 DEF Known, Seen

LEMMA SealedForAddressee ==
    ASSUME NEW owner, Known(owner), NEW m, NEW h \in Holders,
           PublicPair(m.to, "crypto") \notin held[h] \cup {None}
    PROVE  m.to # PublicOf("crypto", Resized(sk[h], 32))
<1> SUFFICES ASSUME m.to = PublicOf("crypto", Resized(sk[h], 32)) PROVE FALSE
  OBVIOUS
<1> DEFINE b == Resized(sk[h], 32)
<1>1. m.to.kept = 32 /\ m.to.of = [alg |-> "crypto", half |-> b]
  BY SizeLemma DEF PublicOf, Whole
<1>2. m.to.of.half = b
  BY <1>1
<1>3. PublicPair(m.to, "crypto") = SecretPair(b, b.size)
  BY <1>2 DEF PublicPair
<1>4. b.kept \in Nat /\ b.size = 32
  <2>1. sk[h].kept \in Nat /\ 32 \in Nat
    BY BufferFacts
  <2> QED BY <2>1, ResizedForm DEF Least
<1> HIDE DEF b
<1>5. b.kept > 0 /\ PublicPair(m.to, "crypto") = b.of.draw
  BY <1>3, <1>4 DEF SecretPair
<1>6. b.of.draw \in held[h]
  BY <1>5, TouchedHeld DEF b
<1> QED BY <1>5, <1>6

LEMMA BoxedForEnds ==
    ASSUME NEW owner, Known(owner), NEW m, NEW h \in Holders, NEW p, IsPublic(owner, p),
           {SecretPair(m.from, 32), PublicPair(m.to, "crypto")} \cap (held[h] \cup {None}) = {}
    PROVE  ~BoxOpens(m, p, sk[h])
<1> SUFFICES ASSUME BoxOpens(m, p, sk[h]) PROVE FALSE
  OBVIOUS
<1> DEFINE b == Resized(sk[h], 32)
           q == Resized(p, 32)
           H == m.to.of.half
<1>1. /\ SecretPair(m.from, 32) # None /\ PublicPair(m.to, "crypto") # None
      /\ SecretPair(m.from, 32) \notin held[h] /\ PublicPair(m.to, "crypto") \notin held[h]
  OBVIOUS
<1>2. m.from.kept >= 32 /\ m.from.of.draw \notin held[h]
  BY <1>1 DEF SecretPair
<1>3. /\ m.to.kept = 32 /\ m.to.of.alg = "crypto"
      /\ H.kept >= H.size /\ H.size > 0 /\ H.of.draw \notin held[h]
  BY <1>1, SizeLemma DEF PublicPair, SecretPair
<1>4. b \in {m.from, H}
  <2>1. DH(m.from, m.to) = {m.from, H}
    BY <1>3 DEF DH
  <2>2. b \in DH(b, q) /\ DH(m.from, m.to) = DH(b, q)
    BY DEF DH, BoxOpens
  <2> QED BY <2>1, <2>2
<1>5. b.kept \in Nat /\ b.size = 32
  <2>1. sk[h].kept \in Nat /\ 32 \in Nat
    BY BufferFacts
  <2> QED BY <2>1, ResizedForm DEF Least
<1> HIDE DEF b, H
<1>6. b.kept > 0 /\ b.of.draw \notin held[h]
  BY <1>2, <1>3, <1>4, <1>5
<1>7. b.of.draw \in held[h]
  BY <1>6, TouchedHeld DEF b
<1> QED BY <1>6, <1>7

LEMMA SignedBySigner ==
    ASSUME NEW owner, Known(owner), NEW m \in wire, m.kind = "signature",
           NEW p, IsPublic(owner, p), Verifies(m, p)
    PROVE  PublicPair(p, "sign") \in held[m.signer]
<1>1. /\ IsSecret(owner, m.by) /\ m.by.size = 64 /\ m.by.kept = 64
      /\ Touched(m.by) \subseteq held[m.signer]
  BY DEF Known, Messages, IsMessage, Verifies
<1>2. p \in PublicBuffers /\ p.kept \in Nat /\ 32 \in Nat
  BY PublicForm DEF IsPublic
<1>3. Resized(p, 32) = [size |-> 32, kept |-> 32, of |-> [alg |-> "sign", half |-> m.by]]
  BY SizeLemma DEF Verifies, PublicOf, Whole
<1>4. Least(p.kept, 32) = 32 /\ p.of = [alg |-> "sign", half |-> m.by]
  <2>1. Resized(p, 32).kept = 32 /\ Resized(p, 32).of = [alg |-> "sign", half |-> m.by]
    BY <1>3
  <2> QED BY <1>2, <2>1, ResizedForm
<1>5. p.of.alg = "sign" /\ p.of.half = m.by
  BY <1>4
<1>6. p.kept = 32
  BY <1>2, <1>4, <1>5, SizeLemma DEF IsPublic, Least
<1>7. PublicPair(p, "sign") = m.by.of.draw
  BY <1>1, <1>5, <1>6, SizeLemma DEF PublicPair, SecretPair
<1>8. m.by.of.draw \in Touched(m.by)
  BY <1>1 DEF Touched
<1> QED BY <1>1, <1>7, <1>8

LEMMA RecoveredByAddressee ==
    ASSUME NEW owner, Known(owner), NEW c, NEW a, NEW h \in Holders,
           PublicPair(c.to, a) \notin held[h] \cup {None}, c.to = PublicOf(a, sk[h])
    PROVE  FALSE
<1>1. c.to.of = [alg |-> a, half |-> sk[h]]
  BY DEF PublicOf, Whole
<1>2. c.to.of.half = sk[h]
  BY <1>1
<1>3. PublicPair(c.to, a) = sk[h].of.draw /\ sk[h].kept >= sk[h].size /\ sk[h].size > 0
  BY <1>2 DEF PublicPair, SecretPair
<1>4. sk[h].kept > 0
  BY <1>3, BufferFacts
<1>5. sk[h].of.draw \in held[h]
  BY <1>4, TouchedHeld
<1> QED BY <1>3, <1>5

\* Keys that are the same were made alike, and the reverse.
LEMMA SameKeySameOrigin ==
    ASSUME NEW book, Kept(book), NEW m \in wire, m.kind = "secretbox", NEW h \in Holders
    PROVE  m.key = key[h] <=> m.origin = origin[h]
<1> DEFINE e == Entry(m.key.size, m.key.of, m.origin)
           f == Entry(key[h].size, key[h].of, origin[h])
<1>1. e \in book /\ f \in book /\ m.key = KeyOf(m.key.size, m.key.of) /\ key[h] = KeyOf(key[h].size, key[h].of)
  BY DEF Kept, Booked
<1>2. /\ e.size = m.key.size /\ e.of = m.key.of /\ e.from = m.origin
      /\ f.size = key[h].size /\ f.of = key[h].of /\ f.from = origin[h]
  BY EntryForm
<1> HIDE DEF e, f
<1>3. (e.size = f.size /\ e.of = f.of) \/ e.from = f.from => e = f
  BY <1>1 DEF Kept, Booked, IsBook
<1>4. ASSUME m.key = key[h] PROVE m.origin = origin[h]
  BY <1>2, <1>3, <1>4
<1>5. ASSUME m.origin = origin[h] PROVE m.key = key[h]
  <2>1. m.key.size = key[h].size /\ m.key.of = key[h].of
    BY <1>2, <1>3, <1>5
  <2> QED BY <1>1, <2>1
<1> QED BY <1>4, <1>5

\* Nobody who never had the private key of one of its ends opens a message,
\* and no key made otherwise opens a secret box.
THEOREM OnlyAddresseeOpens == Spec => []OnlyAddressee
<1>1. ASSUME IInv, NEW m \in wire, NEW h \in Holders
      PROVE  CASE m.kind = "seal" ->
                \/ PublicPair(m.to, "crypto") \in held[h] \cup {None}
                \/ ~SealOpensAlone(m, sk[h]) /\ \A g \in Holders : ~SealOpens(m, sk[h], pk[g])
          [] m.kind = "box" ->
                {SecretPair(m.from, 32), PublicPair(m.to, "crypto")} \cap (held[h] \cup {None}) = {} =>
                    \A g \in Holders : ~BoxOpens(m, pk[g], sk[h])
          [] m.kind = "signature" ->
                Verifies(m, pk[h]) => PublicPair(pk[h], "sign") \in held[m.signer]
          [] m.kind = "capsule" ->
                PublicPair(m.to, m.alg) \notin held[h] \cup {None} => ~Recovers(m, m.alg, FALSE, sk[h])
          [] m.kind = "secretbox" ->
                /\ XSalsa20Opens(m, key[h]) => origin[h] = m.origin
                /\ \A aad \in AADs :
                       XChaCha20Opens(m, key[h], aad) => origin[h] = m.origin /\ aad = m.aad
  <2>1. PICK owner : Known(owner)
    BY <1>1 DEF IInv
  <2>2. PICK book : Kept(book)
    BY <1>1 DEF IInv
  <2>3. m.kind \in {"box", "seal", "signature", "capsule", "secretbox"}
    BY <2>1 DEF Known, Messages, IsMessage
  <2>4. CASE m.kind = "seal"
    <3> SUFFICES ASSUME PublicPair(m.to, "crypto") \notin held[h] \cup {None}
                 PROVE  ~SealOpensAlone(m, sk[h]) /\ \A g \in Holders : ~SealOpens(m, sk[h], pk[g])
      BY <2>4
    <3>1. m.to # PublicOf("crypto", Resized(sk[h], 32))
      BY <2>1, SealedForAddressee
    <3> QED BY <3>1 DEF SealOpensAlone, SealOpens
  <2>5. CASE m.kind = "box"
    <3>1. ASSUME {SecretPair(m.from, 32), PublicPair(m.to, "crypto")} \cap (held[h] \cup {None}) = {},
                 NEW g \in Holders
          PROVE  ~BoxOpens(m, pk[g], sk[h])
      BY <2>1, <3>1, BufferFacts, BoxedForEnds
    <3> QED BY <2>5, <3>1
  <2>6. CASE m.kind = "signature"
    <3>1. Verifies(m, pk[h]) => PublicPair(pk[h], "sign") \in held[m.signer]
      BY <2>1, <2>6, BufferFacts, SignedBySigner
    <3> QED BY <2>6, <3>1
  <2>7. CASE m.kind = "capsule"
    <3>1. PublicPair(m.to, m.alg) \notin held[h] \cup {None} => ~Recovers(m, m.alg, FALSE, sk[h])
      BY <2>1, RecoveredByAddressee DEF Recovers
    <3> QED BY <2>7, <3>1
  <2>8. CASE m.kind = "secretbox"
    <3>1. m.key = key[h] <=> m.origin = origin[h]
      BY <2>2, <2>8, SameKeySameOrigin
    <3>2. /\ XSalsa20Opens(m, key[h]) => origin[h] = m.origin
          /\ \A aad \in AADs : XChaCha20Opens(m, key[h], aad) => origin[h] = m.origin /\ aad = m.aad
      BY <3>1 DEF XSalsa20Opens, XChaCha20Opens
    <3> QED BY <2>8, <3>2
  <2> QED BY <2>3, <2>4, <2>5, <2>6, <2>7, <2>8
<1>2. IInv => OnlyAddressee
  BY <1>1 DEF OnlyAddressee
<1> QED BY <1>2, IInvAlways, PTL

-----------------------------------------------------------------------------
\* The holder of a pair that is not spoilt, and its key cut to 32 bytes.
LEMMA Survivor ==
    ASSUME NEW owner, Known(owner), NEW d \in DOMAIN owner, d \notin spoilt
    PROVE  \E h \in Holders :
              /\ d \in Pairs(sk[h]) /\ sk[h].size >= 32
              /\ Resized(sk[h], 32) = Whole(32, [alg |-> owner[d], draw |-> d])
<1>1. PICK h \in Holders : d \in Pairs(sk[h])
  BY DEF Known, Survives
<1>2. /\ sk[h].kept >= 32 /\ sk[h].kept \in Nat /\ sk[h].size \in Nat /\ sk[h].size >= sk[h].kept
      /\ sk[h] = [size |-> sk[h].size, kept |-> sk[h].kept, of |-> [alg |-> owner[d], draw |-> d]]
  BY <1>1, BufferFacts, WholeSecret DEF Known
<1>3. sk[h].of = [alg |-> owner[d], draw |-> d] /\ Least(sk[h].kept, 32) = 32
  BY <1>2 DEF Least
<1>4. Resized(sk[h], 32) = Whole(32, [alg |-> owner[d], draw |-> d])
  BY <1>3 DEF Resized, Whole
<1>5. sk[h].size >= 32
  BY <1>2
<1> QED BY <1>1, <1>4, <1>5

\* A whole public key of 32 bytes is as PublicOf makes it.
LEMMA WholeCrypto ==
    ASSUME NEW owner, NEW p, IsPublic(owner, p), p.size = 32, NEW d, d # None, PublicPair(p, "crypto") = d
    PROVE  /\ d \in DOMAIN owner
           /\ p.of.half = Whole(32, [alg |-> owner[d], draw |-> d])
           /\ p = PublicOf("crypto", Whole(32, [alg |-> owner[d], draw |-> d]))
           /\ p.kept = 32 /\ p.of.alg = "crypto"
<1>1. /\ d \in DOMAIN owner /\ p.kept = 32
      /\ p.of = [alg |-> "crypto", half |-> Whole(32, [alg |-> owner[d], draw |-> d])]
      /\ p = [size |-> p.size, kept |-> p.kept, of |-> p.of]
  BY WholePublic, SizeLemma DEF Algorithms
<1>2. p = PublicOf("crypto", Whole(32, [alg |-> owner[d], draw |-> d]))
  BY <1>1, SizeLemma DEF PublicOf, Whole
<1> QED BY <1>1, <1>2

\* A public key of 32 bytes, whole, is not cut to anything else.
LEMMA PublicOfForm ==
    ASSUME NEW a \in {"crypto", "sign"}, NEW s
    PROVE  /\ PublicOf(a, s).size = 32 /\ PublicOf(a, s).kept = 32
           /\ PublicOf(a, s).of.alg = a /\ PublicOf(a, s).of.half = s
           /\ Resized(PublicOf(a, s), 32) = PublicOf(a, s)
           /\ PublicOf(a, s) # Blank(32)
<1>1. PublicOf(a, s) = [size |-> 32, kept |-> 32, of |-> [alg |-> a, half |-> s]]
  BY SizeLemma DEF PublicOf, Whole
<1>2. Least(32, 32) = 32
  BY DEF Least
<1>3. Blank(32).kept = 0
  BY DEF Blank
<1> QED BY <1>1, <1>2, <1>3 DEF Resized

LEMMA AddresseeOfSeal ==
    ASSUME NEW owner, Known(owner), drawn \subseteq Draws, NEW m \in wire, m.kind = "seal",
           PublicPair(m.to, "crypto") \notin spoilt \cup {None}
    PROVE  \E h \in Holders : SealOpensAlone(m, sk[h]) /\ SealOpens(m, sk[h], m.to)
<1> DEFINE d == PublicPair(m.to, "crypto")
           w == Whole(32, [alg |-> owner[d], draw |-> d])
<1>1. IsPublic(owner, m.to) /\ m.to.size = 32
  BY DEF Known, Messages, IsMessage
<1>2. d \in DOMAIN owner /\ m.to = PublicOf("crypto", w)
  BY <1>1, WholeCrypto
<1>3. PICK h \in Holders : sk[h].size >= 32 /\ Resized(sk[h], 32) = w
  BY <1>2, Survivor
<1> HIDE DEF w, d
<1>4. Resized(m.to, 32) = m.to /\ m.to.size >= 32
  BY <1>1, <1>2, PublicOfForm
<1>5. SealOpens(m, sk[h], m.to)
  BY <1>2, <1>3, <1>4 DEF SealOpens
<1>6. FromSkToPk("crypto", sk[h]) = m.to
  BY <1>2, <1>3 DEF FromSkToPk
<1> QED BY <1>3, <1>5, <1>6 DEF SealOpensAlone

LEMMA AddresseeOfBox ==
    ASSUME NEW owner, Known(owner), NEW m \in wire, m.kind = "box"
    PROVE  /\ PublicPair(m.to, "crypto") \notin spoilt \cup {None} =>
                  \E h \in Holders : BoxOpens(m, PublicOf("crypto", m.from), sk[h])
           /\ SecretPair(m.from, 32) \notin spoilt \cup {None} =>
                  \E h \in Holders : BoxOpens(m, m.to, sk[h])
<1>0. /\ IsPublic(owner, m.to) /\ m.to.size = 32 /\ m.to # Blank(32)
      /\ IsSecret(owner, m.from) /\ m.from.size = 32
  BY DEF Known, Messages, IsMessage
<1>1. ASSUME PublicPair(m.to, "crypto") \notin spoilt \cup {None}
      PROVE  \E h \in Holders : BoxOpens(m, PublicOf("crypto", m.from), sk[h])
  <2> DEFINE d == PublicPair(m.to, "crypto")
             w == Whole(32, [alg |-> owner[d], draw |-> d])
             p == PublicOf("crypto", m.from)
  <2>1. d \in DOMAIN owner /\ m.to.of.half = w /\ m.to.kept = 32 /\ m.to.of.alg = "crypto"
    BY <1>0, <1>1, WholeCrypto
  <2>2. PICK h \in Holders : sk[h].size >= 32 /\ Resized(sk[h], 32) = w
    BY <1>1, <2>1, Survivor
  <2>3. /\ p.size >= 32 /\ p.kept = 32 /\ p.of.alg = "crypto" /\ p.of.half = m.from
        /\ Resized(p, 32) = p /\ p # Blank(32)
    BY PublicOfForm
  <2> HIDE DEF w, d, p
  <2>4. DH(m.from, m.to) = {m.from, w} /\ DH(w, p) = {w, m.from}
    BY <2>1, <2>3 DEF DH
  <2>5. BoxOpens(m, p, sk[h])
    BY <2>2, <2>3, <2>4 DEF BoxOpens
  <2> QED BY <2>5 DEF p
<1>2. ASSUME SecretPair(m.from, 32) \notin spoilt \cup {None}
      PROVE  \E h \in Holders : BoxOpens(m, m.to, sk[h])
  <2> DEFINE d == SecretPair(m.from, 32)
  <2>1. m.from.kept >= 32 /\ m.from.of.draw = d
    BY <1>2 DEF SecretPair
  <2>2. /\ m.from.kept \in Nat /\ m.from.kept <= m.from.size
        /\ m.from = [size |-> m.from.size, kept |-> m.from.kept, of |-> m.from.of]
    BY <1>0, SecretForm DEF IsSecret
  <2>3. m.from.kept = 32 /\ d \in DOMAIN owner /\ m.from.of = [alg |-> owner[d], draw |-> d]
    BY <1>0, <2>1, <2>2 DEF IsSecret
  <2>4. m.from = Whole(32, [alg |-> owner[d], draw |-> d])
    BY <1>0, <2>2, <2>3 DEF Whole
  <2>5. PICK h \in Holders : sk[h].size >= 32 /\ Resized(sk[h], 32) = m.from
    BY <1>2, <2>3, <2>4, Survivor
  <2>6. Resized(m.to, 32) = m.to
    <3>1. /\ m.to.kept \in Nat /\ m.to.kept <= 32 /\ m.to = [size |-> m.to.size, kept |-> m.to.kept, of |-> m.to.of]
          /\ m.to.kept = 0 => m.to.of = Zero
      BY <1>0, PublicForm DEF IsPublic
    <3>2. Least(m.to.kept, 32) = m.to.kept
      BY <3>1 DEF Least
    <3> QED BY <1>0, <3>1, <3>2 DEF Resized, Blank
  <2> QED BY <1>0, <2>5, <2>6 DEF BoxOpens
<1> QED BY <1>1, <1>2

LEMMA SignatureVerifies ==
    ASSUME NEW owner, Known(owner), drawn \subseteq Draws, NEW m \in wire, m.kind = "signature",
           NEW d \in Pairs(m.by), m.by.of.alg = "sign", NEW h \in Holders
    PROVE  /\ PublicPair(pk[h], "sign") = d => Verifies(m, pk[h])
           /\ d \in Pairs(sk[h]) => Verifies(m, FromSkToPk("sign", sk[h]))
<1>0. IsSecret(owner, m.by) /\ m.by.size = 64 /\ Owned(owner)
  BY DEF Known, Messages, IsMessage
<1>1. /\ d \in DOMAIN owner /\ m.by.kept = SecretBytes[owner[d]]
      /\ m.by = [size |-> m.by.size, kept |-> m.by.kept, of |-> [alg |-> owner[d], draw |-> d]]
  BY <1>0, WholeSecret
<1>2. owner[d] = "sign" /\ m.by.kept = 64
  <2>1. m.by.of.alg = owner[d]
    BY <1>1
  <2> QED BY <1>1, <2>1, SizeLemma
<1>3. m.by = Whole(64, [alg |-> "sign", draw |-> d])
  BY <1>0, <1>1, <1>2 DEF Whole
<1>4. ASSUME PublicPair(pk[h], "sign") = d PROVE Verifies(m, pk[h])
  <2>1. d # None
    BY <1>0, <1>1, NoneAssumption DEF Owned
  <2>2. IsPublic(owner, pk[h])
    BY BufferFacts
  <2>3. /\ pk[h].kept = 32 /\ pk[h].size >= 32
        /\ pk[h].of = [alg |-> "sign", half |-> m.by]
    <3>1. "sign" \in Algorithms
      BY DEF Algorithms
    <3>2. /\ pk[h].kept = PublicBytes["sign"] /\ pk[h].size >= pk[h].kept
          /\ pk[h].of = [alg |-> "sign", half |-> Whole(SecretBytes["sign"], [alg |-> owner[d], draw |-> d])]
      BY <1>4, <2>1, <2>2, <3>1, WholePublic
    <3> QED BY <1>2, <1>3, <3>2, SizeLemma
  <2>4. Least(32, 32) = 32
    BY DEF Least
  <2>5. Resized(pk[h], 32) = PublicOf("sign", m.by)
    BY <2>3, <2>4, SizeLemma DEF Resized, PublicOf, Whole
  <2> QED BY <1>2, <2>3, <2>5 DEF Verifies
<1>5. ASSUME d \in Pairs(sk[h]) PROVE Verifies(m, FromSkToPk("sign", sk[h]))
  <2>1. IsSecret(owner, sk[h])
    BY BufferFacts
  <2>2. /\ sk[h].kept = 64
        /\ sk[h] = [size |-> sk[h].size, kept |-> sk[h].kept, of |-> [alg |-> owner[d], draw |-> d]]
    BY <1>0, <1>2, <1>5, <2>1, WholeSecret, SizeLemma
  <2>3. sk[h].of = [alg |-> "sign", draw |-> d] /\ Least(64, 64) = 64
    BY <1>2, <2>2 DEF Least
  <2>4. Resized(sk[h], 64) = m.by
    BY <1>3, <2>2, <2>3 DEF Resized, Whole
  <2>5. FromSkToPk("sign", sk[h]) = PublicOf("sign", m.by)
    BY <2>2, <2>4 DEF FromSkToPk
  <2>6. PublicOf("sign", m.by).size >= 32 /\ Resized(PublicOf("sign", m.by), 32) = PublicOf("sign", m.by)
    BY PublicOfForm
  <2> QED BY <1>2, <2>5, <2>6 DEF Verifies
<1> QED BY <1>4, <1>5

LEMMA PairOwner ==
    ASSUME NEW owner, NEW a \in Algorithms, NEW p, IsPublic(owner, p), PublicPair(p, a) # None
    PROVE  /\ PublicPair(p, a) \in DOMAIN owner
           /\ a \in Kems => owner[PublicPair(p, a)] = a
<1>1. PICK d : d = PublicPair(p, a)
  OBVIOUS
<1>2. d \in DOMAIN owner /\ (a \in Kems => owner[d] = a)
  <2>1. d # None /\ PublicPair(p, a) = d
    BY <1>1
  <2>2. d \in DOMAIN owner
    BY <2>1, WholePublic
  <2>3. ASSUME a \in Kems PROVE owner[d] = a
    <3>1. /\ IsHalf(owner, a, p.of.half)
          /\ p.of = [alg |-> a, half |-> Whole(SecretBytes[a], [alg |-> owner[d], draw |-> d])]
      BY <2>1, WholePublic
    <3>2. p.of.half.of.alg = owner[d]
      BY <3>1 DEF Whole
    <3> QED BY <2>3, <3>1, <3>2 DEF IsHalf
  <2> QED BY <2>2, <2>3
<1> QED BY <1>1, <1>2

LEMMA AddresseeOfCapsule ==
    ASSUME NEW owner, Known(owner), drawn \subseteq Draws, NEW m \in wire, m.kind = "capsule",
           PublicPair(m.to, m.alg) \notin spoilt \cup {None}
    PROVE  \E h \in Holders : sk[h].size = SecretBytes[m.alg] /\ Recovers(m, m.alg, FALSE, sk[h])
<1> DEFINE d == PublicPair(m.to, m.alg)
<1>1. m.alg \in Kems /\ m.alg \in Algorithms /\ IsPublic(owner, m.to) /\ m.to.size = PublicBytes[m.alg]
  BY DEF Known, Messages, IsMessage, Algorithms
<1>2. d \in DOMAIN owner /\ owner[d] = m.alg
  BY <1>1, PairOwner
<1>3. PICK h \in Holders : d \in Pairs(sk[h])
  BY <1>2 DEF Known, Survives
<1>4. sk[h].size = SecretBytes[m.alg]
  BY <1>1, <1>2, <1>3, BufferFacts, WholeSecret DEF Known
<1>5. m.to = PublicOf(m.alg, sk[h])
  BY <1>1, <1>3, <1>4, BufferFacts, RecoverLemma DEF Known
<1> QED BY <1>4, <1>5 DEF Recovers

\* What is sent opens, through every form of the call, for whoever has the
\* key, as long as it was neither wiped, cut nor overwritten.
THEOREM AddresseeAlwaysOpens == Spec => []AddresseeOpens
<1>1. ASSUME IInv, NEW m \in wire
      PROVE  CASE m.kind = "seal" ->
                PublicPair(m.to, "crypto") \notin spoilt \cup {None} =>
                    \E h \in Holders : SealOpensAlone(m, sk[h]) /\ SealOpens(m, sk[h], m.to)
          [] m.kind = "box" ->
                /\ PublicPair(m.to, "crypto") \notin spoilt \cup {None} =>
                       \E h \in Holders : BoxOpens(m, PublicOf("crypto", m.from), sk[h])
                /\ SecretPair(m.from, 32) \notin spoilt \cup {None} =>
                       \E h \in Holders : BoxOpens(m, m.to, sk[h])
          [] m.kind = "signature" ->
                \A d \in Pairs(m.by) : m.by.of.alg = "sign" =>
                    \A h \in Holders :
                        /\ PublicPair(pk[h], "sign") = d => Verifies(m, pk[h])
                        /\ d \in Pairs(sk[h]) => Verifies(m, FromSkToPk("sign", sk[h]))
          [] m.kind = "capsule" ->
                PublicPair(m.to, m.alg) \notin spoilt \cup {None} =>
                    \E h \in Holders : sk[h].size = SecretBytes[m.alg] /\ Recovers(m, m.alg, FALSE, sk[h])
          [] m.kind = "secretbox" ->
                \A h \in Holders : origin[h] = m.origin =>
                    XChaCha20Opens(m, key[h], m.aad) \/ XSalsa20Opens(m, key[h])
  <2>1. PICK owner : Known(owner)
    BY <1>1 DEF IInv
  <2>2. PICK book : Kept(book)
    BY <1>1 DEF IInv
  <2>3. m.kind \in {"box", "seal", "signature", "capsule", "secretbox"}
    BY <2>1 DEF Known, Messages, IsMessage
  <2>4. drawn \subseteq Draws
    BY <1>1 DEF IInv, Counted
  <2>5. CASE m.kind = "seal"
    BY <2>1, <2>4, <2>5, AddresseeOfSeal
  <2>6. CASE m.kind = "box"
    BY <2>1, <2>6, AddresseeOfBox
  <2>7. CASE m.kind = "signature"
    BY <2>1, <2>4, <2>7, SignatureVerifies
  <2>8. CASE m.kind = "capsule"
    BY <2>1, <2>4, <2>8, AddresseeOfCapsule
  <2>9. CASE m.kind = "secretbox"
    <3>1. m.cipher \in {"XChaCha20Box", "XSalsa20Box"} /\ m.key.size = 32
      BY <2>1, <2>9 DEF Known, Messages, IsMessage
    <3>2. \A h \in Holders : origin[h] = m.origin => m.key = key[h]
      BY <2>2, <2>9, SameKeySameOrigin
    <3>3. \A h \in Holders : origin[h] = m.origin =>
              XChaCha20Opens(m, key[h], m.aad) \/ XSalsa20Opens(m, key[h])
      BY <3>1, <3>2 DEF XChaCha20Opens, XSalsa20Opens
    <3> QED BY <2>9, <3>3
  <2> QED BY <2>3, <2>5, <2>6, <2>7, <2>8, <2>9
<1>2. IInv => AddresseeOpens
  BY <1>1 DEF AddresseeOpens
<1> QED BY <1>2, IInvAlways, PTL
=============================================================================
