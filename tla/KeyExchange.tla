----------------------------- MODULE KeyExchange -----------------------------
(***************************************************************************)
(* Key pairs of four algorithms, which share the classes PublicKey and     *)
(* PrivateKey and differ in their sizes only, and what is sent with them:  *)
(* boxes, sealed boxes and signatures (asymmetric/), KEM capsules (pq/),   *)
(* and the symmetric keys those lead to, through kdf/ and into             *)
(* XChaCha20Box and XSalsa20Box.                                           *)
(*                                                                         *)
(* A buffer is its size, the number of leading bytes that still come from  *)
(* the key written into it, and which key that is; the other bytes are     *)
(* zero.  A key's bytes are known by the draw they come from.  Reading     *)
(* past the end of a buffer is undefined behaviour (the guard page of      *)
(* sodium_malloc ends the program): such calls are no steps here.  Only    *)
(* capsules are altered on their way.  An altered box is refused by its    *)
(* MAC, a shortened one by its size or its MAC, and an altered signature   *)
(* by its verification; verify looks at no size, so that a shortened       *)
(* signature is read past its end, which is no step either.                *)
(***************************************************************************)
EXTENDS Naturals, FiniteSets

CONSTANTS
    Holders,     \* whoever has a KeyPair and a Key
    Draws,       \* outcomes of the random generator
    Passwords,   \* what Argon2id is given
    Salts,       \* salts with their sizes: records [salt, size]
    Profiles,    \* Argon2id's Interactive, Moderate and Sensitive, or some of them
    KeySizes,    \* sizes asked of the key derivations
    None,        \* no draw
    MaxSent,     \* bound: messages in wire
    MaxHandled,  \* bound: steps that handle keys without using them
    MaxWork      \* bound: messages, those steps and draws together

ASSUME NoneAssumption == None \notin Draws
ASSUME BoundAssumption == MaxSent \in Nat /\ MaxHandled \in Nat /\ MaxWork \in Nat

VARIABLES
    pk,       \* the PublicKey of each holder
    sk,       \* the PrivateKey of each holder
    key,      \* the Key of each holder
    wire,     \* ciphertexts, signatures and capsules made
    drawn,    \* outcomes of the random generator so far
    origin,   \* what each Key was made from (history)
    held,     \* pairs of whose private key a holder has ever had bytes (history)
    spoilt,   \* pairs a private key of which was cut, outgrew its KEM, was wiped
              \* or overwritten (history)
    handled   \* number of handling steps

vars == <<pk, sk, key, wire, drawn, origin, held, spoilt, handled>>
symmetric == <<key, origin>>
history == <<held, spoilt>>

Kems == {"XWing", "MlKem768"}
Algorithms == {"crypto", "sign"} \cup Kems
AADs == {"none", "some"}

\* libsodium's sizes.
PublicBytes == [crypto |-> 32, sign |-> 32, XWing |-> 1216, MlKem768 |-> 1184]
SecretBytes == [crypto |-> 32, sign |-> 64, XWing |-> 32, MlKem768 |-> 2400]
CapsuleBytes == [XWing |-> 1120, MlKem768 |-> 1088]
SharedBytes == 32
SaltBytes == 16

PublicSizes == {0, 32, 1184, 1216}
SecretSizes == {0, 32, 64, 2400}

-----------------------------------------------------------------------------
(***************************************************************************)
(* Buffers                                                                 *)
(***************************************************************************)
Zero == [zero |-> TRUE]     \* the material of a buffer of zero bytes
Blank(n) == [size |-> n, kept |-> 0, of |-> Zero]
Whole(n, m) == [size |-> n, kept |-> n, of |-> m]
Least(m, n) == IF m < n THEN m ELSE n

\* vec_.resize(n), and what a function that reads n bytes of b gets.
Resized(b, n) ==
    IF Least(b.kept, n) = 0 THEN Blank(n)
    ELSE [size |-> n, kept |-> Least(b.kept, n), of |-> b.of]

\* The public half, under an algorithm, of the bytes b of a private key.
PublicOf(a, b) == Whole(PublicBytes[a], [alg |-> a, half |-> b])

SecretBuffers == [size : SecretSizes, kept : SecretSizes, of : [alg : Algorithms, draw : Draws] \cup {Zero}]
PublicBuffers == [size : PublicSizes, kept : PublicSizes, of : [alg : Algorithms, half : SecretBuffers] \cup {Zero}]

\* The pair b's leading n bytes are a private key of.
SecretPair(b, n) == IF b.kept >= n /\ n > 0 THEN b.of.draw ELSE None

\* The pair b is the public key of, under a.
PublicPair(b, a) ==
    IF b.kept = PublicBytes[a] /\ b.of.alg = a THEN SecretPair(b.of.half, b.of.half.size) ELSE None

-----------------------------------------------------------------------------
(***************************************************************************)
(* What a call returns.                                                    *)
(***************************************************************************)

\* FromSkToPk::crypto and ::sign: a multiplication of the first 32 bytes, and
\* bytes 32 to 63 as they are.
FromSkToPk(a, s) ==
    IF a = "crypto" THEN PublicOf(a, Resized(s, 32))
    ELSE IF s.kept >= 64 THEN PublicOf(a, Resized(s, 64))
    ELSE Blank(32)

\* The Diffie-Hellman secret of 32 bytes of a private and of a public key.
DH(s, p) == {s, IF p.kept = 32 /\ p.of.alg = "crypto" THEN p.of.half ELSE p}

\* Box::decrypt returns, with the public key p and the private key s.
BoxOpens(m, p, s) ==
    /\ p.size >= 32 /\ s.size >= 32
    /\ Resized(p, 32) # Blank(32)
    /\ DH(m.from, m.to) = DH(Resized(s, 32), Resized(p, 32))

\* SealedBox::open(ciphertext, s, p) returns.
SealOpens(m, s, p) ==
    /\ p.size >= 32 /\ s.size >= 32
    /\ m.to = Resized(p, 32)
    /\ m.to = PublicOf("crypto", Resized(s, 32))

\* Mutant: the public key of the other kind.
SealOpensAloneSign(m, s) == s.size >= 64 /\ SealOpens(m, s, FromSkToPk("sign", s))

\* SealedBox::open(ciphertext, s) returns: it derives p itself.
SealOpensAlone(m, s) == s.size >= 32 /\ SealOpens(m, s, FromSkToPk("crypto", s))

\* verify returns true: the signature, whole and unaltered, was made with the
\* private half of p.  A private key of another algorithm signs, but nothing
\* verifies that.
Verifies(m, p) ==
    /\ p.size >= 32
    /\ m.by.kept = 64 /\ m.by.of.alg = "sign"
    /\ Resized(p, 32) = PublicOf("sign", m.by)

\* XChaCha20Box::decrypt and XSalsa20Box::decrypt return; the latter knows no
\* AAD.
XChaCha20Opens(m, k, aad) == k.size = 32 /\ m.cipher = "XChaCha20Box" /\ m.key = k /\ m.aad = aad
XSalsa20Opens(m, k) == k.size = 32 /\ m.cipher = "XSalsa20Box" /\ m.key = k

\* decapsulate of a recovers what encapsulate returned.
Recovers(c, a, altered, s) ==
    /\ ~altered
    /\ c.to = PublicOf(a, s)

\* Mutant: the result of decapsulation is not looked at.
DecapsulatedUnchecked(c, a, altered, s) ==
    [size |-> SharedBytes,
     of   |-> IF Recovers(c, a, altered, s) THEN [secret |-> c] ELSE Zero]

\* What it returns: that, or the secret both KEMs make up for an altered
\* capsule or a wrong key, unless they fail.
Decapsulated(c, a, altered, s) ==
    [size |-> SharedBytes,
     of   |-> IF Recovers(c, a, altered, s) THEN [secret |-> c]
              ELSE [rejected |-> c, altered |-> altered, with |-> s]]

\* What a Key of n zero bytes was made from.
Nothing(n) == [nothing |-> n]

-----------------------------------------------------------------------------
\* KeyPair(): PublicKey() has 32 bytes, PrivateKey() none.
Init ==
    /\ pk = [h \in Holders |-> Blank(32)]
    /\ sk = [h \in Holders |-> Blank(0)]
    /\ key = [h \in Holders |-> Blank(0)]
    /\ wire = {}
    /\ drawn = {}
    /\ origin = [h \in Holders |-> Nothing(0)]
    /\ held = [h \in Holders |-> {}]
    /\ spoilt = {}
    /\ handled = 0

\* The pairs of whose private key b has bytes, and those whose key it has whole,
\* and for a KEM in the one size that is taken.
Touched(b) == IF b.kept > 0 THEN {b.of.draw} ELSE {}
Pairs(b) ==
    IF /\ b.kept > 0 /\ b.kept = SecretBytes[b.of.alg]
       /\ b.of.alg \in Kems => b.size = b.kept
    THEN {b.of.draw} ELSE {}

\* The private keys of all holders become those of s.
SetPrivate(s) ==
    /\ sk' = s
    /\ held' = [h \in Holders |-> held[h] \cup Touched(s[h])]

Spoil(D) == spoilt' = spoilt \cup D

\* A second handling step counts twice, and a capsule with its draw.
Work ==
    Cardinality(drawn) + handled + handled \div 2 + Cardinality({m \in wire : m.kind # "capsule"})

\* The random generator returns something new.
Draw(d) == d \notin drawn /\ Work < MaxWork /\ drawn' = drawn \cup {d}

Handle == Work + handled < MaxWork /\ handled < MaxHandled /\ handled' = handled + 1

\* The same message again is nothing new.
Send(m) ==
    /\ m \in wire \/ (Cardinality(wire) < MaxSent /\ Work < MaxWork)
    /\ wire' = wire \cup {m}

-----------------------------------------------------------------------------
(***************************************************************************)
(* Key pairs: generated, moved, copied, derived, cut and wiped.            *)
(***************************************************************************)

\* Mutant: sign_generate_keypair with the room of PrivateKey::crypto().
GenerateShort(h, a, d) ==
    /\ Draw(d)
    /\ LET s == Whole(SecretBytes[a], [alg |-> a, draw |-> d])
       IN /\ pk' = [pk EXCEPT ![h] = PublicOf(a, s)]
          /\ SetPrivate([sk EXCEPT ![h] = [s EXCEPT !.size = IF a = "sign" THEN 32 ELSE @]])
    /\ Spoil(Pairs(sk[h]))
    /\ UNCHANGED <<symmetric, wire, handled>>

\* A key pair of a, over whatever pair the holder had.
Generate(h, a, d) ==
    /\ Draw(d)
    /\ LET s == Whole(SecretBytes[a], [alg |-> a, draw |-> d])
       IN /\ pk' = [pk EXCEPT ![h] = PublicOf(a, s)]
          /\ SetPrivate([sk EXCEPT ![h] = s])
    /\ Spoil(Pairs(sk[h]))
    /\ UNCHANGED <<symmetric, wire, handled>>

CryptoKeypair(h, d) == Generate(h, "crypto", d)
SignKeypair(h, d) == Generate(h, "sign", d)
XWingKeypair(h, d) == Generate(h, "XWing", d)
MlKem768Keypair(h, d) == Generate(h, "MlKem768", d)

\* The implicit moves: the source is left with an empty vector.
MovePublic(h, g) ==
    /\ h # g
    /\ Handle
    /\ pk' = [pk EXCEPT ![h] = pk[g], ![g] = Blank(0)]
    /\ UNCHANGED <<sk, symmetric, wire, drawn, history>>

MovePrivate(h, g) ==
    /\ h # g
    /\ Handle
    /\ SetPrivate([sk EXCEPT ![h] = sk[g], ![g] = Blank(0)])
    /\ Spoil(Pairs(sk[h]))
    /\ UNCHANGED <<pk, symmetric, wire, drawn>>

\* The implicit copies, and the constructors from a span of one of the sizes n
\* they take, over the first n bytes of another key.
CopyPublic(h, g, n) ==
    /\ n = pk[g].size \/ (n \in {32, 1184} /\ n <= pk[g].size)
    /\ Handle
    /\ pk' = [pk EXCEPT ![h] = Resized(pk[g], n)]
    /\ UNCHANGED <<sk, symmetric, wire, drawn, history>>

CopyPrivate(h, g, n) ==
    /\ n = sk[g].size \/ (n \in {32, 64, 2400} /\ n <= sk[g].size)
    /\ h # g
    /\ Handle
    /\ SetPrivate([sk EXCEPT ![h] = Resized(sk[g], n)])
    /\ Spoil(Pairs(sk[h]))
    /\ UNCHANGED <<pk, symmetric, wire, drawn>>

\* FromSkToPk over somebody's private key.
DerivePublic(h, g, a) ==
    /\ a \in {"crypto", "sign"}
    /\ sk[g].size >= SecretBytes[a]
    /\ Handle
    /\ pk' = [pk EXCEPT ![h] = FromSkToPk(a, sk[g])]
    /\ UNCHANGED <<sk, symmetric, wire, drawn, history>>

\* PublicKey::resize and PrivateKey::resize, which are public, and
\* resize_to_XWing_sizes and resize_to_MlKem768_sizes, which call both.
ResizeKeys(h, n, m) ==
    /\ n # pk[h].size \/ m # sk[h].size
    /\ Handle
    /\ pk' = [pk EXCEPT ![h] = Resized(@, n)]
    /\ SetPrivate([sk EXCEPT ![h] = Resized(@, m)])
    /\ Spoil(Pairs(sk[h]) \ Pairs(Resized(sk[h], m)))
    /\ UNCHANGED <<symmetric, wire, drawn>>

ResizePublic(h, n) == ResizeKeys(h, n, sk[h].size)
ResizePrivate(h, m) == ResizeKeys(h, pk[h].size, m)
ResizeToKem(h, a) == ResizeKeys(h, PublicBytes[a], SecretBytes[a])

\* Base::wipe: the size stays.
WipePublic(h) ==
    /\ pk[h].size > 0
    /\ Handle
    /\ pk' = [pk EXCEPT ![h] = Blank(@.size)]
    /\ UNCHANGED <<sk, symmetric, wire, drawn, history>>

WipePrivate(h) ==
    /\ sk[h].size > 0
    /\ Handle
    /\ SetPrivate([sk EXCEPT ![h] = Blank(@.size)])
    /\ Spoil(Pairs(sk[h]))
    /\ UNCHANGED <<pk, symmetric, wire, drawn>>

-----------------------------------------------------------------------------
(***************************************************************************)
(* What key pairs are used for.                                            *)
(***************************************************************************)

\* Box::encrypt by h to the key in g's hands.  Sizes are not looked at; a zero
\* public key makes libsodium fail.
BoxEncrypt(h, g) ==
    /\ sk[h].size >= 32 /\ pk[g].size >= 32
    /\ Resized(pk[g], 32) # Blank(32)
    /\ Send([kind |-> "box", from |-> Resized(sk[h], 32), to |-> Resized(pk[g], 32)])
    /\ UNCHANGED <<pk, sk, symmetric, drawn, history, handled>>

\* SealedBox::seal.
Seal(g) ==
    /\ pk[g].size >= 32
    /\ Resized(pk[g], 32) # Blank(32)
    /\ Send([kind |-> "seal", to |-> Resized(pk[g], 32)])
    /\ UNCHANGED <<pk, sk, symmetric, drawn, history, handled>>

\* sign.
Sign(h) ==
    /\ sk[h].size >= 64
    /\ Send([kind |-> "signature", by |-> Resized(sk[h], 64), signer |-> h])
    /\ UNCHANGED <<pk, sk, symmetric, drawn, history, handled>>

\* A holder's Key, and what it was made from.
SetKey(h, k, o) ==
    /\ key' = [key EXCEPT ![h] = k]
    /\ origin' = [origin EXCEPT ![h] = o]

\* encapsulate of a, to the key in g's hands, which must have a's size.
Encapsulate(h, g, a, d) ==
    /\ Draw(d)
    /\ pk[g].size = PublicBytes[a]
    /\ LET c == [kind |-> "capsule", alg |-> a, to |-> pk[g], draw |-> d]
       IN /\ Send(c)
          /\ SetKey(h, [size |-> SharedBytes, of |-> [secret |-> c]], [encapsulated |-> d])
    /\ UNCHANGED <<pk, sk, history, handled>>

XWingEncapsulate(h, g, d) == Encapsulate(h, g, "XWing", d)
MlKem768Encapsulate(h, g, d) == Encapsulate(h, g, "MlKem768", d)

\* decapsulate of a by h: both sizes must fit.  When the KEM fails, the call
\* throws and nothing changes.
Decapsulate(h, c, a, altered) ==
    /\ c \in wire /\ c.kind = "capsule"
    /\ CapsuleBytes[c.alg] = CapsuleBytes[a]
    /\ sk[h].size = SecretBytes[a]
    /\ SetKey(h, Decapsulated(c, a, altered, sk[h]),
              IF ~altered /\ PublicPair(c.to, a) \in Pairs(sk[h]) THEN [encapsulated |-> c.draw]
              ELSE [rejected |-> c, altered |-> altered, with |-> sk[h]])
    /\ UNCHANGED <<pk, sk, wire, drawn, history, handled>>

XWingDecapsulate(h, c, altered) == Decapsulate(h, c, "XWing", altered)
MlKem768Decapsulate(h, c, altered) == Decapsulate(h, c, "MlKem768", altered)

-----------------------------------------------------------------------------
(***************************************************************************)
(* Keys: derived, moved, wiped, and used in a box.                         *)
(***************************************************************************)

\* derive_subkey, into the place of the master key.
DeriveSubkey(h, i, n) ==
    /\ key[h].size = 32
    /\ 16 <= n /\ n <= 64
    /\ Handle
    /\ SetKey(h, [size |-> n, of |-> [master |-> key[h].of, id |-> i]],
              [subkey |-> origin[h], id |-> i, size |-> n])
    /\ UNCHANGED <<pk, sk, wire, drawn, history>>

\* Argon2ID::derive_key.
DeriveFromPassword(h, p, s, r, n) ==
    /\ n >= 32
    /\ s.size = SaltBytes
    /\ Handle
    /\ SetKey(h, [size |-> n, of |-> [password |-> p, salt |-> s, profile |-> r]],
              [stretched |-> p, salt |-> s, profile |-> r, size |-> n])
    /\ UNCHANGED <<pk, sk, wire, drawn, history>>

MoveKey(h, g) ==
    /\ h # g
    /\ Handle
    /\ key' = [key EXCEPT ![h] = key[g], ![g] = Blank(0)]
    /\ origin' = [origin EXCEPT ![h] = origin[g], ![g] = Nothing(0)]
    /\ UNCHANGED <<pk, sk, wire, drawn, history>>

WipeKey(h) ==
    /\ key[h].size > 0
    /\ Handle
    /\ SetKey(h, Blank(key[h].size), Nothing(key[h].size))
    /\ UNCHANGED <<pk, sk, wire, drawn, history>>

\* XChaCha20Box::encrypt, and XSalsa20Box::encrypt, which refuses AAD.
SealSecret(h, c, aad) ==
    /\ key[h].size = 32
    /\ Send([kind |-> "secretbox", cipher |-> c, key |-> key[h], aad |-> aad, origin |-> origin[h]])
    /\ UNCHANGED <<pk, sk, symmetric, drawn, history, handled>>

XChaCha20Encrypt(h, aad) == SealSecret(h, "XChaCha20Box", aad)
XSalsa20Encrypt(h) == SealSecret(h, "XSalsa20Box", "none")

-----------------------------------------------------------------------------
Handling(h) ==
    \/ WipePublic(h) \/ WipePrivate(h) \/ WipeKey(h)
    \/ \E n \in PublicSizes : ResizePublic(h, n)
    \/ \E n \in SecretSizes : ResizePrivate(h, n)
    \/ \E a \in Kems : ResizeToKem(h, a)
    \/ \E g \in Holders :
          \/ MovePublic(h, g) \/ MovePrivate(h, g) \/ MoveKey(h, g)
          \/ \E n \in PublicSizes : CopyPublic(h, g, n)
          \/ \E n \in SecretSizes : CopyPrivate(h, g, n)
          \/ \E a \in {"crypto", "sign"} : DerivePublic(h, g, a)

Using(h) ==
    \/ Seal(h) \/ Sign(h) \/ \E g \in Holders : BoxEncrypt(h, g)
    \/ \E d \in Draws :
          \/ CryptoKeypair(h, d) \/ SignKeypair(h, d) \/ XWingKeypair(h, d) \/ MlKem768Keypair(h, d)
          \/ \E g \in Holders : XWingEncapsulate(h, g, d) \/ MlKem768Encapsulate(h, g, d)
    \/ \E c \in wire, altered \in BOOLEAN :
          XWingDecapsulate(h, c, altered) \/ MlKem768Decapsulate(h, c, altered)
    \/ XSalsa20Encrypt(h) \/ \E aad \in AADs : XChaCha20Encrypt(h, aad)

Deriving(h) ==
    \E n \in KeySizes :
       \/ \E i \in {0, 1} : DeriveSubkey(h, i, n)
       \/ \E p \in Passwords, s \in Salts, r \in Profiles : DeriveFromPassword(h, p, s, r, n)

Next == \E h \in Holders : Handling(h) \/ Using(h) \/ Deriving(h)

Spec == Init /\ [][Next]_vars

-----------------------------------------------------------------------------
(***************************************************************************)
(* Properties                                                              *)
(***************************************************************************)

\* Buffers have one of the sizes of the four algorithms and no more key in them
\* than fits.
TypeOK ==
    /\ pk \in [Holders -> PublicBuffers]
    /\ sk \in [Holders -> SecretBuffers]
    /\ \A h \in Holders : pk[h].kept <= pk[h].size /\ sk[h].kept <= sk[h].size
    /\ \A h \in Holders : key[h].size \in KeySizes \cup {0, SharedBytes}
    /\ Cardinality(wire) <= MaxSent
    /\ drawn \subseteq Draws
    /\ held \in [Holders -> SUBSET drawn]
    /\ spoilt \subseteq drawn
    /\ handled \in 0..MaxHandled /\ Work <= MaxWork

\* A message opens for those who have had the private key of one of its ends,
\* and a secret box for those whose Key was made as the sealer's was; a
\* signature verifies under keys of its signer only.  That holds for keys
\* of any algorithm and size, whole or cut, that the functions of box.hpp, which
\* look at no size, and those of kem.hpp, which look at nothing else, will take.
OnlyAddressee ==
    \A m \in wire, h \in Holders :
        CASE m.kind = "seal" ->
                \/ PublicPair(m.to, "crypto") \in held[h] \cup {None}
                \/ ~SealOpensAlone(m, sk[h]) /\ \A g \in Holders : ~SealOpens(m, sk[h], pk[g])
          [] m.kind = "box" ->
                {SecretPair(m.from, 32), PublicPair(m.to, "crypto")} \cap (held[h] \cup {None}) = {} =>
                    \A g \in Holders : ~BoxOpens(m, pk[g], sk[h])
          [] m.kind = "signature" ->
                Verifies(m, pk[h]) => PublicPair(pk[h], "sign") \in held[m.signer]
          [] m.kind = "capsule" ->
                PublicPair(m.to, m.alg) \notin held[h] \cup {None} => ~Recovers(m, m.alg, FALSE, sk[h])
          [] m.kind = "secretbox" ->
                /\ XSalsa20Opens(m, key[h]) => origin[h] = m.origin
                /\ \A aad \in AADs :
                       XChaCha20Opens(m, key[h], aad) => origin[h] = m.origin /\ aad = m.aad

\* And it does open, through both forms of SealedBox::open, from both ends of a
\* box, under a public key as it was generated or as FromSkToPk derives it, as
\* long as no private key of the pair was wiped, cut or overwritten, wherever
\* it was moved or copied; a secret box as long as the Key is there.
AddresseeOpens ==
    \A m \in wire :
        CASE m.kind = "seal" ->
                PublicPair(m.to, "crypto") \notin spoilt \cup {None} =>
                    \E h \in Holders : SealOpensAlone(m, sk[h]) /\ SealOpens(m, sk[h], m.to)
          [] m.kind = "box" ->
                /\ PublicPair(m.to, "crypto") \notin spoilt \cup {None} =>
                       \E h \in Holders : BoxOpens(m, PublicOf("crypto", m.from), sk[h])
                /\ SecretPair(m.from, 32) \notin spoilt \cup {None} =>
                       \E h \in Holders : BoxOpens(m, m.to, sk[h])
          [] m.kind = "signature" ->
                \A d \in Pairs(m.by) : m.by.of.alg = "sign" =>
                    \A h \in Holders :
                        /\ PublicPair(pk[h], "sign") = d => Verifies(m, pk[h])
                        /\ d \in Pairs(sk[h]) => Verifies(m, FromSkToPk("sign", sk[h]))
          [] m.kind = "capsule" ->
                PublicPair(m.to, m.alg) \notin spoilt \cup {None} =>
                    \E h \in Holders : sk[h].size = SecretBytes[m.alg] /\ Recovers(m, m.alg, FALSE, sk[h])
          [] m.kind = "secretbox" ->
                \A h \in Holders : origin[h] = m.origin =>
                    XChaCha20Opens(m, key[h], m.aad) \/ XSalsa20Opens(m, key[h])
=============================================================================
