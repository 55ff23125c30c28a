------------------------------ MODULE NonceUse ------------------------------
(***************************************************************************)
(* Nonce<M> of types/nonce.hpp, the one function that consumes it,         *)
(* XChaCha20Poly1305::encrypt, and those that draw one of their own for    *)
(* each call (XChaCha20Box, XSalsa20Box, Box): which (key, nonce) pairs    *)
(* get sealed, and what the used flag has to do with it.                   *)
(*                                                                         *)
(* The content of a nonce is a base, drawn from the random generator or    *)
(* all zero, and how often it was incremented, modulo its width.  Bytes    *)
(* that a caller makes up are the zero base with some counter.             *)
(***************************************************************************)
EXTENDS Naturals

CONSTANTS
    Nonces,     \* names of Nonce objects
    Keys,       \* keys, whose size encrypt does not look at
    Draws,      \* values the random generator may return
    ZeroBase,   \* the content of a buffer of zero bytes
    LazyNonces, \* those with Generation::Lazy for M; the others have Eager
    NPUB,       \* crypto_aead_xchacha20poly1305_ietf_NPUBBYTES
    MaxSize,    \* bound: largest nonce made
    Width       \* number of values a nonce counts through (2^192 in the code)

ASSUME ModeAssumption == LazyNonces \subseteq Nonces
ASSUME BaseAssumption == ZeroBase \notin Draws
ASSUME SizeAssumption == /\ NPUB \in Nat /\ MaxSize \in Nat /\ 0 < NPUB /\ NPUB <= MaxSize
                         /\ Width \in Nat /\ 1 < Width

VARIABLES
    alive,      \* objects constructed
    size,       \* vec_.size()
    value,      \* the content of vec_
    used,       \* used_
    sealed,     \* (key, content) pairs that a ciphertext was produced under
    reused,     \* bases of pairs that a second ciphertext was produced under
    drawn,      \* bases given out: what the random generator has returned, and
                \* ZeroBase once an object had zero bytes (history)
    cause       \* what first took from the flag the guard over the increments
                \* of a base, "none" as long as nothing did (history)

vars == <<alive, size, value, used, sealed, reused, drawn, cause>>
objects == <<alive, size, value, used>>
history == <<sealed, reused, drawn, cause>>

Bases == Draws \cup {ZeroBase}
Causes == {"constructed", "wiped", "copied", "edited", "wrapped", "thrown"}
Values == [base : Bases, ctr : 0..(Width - 1)]
ZeroValue == [base |-> ZeroBase, ctr |-> 0]
Fresh(d) == [base |-> d, ctr |-> 0]

TypeOK ==
    /\ alive \subseteq Nonces
    /\ size \in [Nonces -> 0..MaxSize]
    /\ value \in [Nonces -> Values]
    /\ used \in [Nonces -> BOOLEAN]
    /\ sealed \subseteq Keys \X Values
    /\ reused \subseteq Bases
    /\ drawn \subseteq Bases
    /\ cause \in [Bases -> Causes \cup {"none"}]

Init ==
    /\ alive = {}
    /\ size = [o \in Nonces |-> 0]
    /\ value = [o \in Nonces |-> ZeroValue]
    /\ used = [o \in Nonces |-> FALSE]
    /\ sealed = {}
    /\ reused = {}
    /\ drawn = {}
    /\ cause = [b \in Bases |-> "none"]

Assign(o, n, v, u) ==
    /\ size' = [size EXCEPT ![o] = n]
    /\ value' = [value EXCEPT ![o] = v]
    /\ used' = [used EXCEPT ![o] = u]

Spoil(b, c) == cause' = [cause EXCEPT ![b] = IF @ = "none" THEN c ELSE @]

\* An object of n bytes, all zero.  Zero bytes are nobody else's only if no
\* object had any before.
Zero(o, n, u, c) ==
    /\ Assign(o, n, ZeroValue, u)
    /\ drawn' = IF n = 0 THEN drawn ELSE drawn \cup {ZeroBase}
    /\ IF n > 0 /\ ZeroBase \in drawn THEN Spoil(ZeroBase, c) ELSE UNCHANGED cause

-----------------------------------------------------------------------------
\* Nonce(): lazy, no memory yet.
ConstructLazy(o) ==
    /\ o \in LazyNonces
    /\ o \notin alive
    /\ alive' = alive \cup {o}
    /\ Assign(o, 0, ZeroValue, FALSE)
    /\ UNCHANGED history

\* Nonce(n): vector(n) leaves n zero bytes; nothing fills them.
ConstructEager(o, n) ==
    /\ o \notin LazyNonces
    /\ o \notin alive
    /\ alive' = alive \cup {o}
    /\ Zero(o, n, FALSE, "constructed")
    /\ UNCHANGED <<sealed, reused>>

\* Nonce(span): somebody else's nonce, one of those sent with a ciphertext.
ConstructFromSpan(o, v) ==
    /\ o \notin LazyNonces
    /\ o \notin alive
    /\ \E k \in Keys : <<k, v>> \in sealed
    /\ alive' = alive \cup {o}
    /\ Assign(o, NPUB, v, TRUE)
    /\ Spoil(v.base, "copied")
    /\ UNCHANGED <<sealed, reused, drawn>>

\* random_generate(n), available in both modes.
RandomGenerate(o, n, d) ==
    /\ o \in alive
    /\ d \notin drawn
    /\ Assign(o, n, IF n = 0 THEN ZeroValue ELSE Fresh(d), FALSE)
    /\ drawn' = IF n = 0 THEN drawn ELSE drawn \cup {d}
    /\ UNCHANGED <<alive, sealed, reused, cause>>

\* The resize in random_generate(n) cannot get its memory and throws: used_ has
\* been cleared already and the old content is still there, with nothing to guard it
\* if the flag was set.
RandomGenerateThrows(o, n) ==
    /\ o \in alive
    /\ size[o] < n
    /\ used' = [used EXCEPT ![o] = FALSE]
    /\ IF used[o] /\ size[o] > 0 THEN Spoil(value[o].base, "thrown") ELSE UNCHANGED cause
    /\ UNCHANGED <<alive, size, value, sealed, reused, drawn>>

\* random_generate(): refills what is there; a nonce of no bytes only has its
\* flag cleared (its content is ZeroValue before and after).
Refill(o, d) ==
    /\ o \notin LazyNonces
    /\ o \in alive
    /\ d \notin drawn
    /\ Assign(o, size[o], IF size[o] = 0 THEN ZeroValue ELSE Fresh(d), FALSE)
    /\ drawn' = IF size[o] = 0 THEN drawn ELSE drawn \cup {d}
    /\ UNCHANGED <<alive, sealed, reused, cause>>

\* Mutant: a counter that runs past its width.
IncrementNoWrap(o) ==
    /\ o \notin LazyNonces
    /\ o \in alive
    /\ size[o] > 0
    /\ value[o].ctr < Width
    /\ Assign(o, size[o], [value[o] EXCEPT !.ctr = @ + 1], FALSE)
    /\ UNCHANGED <<alive, history>>

\* increment(): sodium_increment wraps around.
Increment(o) ==
    /\ o \notin LazyNonces
    /\ o \in alive
    /\ size[o] > 0
    /\ Assign(o, size[o], [value[o] EXCEPT !.ctr = (@ + 1) % Width], FALSE)
    /\ IF value[o].ctr + 1 = Width THEN Spoil(value[o].base, "wrapped") ELSE UNCHANGED cause
    /\ UNCHANGED <<alive, sealed, reused, drawn>>

\* Base::wipe: the bytes are zeroed; size and used_ stay as they are.
Wipe(o) ==
    /\ o \in alive
    /\ size[o] > 0
    /\ Zero(o, size[o], used[o], "wiped")
    /\ UNCHANGED <<alive, sealed, reused>>

\* The caller changes the bytes by hand: push_back, pop_back, stores through
\* data(), span_data() or an iterator.  used_ does not notice.
HandEdit(o, n, v) ==
    /\ o \in alive
    /\ v.base \in drawn \cup {ZeroBase}
    /\ n = 0 => v = ZeroValue
    /\ Assign(o, n, v, used[o])
    /\ IF n = 0 THEN UNCHANGED <<drawn, cause>>
       ELSE drawn' = drawn \cup {v.base} /\ Spoil(v.base, "edited")
    /\ UNCHANGED <<alive, sealed, reused>>

\* Mutant: a move that leaves the flag of the destination alone.
MoveFromForgetsFlag(dst, src) ==
    /\ size' = [size EXCEPT ![dst] = size[src], ![src] = 0]
    /\ value' = [value EXCEPT ![dst] = value[src], ![src] = ZeroValue]
    /\ UNCHANGED used

\* Mutant: a move that copies the content.
MoveFromCopies(dst, src) ==
    /\ size' = [size EXCEPT ![dst] = size[src]]
    /\ value' = [value EXCEPT ![dst] = value[src]]
    /\ used' = [used EXCEPT ![dst] = used[src]]

\* The implicit move: the vector moves, the flag is copied.
MoveFrom(dst, src) ==
    /\ size' = [size EXCEPT ![dst] = size[src], ![src] = 0]
    /\ value' = [value EXCEPT ![dst] = value[src], ![src] = ZeroValue]
    /\ used' = [used EXCEPT ![dst] = used[src]]

Move(dst, src) ==
    /\ dst # src
    /\ dst \in LazyNonces <=> src \in LazyNonces
    /\ src \in alive
    /\ alive' = alive \cup {dst}
    /\ MoveFrom(dst, src)
    /\ UNCHANGED history

Destroy(o) ==
    /\ o \in alive
    /\ alive' = alive \ {o}
    /\ Assign(o, 0, ZeroValue, FALSE)
    /\ UNCHANGED history

-----------------------------------------------------------------------------
\* Producing a ciphertext under k and v.
Seal(k, v) ==
    /\ sealed' = sealed \cup {<<k, v>>}
    /\ reused' = IF <<k, v>> \in sealed THEN reused \cup {v.base} ELSE reused

\* encrypt fills an empty lazy nonce before it uses it.
NeedsFill(o) == o \in LazyNonces /\ size[o] = 0

\* Mutant: encrypt that does not look at used().
EncryptUnchecked(o, k) ==
    /\ o \in alive
    /\ ~NeedsFill(o)
    /\ size[o] = NPUB
    /\ Seal(k, value[o])
    /\ used' = [used EXCEPT ![o] = TRUE]
    /\ UNCHANGED <<alive, size, value, drawn, cause>>

\* encrypt with a nonce that has content: refused when used or of a wrong
\* size; the key's size is not looked at.  A throw before the ciphertext
\* exists changes nothing.
Encrypt(o, k) ==
    /\ o \in alive
    /\ ~used[o]
    /\ ~NeedsFill(o)
    /\ size[o] = NPUB
    /\ Seal(k, value[o])
    /\ used' = [used EXCEPT ![o] = TRUE]
    /\ UNCHANGED <<alive, size, value, drawn, cause>>

\* encrypt with an empty lazy nonce.
EncryptFilling(o, k, d) ==
    /\ o \in alive
    /\ ~used[o]
    /\ NeedsFill(o)
    /\ d \notin drawn
    /\ Seal(k, Fresh(d))
    /\ Assign(o, NPUB, Fresh(d), TRUE)
    /\ drawn' = drawn \cup {d}
    /\ UNCHANGED <<alive, cause>>

\* The same, when the ciphertext's memory cannot be had: the nonce is filled
\* and not used.
EncryptFillingThrows(o, d) ==
    /\ o \in alive
    /\ ~used[o]
    /\ NeedsFill(o)
    /\ d \notin drawn
    /\ Assign(o, NPUB, Fresh(d), FALSE)
    /\ drawn' = drawn \cup {d}
    /\ UNCHANGED <<alive, sealed, reused, cause>>

\* encrypt of XChaCha20Box, XSalsa20Box and Box: a local nonce, filled here and
\* sent along with the ciphertext.
BoxEncrypt(k, d) ==
    /\ d \notin drawn
    /\ Seal(k, Fresh(d))
    /\ drawn' = drawn \cup {d}
    /\ UNCHANGED <<objects, cause>>

\* The same, when the ciphertext's memory cannot be had.
BoxEncryptThrows(d) ==
    /\ d \notin drawn
    /\ drawn' = drawn \cup {d}
    /\ UNCHANGED <<objects, sealed, reused, cause>>

Next ==
    \/ \E o \in Nonces :
          \/ ConstructLazy(o) \/ Increment(o) \/ Wipe(o) \/ Destroy(o)
          \/ \E n \in 0..MaxSize : ConstructEager(o, n) \/ RandomGenerateThrows(o, n)
          \/ \E v \in Values : ConstructFromSpan(o, v) \/ \E n \in 0..MaxSize : HandEdit(o, n, v)
          \/ \E n \in 0..MaxSize, d \in Draws : RandomGenerate(o, n, d)
          \/ \E d \in Draws : Refill(o, d) \/ EncryptFillingThrows(o, d)
          \/ \E k \in Keys : Encrypt(o, k) \/ \E d \in Draws : EncryptFilling(o, k, d)
    \/ \E o, p \in Nonces : Move(o, p)
    \/ \E d \in Draws : BoxEncryptThrows(d) \/ \E k \in Keys : BoxEncrypt(k, d)

Spec == Init /\ [][Next]_vars

-----------------------------------------------------------------------------
(***************************************************************************)
(* Properties                                                              *)
(***************************************************************************)

Spoiled == {b \in Bases : cause[b] # "none"}

\* Objects with bytes in them.
Filled == {o \in alive : size[o] > 0}

\* No nonce is used twice, under whatever keys its object is passed, unless one
\* of six things has happened to what it counts from: Nonce(n), or wipe, gave
\* out zero bytes a second time; an object was made from a span of it; somebody
\* edited it by hand; its counter came round; or random_generate(n) threw on an
\* object that had been used.
ReuseExplained == \A b \in reused : cause[b] \in Causes

\* An object that encrypt would accept carries a nonce no ciphertext was ever
\* produced under: the flag tells the truth through moves, draws and counting.
UnusedMeansUnsealed ==
    \A o \in Filled : ~used[o] /\ value[o].base \notin Spoiled =>
        \A k \in Keys : <<k, value[o]>> \notin sealed

\* No two objects carry increments of one draw, or of zero bytes, so counting
\* in one of them never meets the other.
BasesNotShared ==
    \A o, p \in Filled : o # p /\ value[o].base = value[p].base => value[o].base \in Spoiled

-----------------------------------------------------------------------------
(***************************************************************************)
(* What a comment of the code says, and the code does not do.              *)
(***************************************************************************)

\* nonce.hpp:141, Nonce(n) "fills them with cryptographically random data", and
\* "the nonce is ready to use": no second ciphertext is produced under a nonce
\* because two objects came from that constructor.
ReadyUponConstruction == \A b \in reused : cause[b] # "constructed"
=============================================================================
