----------------------------- MODULE HashStream -----------------------------
(***************************************************************************)
(* hash/hash.hpp and hash/hmac.hpp: the incremental Stream classes next to *)
(* the one-shot digest, mac and verify of the same namespace.              *)
(*                                                                         *)
(* libsodium's hash state is the parameters and the bytes so far; the      *)
(* final call pads it, after which it is good for nothing.  A digest is    *)
(* the namespace, the parameters and the bytes it stands for, so that two  *)
(* are equal only when these are; but HMAC does not see the key it is      *)
(* given, only its block: a short key filled up with zeroes, a long one    *)
(* hashed first.  Sizes are the library's own.                             *)
(***************************************************************************)
EXTENDS Naturals, Sequences

CONSTANTS
    Streams,    \* names of Stream objects
    Bytes,      \* byte values fed to them
    KeyIds,     \* keys of one length are told apart by these
    KeyLens,    \* lengths of keys the program passes, 0 for none
    OutLens,    \* digest lengths the program asks for, and sizes of tags
    MaxLen      \* bound: most bytes fed to a Stream

ASSUME BoundAssumption == MaxLen \in Nat
ASSUME LengthAssumption == KeyLens \subseteq Nat /\ OutLens \subseteq Nat

VARIABLES
    class,      \* the namespace the objects are from, which never changes
    state,      \* state_, with out_len_ in a Blake2b::Stream
    finalized,  \* finalized_
    given,      \* the key and length the object was constructed with (history)
    log,        \* the bytes it has taken, before and since moves (history)
    result      \* what its finalize returned (history)

vars == <<class, state, finalized, given, log, result>>

-----------------------------------------------------------------------------
\* What each namespace accepts: output lengths, key lengths of the one-shot
\* functions, and key lengths of the Stream.  crypto_generichash_init has no
\* smallest key length, and the HMAC Streams take any key, hashes too.
Blake2b == [name |-> "Blake2b", lens |-> 16..64,
            keys |-> {0} \cup 16..64, streamKeys |-> 0..64]

Unkeyed(name, bytes) == [name |-> name, lens |-> {bytes}, keys |-> {0}, streamKeys |-> {0}]
Sha256 == Unkeyed("Sha256", 32)
Sha512 == Unkeyed("Sha512", 64)
Sha3_256 == Unkeyed("Sha3_256", 32)
Sha3_512 == Unkeyed("Sha3_512", 64)

Hmac(name, bytes, block) ==
    [name |-> name, lens |-> {bytes}, keys |-> {32}, streamKeys |-> KeyLens \cup {32, 64},
     size |-> bytes, block |-> block]
HmacSha256 == Hmac("HmacSha256", 32, 64)
HmacSha512 == Hmac("HmacSha512", 64, 128)

Hmacs == {HmacSha256, HmacSha512}
Classes == {Blake2b, Sha256, Sha512, Sha3_256, Sha3_512} \cup Hmacs

\* A key of len bytes: the first core of them from a seed, the last of these
\* not zero, and zeroes behind.  Seeds are what the program drew and the hashes
\* of keys longer than a block, which it may pass as keys too.
Drawn ==
    {k \in [seed : {<<>>} \cup {<<id>> : id \in KeyIds}, core : {0} \cup KeyLens, len : KeyLens] :
        k.core <= k.len /\ (k.core = 0 <=> k.seed = <<>>)}
HashOf(c, key) == [seed |-> <<c.name, key>>, core |-> c.size, len |-> c.size]
Keys == Drawn \cup UNION {{HashOf(c, key) : key \in {k \in Drawn : k.len > c.block}} : c \in Hmacs}

\* What the function computes from: HMAC's block, and elsewhere the key.
Effective(c, key) ==
    IF c \notin Hmacs THEN key
    ELSE [(IF key.len > c.block THEN HashOf(c, key) ELSE key) EXCEPT !.len = c.block]

Params == [key : Keys, len : OutLens]
Texts == UNION {[1..n -> Bytes] : n \in 0..MaxLen}
DigestOf(c, p, text) ==
    [name |-> c.name, key |-> Effective(c, p.key), len |-> p.len, text |-> text]
Digest(p, text) == DigestOf(class, p, text)

\* digest and mac, which throw SodiumLogicError for sizes they do not take.
Refusal == [throws |-> "SodiumLogicError"]
OneShot(p, text) ==
    IF p.len \in class.lens /\ p.key.len \in class.keys THEN Digest(p, text) ELSE Refusal

\* A tag is what somebody presents: a digest, cut to its first bytes when
\* size is less than the digest's and followed by others when it is more.
Tag(digest, size) == [of |-> digest, size |-> size]
Compare(tag, text, key) == tag.of = Digest([key |-> key, len |-> class.size], text)

\* Mutant: a tag may be longer than it needs to be; its first bytes decide.
VerifyLonger(tag, text, key) ==
    IF tag.size < class.size THEN "false"
    ELSE IF key.len \notin class.keys THEN "SodiumLogicError"
    ELSE IF Compare(tag, text, key) THEN "true" ELSE "false"

\* verify: the tag's size is looked at before the key's.
Verify(tag, text, key) ==
    IF tag.size # class.size THEN "false"
    ELSE IF key.len \notin class.keys THEN "SodiumLogicError"
    ELSE IF Compare(tag, text, key) THEN "true" ELSE "false"

-----------------------------------------------------------------------------
Accepted == {p \in Params : p.len \in class.lens /\ p.key.len \in class.streamKeys}
Dead == [phase |-> "dead"]
Open(p, text) == [phase |-> "open", params |-> p, text |-> text]
Padded == [phase |-> "padded"]

TypeOK ==
    /\ class \in Classes
    /\ \A s \in Streams :
          /\ state[s].phase \in {"dead", "open", "padded"}
          /\ state[s].phase = "open" => state[s].params \in Accepted /\ state[s].text \in Texts
    /\ finalized \in [Streams -> BOOLEAN]
    /\ given \in [Streams -> Accepted \cup {Dead}]
    /\ log \in [Streams -> Texts]
    /\ \A s \in Streams : result[s] # Dead =>
          /\ result[s].name = class.name
          /\ \E key \in Keys : result[s].key = Effective(class, key)
          /\ result[s].len \in class.lens
          /\ result[s].text \in Texts

Init ==
    /\ class \in Classes
    /\ state = [s \in Streams |-> Dead]
    /\ finalized = [s \in Streams |-> FALSE]
    /\ given = [s \in Streams |-> Dead]
    /\ log = [s \in Streams |-> <<>>]
    /\ result = [s \in Streams |-> Dead]

\* Mutant: a constructor that leaves the sizes to libsodium.
ConstructUnchecked(s, p) ==
    /\ state[s] = Dead
    /\ state' = [state EXCEPT ![s] = Open(p, <<>>)]
    /\ finalized' = [finalized EXCEPT ![s] = FALSE]
    /\ given' = [given EXCEPT ![s] = p]
    /\ log' = [log EXCEPT ![s] = <<>>]
    /\ result' = [result EXCEPT ![s] = Dead]
    /\ UNCHANGED class

\* The constructors; one that throws leaves no object behind.
Construct(s, p) ==
    /\ state[s] = Dead
    /\ p \in Accepted
    /\ state' = [state EXCEPT ![s] = Open(p, <<>>)]
    /\ finalized' = [finalized EXCEPT ![s] = FALSE]
    /\ given' = [given EXCEPT ![s] = p]
    /\ log' = [log EXCEPT ![s] = <<>>]
    /\ result' = [result EXCEPT ![s] = Dead]
    /\ UNCHANGED class

\* What libsodium's update and final calls make of a state: of one that is
\* padded already, nothing that means anything.
Nonsense == [phase |-> "nonsense"]
Final(st) == IF st.phase = "open" THEN Digest(st.params, st.text) ELSE Nonsense
Absorb(st, chunk) == IF st.phase = "open" THEN Open(st.params, st.text \o chunk) ELSE st

Update(s, chunk) ==
    /\ state[s] # Dead
    /\ ~finalized[s]
    /\ Len(log[s]) + Len(chunk) <= MaxLen
    /\ state' = [state EXCEPT ![s] = Absorb(@, chunk)]
    /\ log' = [log EXCEPT ![s] = @ \o chunk]
    /\ UNCHANGED <<class, finalized, given, result>>

\* Mutant: the flag is set before the digest's memory is allocated.
FinalizeFlagFirst(s) ==
    /\ state[s] # Dead
    /\ ~finalized[s]
    /\ finalized' = [finalized EXCEPT ![s] = TRUE]
    /\ \/ /\ state' = [state EXCEPT ![s] = Padded]
          /\ result' = [result EXCEPT ![s] = Final(state[s])]
       \/ UNCHANGED <<state, result>>
    /\ UNCHANGED <<class, given, log>>

\* finalize: memory for the digest first, where it may throw with nothing
\* changed, then the final call, then the flag.
Finalize(s) ==
    /\ state[s] # Dead
    /\ ~finalized[s]
    /\ \/ /\ state' = [state EXCEPT ![s] = Padded]
          /\ result' = [result EXCEPT ![s] = Final(state[s])]
          /\ finalized' = [finalized EXCEPT ![s] = TRUE]
       \/ UNCHANGED <<state, result, finalized>>
    /\ UNCHANGED <<class, given, log>>

\* Mutant: a move assignment that keeps the destination's flag.
MoveKeepsFlag(dst, src) ==
    /\ dst # src
    /\ state[src] # Dead
    /\ state' = [state EXCEPT ![dst] = state[src]]
    /\ given' = [given EXCEPT ![dst] = given[src]]
    /\ log' = [log EXCEPT ![dst] = log[src]]
    /\ result' = [result EXCEPT ![dst] = result[src]]
    /\ UNCHANGED <<class, finalized>>

\* The implicit moves copy both members and leave the source as it was: from
\* here on there are two hashes that began alike.
Move(dst, src) ==
    /\ dst # src
    /\ state[src] # Dead
    /\ state' = [state EXCEPT ![dst] = state[src]]
    /\ finalized' = [finalized EXCEPT ![dst] = finalized[src]]
    /\ given' = [given EXCEPT ![dst] = given[src]]
    /\ log' = [log EXCEPT ![dst] = log[src]]
    /\ result' = [result EXCEPT ![dst] = result[src]]
    /\ UNCHANGED class

Destroy(s) ==
    /\ state[s] # Dead
    /\ state' = [state EXCEPT ![s] = Dead]
    /\ finalized' = [finalized EXCEPT ![s] = FALSE]
    /\ given' = [given EXCEPT ![s] = Dead]
    /\ log' = [log EXCEPT ![s] = <<>>]
    /\ result' = [result EXCEPT ![s] = Dead]
    /\ UNCHANGED class

Next ==
    \/ \E s \in Streams, p \in Params : Construct(s, p)
    \/ \E s \in Streams, chunk \in Texts : Update(s, chunk)
    \/ \E s \in Streams : Finalize(s) \/ Destroy(s)
    \/ \E dst, src \in Streams : Move(dst, src)

Spec == Init /\ [][Next]_vars

-----------------------------------------------------------------------------
(***************************************************************************)
(* Properties                                                              *)
(***************************************************************************)

\* However the bytes were cut into chunks, whatever was moved in between and
\* whichever finalize ran out of memory: what a Stream returns is what the
\* one-shot function returns for all of them, if it accepts the parameters.
AgreesWithOneShot ==
    \A s \in Streams :
        result[s] # Dead => OneShot(given[s], log[s]) \in {result[s], Refusal}

\* A Stream that says it is finalized has handed out its digest, and one that
\* does not can still be made to: is_finalized() is exact in both directions.
FinalizedMeansReturned ==
    \A s \in Streams : state[s] # Dead => (finalized[s] <=> result[s] # Dead)

\* The keys of 32 bytes that verify cannot tell from the one a Stream was
\* given: the same bytes with more or fewer zeroes behind them, or their hash.
Twin(key, original) ==
    /\ key.len = 32
    /\ IF original.len <= class.block
       THEN key.seed = original.seed /\ key.core = original.core
       ELSE key = HashOf(class, original)

\* What the other namespaces make of the same text under the same key.
Foreign(s) ==
    UNION {{DigestOf(c, [key |-> given[s].key, len |-> n], log[s]) : n \in c.lens \cap OutLens} :
        c \in Classes \ {class}}

\* verify accepts what an HMAC Stream returned, whole and with nothing behind
\* it, for its own text and under its own key or a twin of it, and nothing
\* else: no other text or key, no shortened or extended tag, and nothing that
\* another namespace made of the same input, cut to size or not.
VerifyExact ==
    class \in Hmacs =>
        \A s \in Streams : result[s] # Dead =>
            \A d \in {result[s]} \cup Foreign(s), size \in OutLens, text \in Texts, key \in Keys :
                Verify(Tag(d, size), text, key) = "true" <=>
                    /\ d = result[s]
                    /\ size = class.size
                    /\ text = log[s]
                    /\ Twin(key, given[s].key)
=============================================================================
