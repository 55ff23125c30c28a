------------------------------- MODULE Natron -------------------------------
(***************************************************************************)
(* symmetric/natron.hpp: tokens with a time stamp and a lifetime, Natron   *)
(* (one key) and NatronMultiKey (a list of references to Key objects that  *)
(* the program goes on using), the clock both read, and what happens to a  *)
(* token between the one who made it and the one who opens it.             *)
(*                                                                         *)
(* Seconds are std::uint64_t, of which there are Width; a lifetime is a    *)
(* signed std::chrono::seconds.                                            *)
(***************************************************************************)
EXTENDS Integers, Sequences, FiniteSets

CONSTANTS
    Keys,       \* Key objects, of 32 bytes unless moved from
    Secrets,    \* values random_generate may leave in one
    ZeroKey,    \* the value of a fresh or a wiped one
    Gone,       \* a Key that was moved from: size 0, data() null
    MultiKeys,  \* NatronMultiKey objects
    Texts,      \* plaintexts
    Width,      \* number of values of std::uint64_t
    Skew,       \* CLOCK_SKEW_TOLERANCE_SECS
    MaxTime,    \* bound: last second of the clock
    Ttls,       \* lifetimes asked for
    NoTtl,      \* std::nullopt
    MaxTokens   \* bound: tokens in circulation

ASSUME TimeAssumption ==
    /\ Width \in Nat /\ Skew \in Nat /\ MaxTime \in Nat /\ MaxTime + Skew < Width
    /\ Ttls \subseteq -Width..(Width - 1) /\ NoTtl \notin Int
ASSUME KeyAssumption == ZeroKey \notin Secrets /\ Gone \notin Secrets /\ ZeroKey # Gone
ASSUME TokenAssumption == MaxTokens \in Nat

VARIABLES
    now,        \* the system clock, which may be set back
    content,    \* of each Key object
    lists,      \* keys_ of each NatronMultiKey, empty: not constructed
    tokens      \* tokens somebody may present

vars == <<now, content, lists, tokens>>

Times == 0..MaxTime
Words == 0..(Width - 1)
Values == Secrets \cup {ZeroKey}

\* What a token's bytes are after the trip: as encode wrote them; not Base64 in
\* the standard alphabet; decoding to fewer than 49 bytes; with another
\* version; with another time stamp and nothing else; with another nonce, MAC
\* or ciphertext.
Forms == {"original", "notBase64", "short", "version", "restamped", "forged"}
Tokens == [key : Values, text : Texts, ts : Words, form : Forms]

TypeOK ==
    /\ now \in Times
    /\ content \in [Keys -> Values \cup {Gone}]
    /\ lists \in [MultiKeys -> Seq(Keys)]
    /\ tokens \subseteq Tokens

Init ==
    /\ now \in Times
    /\ content = [k \in Keys |-> ZeroKey]
    /\ lists = [m \in MultiKeys |-> <<>>]
    /\ tokens = {}

Word(n) == n % Width

-----------------------------------------------------------------------------
(***************************************************************************)
(* Opening a token, which changes nothing.                                 *)
(***************************************************************************)

\* validate_key_.
Sized(c) == c # Gone

\* Base64::decode, with the variant encode uses.
Decodes(t) == t.form # "notBase64"

\* decrypt_raw of decoded bytes with a key of content c.
OpenRaw(t, c) ==
    IF t.form \in {"short", "version"} THEN "LogicError"
    ELSE IF ~Sized(c) THEN "undefined"
    ELSE IF t.form = "forged" \/ t.key # c THEN "InvalidSignature"
    ELSE "text"

\* Mutant: the age without its comparison wraps for a stamp in the future.
AgeWraps(ts, time) == Word(time - ts)

Age(ts, time) == IF time >= ts THEN time - ts ELSE 0

TooOld(ts, time, ttl) == Age(ts, time) > Word(ttl)
FromFuture(ts, time) == ts > Word(time + Skew)

\* The checks a lifetime asks for, in Natron::decrypt.
Lifetime(t, ttl) ==
    IF ttl = NoTtl THEN "text"
    ELSE IF FromFuture(t.ts, now) THEN "LogicError"
    ELSE IF TooOld(t.ts, now, ttl) THEN "Expired"
    ELSE "text"

\* Mutant: the lifetime is looked at before the MAC.
DecryptStampFirst(t, c, ttl) ==
    IF ~Sized(c) THEN "LogicError"
    ELSE IF ~Decodes(t) THEN "DecodificationError"
    ELSE IF Lifetime(t, ttl) # "text" THEN Lifetime(t, ttl)
    ELSE OpenRaw(t, c)

\* Natron::decrypt.
Decrypt(t, c, ttl) ==
    IF ~Sized(c) THEN "LogicError"
    ELSE IF ~Decodes(t) THEN "DecodificationError"
    ELSE IF OpenRaw(t, c) # "text" THEN OpenRaw(t, c)
    ELSE Lifetime(t, ttl)

\* Mutant: only the active key is tried.
MatchingActiveOnly(t, list) ==
    {i \in DOMAIN list : i = 1 /\ OpenRaw(t, content[list[i]]) # "InvalidSignature"}

\* NatronMultiKey::decrypt: the keys in order until one does not say
\* InvalidSignature; what that one says goes.  No size and no future check.
Matching(t, list) == {i \in DOMAIN list : OpenRaw(t, content[list[i]]) # "InvalidSignature"}

MultiDecrypt(t, list, ttl) ==
    IF ~Decodes(t) THEN "DecodificationError"
    ELSE IF Matching(t, list) = {} THEN "InvalidSignature"
    ELSE LET first == CHOOSE i \in Matching(t, list) : \A j \in Matching(t, list) : i <= j
             said == OpenRaw(t, content[list[first]])
         IN  IF said = "text" /\ ttl # NoTtl /\ TooOld(t.ts, now, ttl) THEN "Expired" ELSE said

-----------------------------------------------------------------------------
(***************************************************************************)
(* The clock and the Key objects.                                          *)
(***************************************************************************)
SetClock(time) ==
    /\ now' = time
    /\ UNCHANGED <<content, lists, tokens>>

\* Key::random_generate: a value that is nowhere else.
Generate(k, s) ==
    /\ content[k] # Gone
    /\ \A j \in Keys : content[j] # s
    /\ \A t \in tokens : t.key # s
    /\ content' = [content EXCEPT ![k] = s]
    /\ UNCHANGED <<now, lists, tokens>>

Wipe(k) ==
    /\ content[k] # Gone
    /\ content' = [content EXCEPT ![k] = ZeroKey]
    /\ UNCHANGED <<now, lists, tokens>>

\* Move assignment; the move's destination may be referred to as well.
MoveKey(dst, src) ==
    /\ dst # src
    /\ content' = [content EXCEPT ![dst] = content[src], ![src] = Gone]
    /\ UNCHANGED <<now, lists, tokens>>

-----------------------------------------------------------------------------
(***************************************************************************)
(* Making tokens.                                                          *)
(***************************************************************************)
Circulate(t) ==
    /\ Cardinality(tokens \cup {t}) <= MaxTokens
    /\ tokens' = tokens \cup {t}
    /\ UNCHANGED <<now, content, lists>>

Made(c, x) == [key |-> c, text |-> x, ts |-> now, form |-> "original"]

\* Mutant: encrypt without validate_key_.
EncryptUnsized(k, x) == Circulate(Made(content[k], x))

\* Natron::encrypt.
Encrypt(k, x) ==
    /\ Sized(content[k])
    /\ Circulate(Made(content[k], x))

\* NatronMultiKey(keys): a list that is not empty, of keys of the right size.
Construct(m, list) ==
    /\ list # <<>>
    /\ \A i \in DOMAIN list : Sized(content[list[i]])
    /\ lists' = [lists EXCEPT ![m] = list]
    /\ UNCHANGED <<now, content, tokens>>

Active(m) == content[lists[m][1]]

\* NatronMultiKey::encrypt, through Natron::encrypt, which looks at the size.
MultiEncrypt(m, x) ==
    /\ lists[m] # <<>>
    /\ Sized(Active(m))
    /\ Circulate(Made(Active(m), x))

\* Mutant: the old token's stamp is kept.
RotateKeepsStamp(m, t, ttl) ==
    /\ lists[m] # <<>>
    /\ MultiDecrypt(t, lists[m], ttl) = "text"
    /\ Sized(Active(m))
    /\ Circulate([Made(Active(m), t.text) EXCEPT !.ts = t.ts])

\* NatronMultiKey::rotate: decrypt, then encrypt with the active key and the
\* present second.
Rotate(m, t, ttl) ==
    /\ lists[m] # <<>>
    /\ MultiDecrypt(t, lists[m], ttl) = "text"
    /\ Sized(Active(m))
    /\ Circulate(Made(Active(m), t.text))

\* On the way any byte may change.
Restamp(t, ts) ==
    /\ t.form = "original" /\ ts # t.ts
    /\ Circulate([t EXCEPT !.ts = ts, !.form = "restamped"])
Spoil(t, form) ==
    /\ t.form = "original" /\ form # "restamped"
    /\ Circulate([t EXCEPT !.form = form])

Lists == UNION {[1..n -> Keys] : n \in 1..Cardinality(Keys)}

Next ==
    \/ \E time \in Times : SetClock(time)
    \/ \E k \in Keys : Wipe(k)
                       \/ \E s \in Secrets : Generate(k, s)
                       \/ \E x \in Texts : Encrypt(k, x)
    \/ \E j, k \in Keys : MoveKey(j, k)
    \/ \E m \in MultiKeys :
          \/ \E list \in Lists : Construct(m, list)
          \/ \E x \in Texts : MultiEncrypt(m, x)
          \/ \E t \in tokens, ttl \in Ttls \cup {NoTtl} : Rotate(m, t, ttl)
    \/ \E t \in tokens : \/ \E ts \in Words : Restamp(t, ts)
                         \/ \E form \in Forms : Spoil(t, form)

Spec == Init /\ [][Next]_vars

-----------------------------------------------------------------------------
(***************************************************************************)
(* Properties                                                              *)
(***************************************************************************)

\* Natron::decrypt with a lifetime opens an authentic token exactly when its
\* stamp is at most so many seconds old and at most Skew seconds ahead,
\* computed in whole numbers.
LifetimeExact ==
    \A t \in tokens, k \in Keys : \A ttl \in Ttls : ttl >= 0 /\ Decrypt(t, content[k], NoTtl) = "text" =>
        (Decrypt(t, content[k], ttl) = "text" <=> now - t.ts <= ttl /\ t.ts - now <= Skew)

\* Tokens whose nonce, MAC and ciphertext are as encode wrote them: all the MAC
\* speaks for.
Intact(t) == t.form \in {"original", "restamped"}

\* A token is called expired only after its MAC has been verified with a key at
\* hand, in a list also that of the key that verified it: of one with another
\* nonce, MAC or ciphertext, or made with a key that is not there, nothing is
\* said about time.  The stamp is not among what was verified; when nobody has
\* changed it, the token is indeed older than the lifetime.
ExpiredOnlyAfterMac ==
    \A t \in tokens, ttl \in Ttls :
        LET old == t.form = "original" /\ ttl >= 0 => now - t.ts > ttl
        IN  /\ \A k \in Keys : Decrypt(t, content[k], ttl) = "Expired" =>
                                   Intact(t) /\ t.key = content[k] /\ old
            /\ \A m \in MultiKeys : MultiDecrypt(t, lists[m], ttl) = "Expired" =>
                                   /\ Intact(t) /\ old
                                   /\ \E i \in DOMAIN lists[m] : t.key = content[lists[m][i]]

\* Whatever the order of the list, a token made with any of its keys opens:
\* the keys before the right one do not get in its way.
EveryKeyOpens ==
    \A t \in tokens, m \in MultiKeys :
        /\ Intact(t)
        /\ \A i \in DOMAIN lists[m] : Sized(content[lists[m][i]])
        /\ \E i \in DOMAIN lists[m] : content[lists[m][i]] = t.key
        => MultiDecrypt(t, lists[m], NoTtl) = "text"

\* Rotation renews: the token rotate returns opens under the active key alone,
\* for any lifetime, and the retired keys are not needed for it any more.
RotationRenews ==
    [][\A m \in MultiKeys, t \in tokens, ttl \in Ttls \cup {NoTtl} :
          Rotate(m, t, ttl) => \E u \in tokens' : u.text = t.text
              /\ \A later \in Ttls : later >= 0 => Decrypt(u, Active(m), later) = "text"]_vars

-----------------------------------------------------------------------------
(***************************************************************************)
(* What a comment of the code says, and the code does not do.              *)
(***************************************************************************)

\* natron.hpp:25, the MAC "authenticates nonce + timestamp + version": a token
\* that opens, whether a lifetime is asked for or not, carries the stamp it was
\* made with.
StampAuthenticated ==
    \A t \in tokens, k \in Keys, ttl \in Ttls \cup {NoTtl} :
        Decrypt(t, content[k], ttl) = "text" => t.form # "restamped"

\* natron.hpp:390, a token "older than the specified TTL" is refused.
TtlRespected ==
    \A t \in tokens, k \in Keys, ttl \in Ttls :
        Decrypt(t, content[k], ttl) = "text" => now - t.ts <= ttl
=============================================================================
