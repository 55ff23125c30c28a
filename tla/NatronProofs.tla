---------------------------- MODULE NatronProofs ----------------------------
(***************************************************************************)
(* Theorems about Natron for any number of keys, tokens and seconds.       *)
(*                                                                         *)
(* The types are inductive as they stand.  What the rest comes down to is  *)
(* that no sum of two numbers of seconds wraps, and that a list in which   *)
(* some key matches has a first one that does.                             *)
(***************************************************************************)
EXTENDS Natron, WellFoundedInduction, TLAPS

\* A number of seconds that fits in a word is not changed by it.
LEMMA WordId == ASSUME NEW n \in 0..(Width - 1) PROVE Word(n) = n
BY TimeAssumption DEF Word

\* Of positions in a list there is a first one.
LEMMA FirstPosition ==
  ASSUME NEW n \in Nat, NEW S \in SUBSET (1..n), S # {}
  PROVE  \E i \in S : \A j \in S : i <= j
<1> DEFINE R == OpToRel(<, Nat)
<1>1. S \subseteq Nat
  OBVIOUS
<1>2. IsWellFoundedOn(R, Nat)
  BY NatLessThanWellFounded
<1>3. \A j, i \in Nat : j < i => <<j, i>> \in R
  BY DEF OpToRel
<1> HIDE DEF R
<1>4. PICK i \in S : \A j \in S : ~ (<<j, i>> \in R)
  BY <1>1, <1>2, WFMin
<1>5. \A j \in S : ~ (j < i)
  BY <1>1, <1>3, <1>4
<1> QED BY <1>1, <1>5

-----------------------------------------------------------------------------
(***************************************************************************)
(* Types.                                                                  *)
(***************************************************************************)
LEMMA TypeInit == Init => TypeOK
BY DEF Init, TypeOK, Values

LEMMA MadeType ==
  ASSUME TypeOK, NEW k \in Keys, Sized(content[k]), NEW x \in Texts
  PROVE  Made(content[k], x) \in Tokens
<1>1. content[k] \in Values
  BY DEF TypeOK, Sized
<1>2. now \in Words
  BY TimeAssumption DEF TypeOK, Times, Words
<1> QED BY <1>1, <1>2 DEF Made, Tokens, Forms

LEMMA CirculateType ==
  ASSUME TypeOK, NEW t \in Tokens, Circulate(t) PROVE TypeOK'
BY DEF TypeOK, Circulate

LEMMA TypeStep == TypeOK /\ [Next]_vars => TypeOK'
<1> SUFFICES ASSUME TypeOK, [Next]_vars PROVE TypeOK'
  OBVIOUS
<1>1. ASSUME NEW time \in Times, SetClock(time) PROVE TypeOK'
  BY <1>1 DEF SetClock, TypeOK
<1>2. ASSUME NEW k \in Keys, Wipe(k) PROVE TypeOK'
  BY <1>2 DEF Wipe, TypeOK, Values
<1>3. ASSUME NEW k \in Keys, NEW s \in Secrets, Generate(k, s) PROVE TypeOK'
  BY <1>3 DEF Generate, TypeOK, Values
<1>4. ASSUME NEW j \in Keys, NEW k \in Keys, MoveKey(j, k) PROVE TypeOK'
  BY <1>4 DEF MoveKey, TypeOK
<1>5. ASSUME NEW k \in Keys, NEW x \in Texts, Encrypt(k, x) PROVE TypeOK'
  BY <1>5, MadeType, CirculateType DEF Encrypt
<1>6. ASSUME NEW m \in MultiKeys, NEW list \in Lists, Construct(m, list) PROVE TypeOK'
  <2>1. list \in Seq(Keys)
    BY DEF Lists
  <2> QED BY <1>6, <2>1 DEF Construct, TypeOK
<1>7. ASSUME NEW m \in MultiKeys, lists[m] # <<>> PROVE lists[m][1] \in Keys
  BY <1>7 DEF TypeOK
<1>8. ASSUME NEW m \in MultiKeys, NEW x \in Texts, MultiEncrypt(m, x) PROVE TypeOK'
  BY <1>7, <1>8, MadeType, CirculateType DEF MultiEncrypt, Active
<1>9. ASSUME NEW m \in MultiKeys, NEW t \in tokens, NEW ttl \in Ttls \cup {NoTtl}, Rotate(m, t, ttl)
      PROVE  TypeOK'
  <2>1. t.text \in Texts
    BY DEF TypeOK, Tokens
  <2> QED BY <1>7, <1>9, <2>1, MadeType, CirculateType DEF Rotate, Active
<1>10. ASSUME NEW t \in tokens, NEW ts \in Words, Restamp(t, ts) PROVE TypeOK'
  <2>1. [t EXCEPT !.ts = ts, !.form = "restamped"] \in Tokens
    BY DEF TypeOK, Tokens, Forms
  <2> QED BY <1>10, <2>1, CirculateType DEF Restamp
<1>11. ASSUME NEW t \in tokens, NEW form \in Forms, Spoil(t, form) PROVE TypeOK'
  <2>1. [t EXCEPT !.form = form] \in Tokens
    BY DEF TypeOK, Tokens
  <2> QED BY <1>11, <2>1, CirculateType DEF Spoil
<1>12. CASE UNCHANGED vars
  BY <1>12 DEF vars, TypeOK
<1> QED BY <1>1, <1>2, <1>3, <1>4, <1>5, <1>6, <1>8, <1>9, <1>10, <1>11, <1>12 DEF Next

\* The clock, Key objects, lists and tokens keep their types: no token carries
\* the content of a Key that was moved from.
THEOREM TokenTypes == Spec => []TypeOK
<1>1. TypeOK /\ [Next]_vars => TypeOK'
  BY TypeStep
<1> QED BY <1>1, TypeInit, PTL DEF Spec

-----------------------------------------------------------------------------
(***************************************************************************)
(* One key.                                                                *)
(***************************************************************************)

\* What a key opens was made with it, and nothing but the stamp was changed.
LEMMA OpenedIntact ==
  ASSUME NEW t \in Tokens, NEW c, OpenRaw(t, c) = "text", Decodes(t)
  PROVE  Intact(t) /\ t.key = c /\ Sized(c)
<1>1. t.form \in Forms
  BY DEF Tokens
<1> QED BY <1>1 DEF OpenRaw, Decodes, Forms, Intact

\* Without a wrap, the two checks are comparisons of whole numbers.
LEMMA LifetimeText ==
  ASSUME NEW t \in Tokens, now \in Times, NEW ttl \in Ttls, ttl >= 0
  PROVE  Lifetime(t, ttl) = "text" <=> now - t.ts <= ttl /\ t.ts - now <= Skew
<1>1. ttl \in 0..(Width - 1) /\ ttl # NoTtl
  BY TimeAssumption
<1>2. now + Skew \in 0..(Width - 1) /\ now \in Nat /\ Skew \in Nat
  BY TimeAssumption DEF Times
<1>3. Word(ttl) = ttl /\ Word(now + Skew) = now + Skew
  BY <1>1, <1>2, WordId
<1>4. t.ts \in Nat
  BY TimeAssumption DEF Tokens, Words
<1>5. FromFuture(t.ts, now) <=> t.ts - now > Skew
  BY <1>2, <1>3, <1>4 DEF FromFuture
<1>6. TooOld(t.ts, now, ttl) <=> now - t.ts > ttl
  BY <1>1, <1>2, <1>3, <1>4 DEF TooOld, Age
<1> QED BY <1>1, <1>2, <1>4, <1>5, <1>6 DEF Lifetime

\* Natron::decrypt opens an authentic token for exactly the seconds that the
\* lifetime and the tolerance say, for every clock, stamp and lifetime.
THEOREM LifetimeComputed == Spec => []LifetimeExact
<1>1. TypeOK => LifetimeExact
  <2> SUFFICES ASSUME TypeOK, NEW t \in tokens, NEW k \in Keys, NEW ttl \in Ttls, ttl >= 0,
                      Decrypt(t, content[k], NoTtl) = "text"
               PROVE  Decrypt(t, content[k], ttl) = "text"
                        <=> now - t.ts <= ttl /\ t.ts - now <= Skew
    BY DEF LifetimeExact
  <2>1. t \in Tokens /\ now \in Times
    BY DEF TypeOK
  <2>2. Sized(content[k]) /\ Decodes(t) /\ OpenRaw(t, content[k]) = "text"
    BY DEF Decrypt
  <2>3. Decrypt(t, content[k], ttl) = Lifetime(t, ttl)
    BY <2>2 DEF Decrypt
  <2> QED BY <2>1, <2>3, LifetimeText
<1> QED BY <1>1, TokenTypes, PTL

-----------------------------------------------------------------------------
(***************************************************************************)
(* A list of keys.                                                         *)
(***************************************************************************)

\* A list that matches says what the first key that matches says.
LEMMA FirstMatchSays ==
  ASSUME NEW t, NEW list \in Seq(Keys), Matching(t, list) # {}, Decodes(t), NEW ttl
  PROVE  \E i \in Matching(t, list) :
            /\ \A j \in Matching(t, list) : i <= j
            /\ MultiDecrypt(t, list, ttl) =
                 IF OpenRaw(t, content[list[i]]) = "text" /\ ttl # NoTtl /\ TooOld(t.ts, now, ttl)
                 THEN "Expired" ELSE OpenRaw(t, content[list[i]])
<1> DEFINE S == Matching(t, list)
           first == CHOOSE i \in S : \A j \in S : i <= j
<1>1. Len(list) \in Nat /\ S \in SUBSET (1..Len(list)) /\ S # {}
  BY DEF Matching
<1>2. \E i \in S : \A j \in S : i <= j
  BY <1>1, FirstPosition
<1>3. first \in S /\ \A j \in S : first <= j
  BY <1>2
<1>4. MultiDecrypt(t, list, ttl) =
        IF OpenRaw(t, content[list[first]]) = "text" /\ ttl # NoTtl /\ TooOld(t.ts, now, ttl)
        THEN "Expired" ELSE OpenRaw(t, content[list[first]])
  BY <1>1 DEF MultiDecrypt
<1> QED BY <1>3, <1>4

\* In whole numbers, what is too old is older than the lifetime.
LEMMA TooOldIsOld ==
  ASSUME NEW t \in Tokens, now \in Times, NEW ttl \in Ttls, ttl >= 0, TooOld(t.ts, now, ttl)
  PROVE  now - t.ts > ttl
<1>1. ttl \in 0..(Width - 1) /\ now \in Nat
  BY TimeAssumption DEF Times
<1>2. Word(ttl) = ttl
  BY <1>1, WordId
<1>3. t.ts \in Nat
  BY TimeAssumption DEF Tokens, Words
<1> QED BY <1>1, <1>2, <1>3 DEF TooOld, Age

\* Nothing is said about the age of a token before a MAC is verified, with one
\* key or with a list, however long the list; and what is said is true as long
\* as the stamp, which no MAC covers, is the one encode wrote.
THEOREM ExpiryAfterMac == Spec => []ExpiredOnlyAfterMac
<1>1. TypeOK => ExpiredOnlyAfterMac
  <2> SUFFICES ASSUME TypeOK, NEW t \in tokens, NEW ttl \in Ttls
               PROVE  /\ \A k \in Keys : Decrypt(t, content[k], ttl) = "Expired" =>
                             /\ Intact(t) /\ t.key = content[k]
                             /\ t.form = "original" /\ ttl >= 0 => now - t.ts > ttl
                      /\ \A m \in MultiKeys : MultiDecrypt(t, lists[m], ttl) = "Expired" =>
                             /\ Intact(t) /\ \E i \in DOMAIN lists[m] : t.key = content[lists[m][i]]
                             /\ t.form = "original" /\ ttl >= 0 => now - t.ts > ttl
    BY DEF ExpiredOnlyAfterMac
  <2>1. t \in Tokens /\ now \in Times /\ \A m \in MultiKeys : lists[m] \in Seq(Keys)
    BY DEF TypeOK
  <2>2. \A c : OpenRaw(t, c) # "Expired"
    BY DEF OpenRaw
  <2>3. TooOld(t.ts, now, ttl) /\ ttl >= 0 => now - t.ts > ttl
    BY <2>1, TooOldIsOld
  <2>4. ASSUME NEW k \in Keys, Decrypt(t, content[k], ttl) = "Expired"
        PROVE  Intact(t) /\ t.key = content[k] /\ TooOld(t.ts, now, ttl)
    <3>1. Decodes(t) /\ OpenRaw(t, content[k]) = "text" /\ Lifetime(t, ttl) = "Expired"
      BY <2>2, <2>4 DEF Decrypt
    <3>2. TooOld(t.ts, now, ttl)
      BY <3>1 DEF Lifetime
    <3> QED BY <2>1, <3>1, <3>2, OpenedIntact
  <2>5. ASSUME NEW m \in MultiKeys, MultiDecrypt(t, lists[m], ttl) = "Expired"
        PROVE  /\ Intact(t) /\ \E i \in DOMAIN lists[m] : t.key = content[lists[m][i]]
               /\ TooOld(t.ts, now, ttl)
    <3>1. Decodes(t) /\ Matching(t, lists[m]) # {}
      BY <2>5 DEF MultiDecrypt
    <3>2. PICK i \in Matching(t, lists[m]) :
             MultiDecrypt(t, lists[m], ttl) =
               IF OpenRaw(t, content[lists[m][i]]) = "text" /\ ttl # NoTtl /\ TooOld(t.ts, now, ttl)
               THEN "Expired" ELSE OpenRaw(t, content[lists[m][i]])
      BY <2>1, <3>1, FirstMatchSays
    <3>3. OpenRaw(t, content[lists[m][i]]) = "text" /\ TooOld(t.ts, now, ttl)
      BY <2>2, <2>5, <3>2
    <3>4. i \in DOMAIN lists[m]
      BY <3>2 DEF Matching
    <3> QED BY <2>1, <3>1, <3>3, <3>4, OpenedIntact
  <2> QED BY <2>3, <2>4, <2>5
<1> QED BY <1>1, TokenTypes, PTL

\* A token made with any key of a list opens with the list: the keys before
\* the right one say InvalidSignature, and the search goes on.
THEOREM EveryKeyTried == Spec => []EveryKeyOpens
<1>1. TypeOK => EveryKeyOpens
  <2> SUFFICES ASSUME TypeOK, NEW t \in tokens, NEW m \in MultiKeys, Intact(t),
                      \A i \in DOMAIN lists[m] : Sized(content[lists[m][i]]),
                      \E i \in DOMAIN lists[m] : content[lists[m][i]] = t.key
               PROVE  MultiDecrypt(t, lists[m], NoTtl) = "text"
    BY DEF EveryKeyOpens
  <2>1. lists[m] \in Seq(Keys) /\ Decodes(t)
    BY DEF TypeOK, Decodes, Intact
  <2>2. \A i \in DOMAIN lists[m] : OpenRaw(t, content[lists[m][i]])
                                     = IF t.key = content[lists[m][i]] THEN "text" ELSE "InvalidSignature"
    BY DEF OpenRaw, Intact
  <2>3. Matching(t, lists[m]) # {}
        /\ \A i \in Matching(t, lists[m]) : OpenRaw(t, content[lists[m][i]]) = "text"
    BY <2>2 DEF Matching
  <2> QED BY <2>1, <2>3, FirstMatchSays
<1> QED BY <1>1, TokenTypes, PTL

\* And with nothing else: what a list opens was made with one of its keys, and
\* was not altered but for its stamp, whatever lifetime is asked for.
OpensOnlyOwn ==
    \A t \in tokens, m \in MultiKeys, ttl \in Ttls \cup {NoTtl} :
        MultiDecrypt(t, lists[m], ttl) = "text" =>
            Intact(t) /\ \E i \in DOMAIN lists[m] : t.key = content[lists[m][i]]

THEOREM NothingElseOpens == Spec => []OpensOnlyOwn
<1>1. TypeOK => OpensOnlyOwn
  <2> SUFFICES ASSUME TypeOK, NEW t \in tokens, NEW m \in MultiKeys, NEW ttl \in Ttls \cup {NoTtl},
                      MultiDecrypt(t, lists[m], ttl) = "text"
               PROVE  Intact(t)
                      /\ \E i \in DOMAIN lists[m] : t.key = content[lists[m][i]]
    BY DEF OpensOnlyOwn
  <2>1. t \in Tokens /\ lists[m] \in Seq(Keys)
    BY DEF TypeOK
  <2>2. Decodes(t) /\ Matching(t, lists[m]) # {}
    BY DEF MultiDecrypt
  <2>3. PICK i \in Matching(t, lists[m]) : OpenRaw(t, content[lists[m][i]]) = "text"
    BY <2>1, <2>2, FirstMatchSays
  <2>4. i \in DOMAIN lists[m]
    BY <2>3 DEF Matching
  <2> QED BY <2>1, <2>2, <2>3, <2>4, OpenedIntact
<1> QED BY <1>1, TokenTypes, PTL

-----------------------------------------------------------------------------
(***************************************************************************)
(* Rotation.                                                               *)
(***************************************************************************)

\* A token made just now opens with its key for any lifetime.
LEMMA MadeOpens ==
  ASSUME now \in Times, NEW c, Sized(c), NEW x, NEW ttl \in Ttls, ttl >= 0
  PROVE  Decrypt(Made(c, x), c, ttl) = "text"
<1> DEFINE u == Made(c, x)
<1>1. u.form = "original" /\ u.key = c /\ u.ts = now
  BY DEF Made
<1>2. Decodes(u) /\ OpenRaw(u, c) = "text"
  BY <1>1 DEF Decodes, OpenRaw
<1>3. ttl \in 0..(Width - 1)
  BY TimeAssumption
<1>4. now \in Nat /\ Skew \in Nat /\ now + Skew \in 0..(Width - 1)
  BY TimeAssumption DEF Times
<1>5. Word(ttl) = ttl /\ Word(now + Skew) = now + Skew
  BY <1>3, <1>4, WordId
<1>6. ~FromFuture(u.ts, now) /\ ~TooOld(u.ts, now, ttl)
  BY <1>1, <1>3, <1>4, <1>5 DEF FromFuture, TooOld, Age
<1> QED BY <1>2, <1>6 DEF Decrypt, Lifetime

\* What NatronMultiKey::rotate returns opens under the active key alone, for
\* any lifetime.
THEOREM RotationRenewed == Spec => RotationRenews
<1> DEFINE Renews ==
      \A m \in MultiKeys, t \in tokens, ttl \in Ttls \cup {NoTtl} :
          Rotate(m, t, ttl) => \E u \in tokens' : u.text = t.text
              /\ \A later \in Ttls : later >= 0 => Decrypt(u, Active(m), later) = "text"
<1>1. TypeOK => Renews
  <2> SUFFICES ASSUME TypeOK, NEW m \in MultiKeys, NEW t \in tokens, NEW ttl \in Ttls \cup {NoTtl},
                      Rotate(m, t, ttl)
               PROVE  \E u \in tokens' : u.text = t.text
                        /\ \A later \in Ttls : later >= 0 => Decrypt(u, Active(m), later) = "text"
    OBVIOUS
  <2> DEFINE u == Made(Active(m), t.text)
  <2>1. now \in Times /\ Sized(Active(m)) /\ u \in tokens'
    BY DEF TypeOK, Rotate, Circulate
  <2>2. u.text = t.text
    BY DEF Made
  <2>3. \A later \in Ttls : later >= 0 => Decrypt(u, Active(m), later) = "text"
    BY <2>1, MadeOpens
  <2> QED BY <2>1, <2>2, <2>3
<1>2. TypeOK => [Renews]_vars
  BY <1>1
<1> QED BY <1>2, TokenTypes, PTL DEF RotationRenews
=============================================================================
