--------------------------- MODULE NonceUseProofs ---------------------------
(***************************************************************************)
(* Theorems about NonceUse for every set of objects, keys and draws, every *)
(* width and both modes.  A pair is not sealed twice because an object     *)
(* that carries an unspoiled base is alone with it, and every content it   *)
(* was sealed under is behind its counter or is the present one, marked    *)
(* used.                                                                   *)
(***************************************************************************)
EXTENDS NonceUse, TLAPS

\* Every base in sight was given out.
Origin ==
    /\ \A o \in Filled : value[o].base \in drawn
    /\ \A k \in Keys, v \in Values : <<k, v>> \in sealed => v.base \in drawn

\* What was sealed under an object's base is behind its counter.
Behind ==
    \A o \in Filled, k \in Keys, v \in Values :
        <<k, v>> \in sealed /\ v.base = value[o].base /\ v.base \notin Spoiled =>
            v.ctr < value[o].ctr \/ (v.ctr = value[o].ctr /\ used[o])

IInv == TypeOK /\ Origin /\ BasesNotShared /\ Behind /\ ReuseExplained

LEMMA ZeroValueTyped == ZeroValue \in Values /\ ZeroValue.base = ZeroBase
BY SizeAssumption DEF ZeroValue, Values, Bases

LEMMA FreshTyped == \A d \in Draws : Fresh(d) \in Values /\ Fresh(d).base = d /\ Fresh(d).ctr = 0
BY SizeAssumption DEF Fresh, Values, Bases

-----------------------------------------------------------------------------
LEMMA SpoilSpoils ==
    ASSUME cause \in [Bases -> Causes \cup {"none"}], NEW b \in Bases, NEW c \in Causes, Spoil(b, c)
    PROVE  cause' \in [Bases -> Causes \cup {"none"}] /\ Spoiled' = Spoiled \cup {b}
<1>1. /\ cause' \in [Bases -> Causes \cup {"none"}]
      /\ cause'[b] = IF cause[b] = "none" THEN c ELSE cause[b]
      /\ \A d \in Bases \ {b} : cause'[d] = cause[d]
  BY DEF Spoil
<1>2. c # "none"
  BY DEF Causes
<1> QED BY <1>1, <1>2 DEF Spoiled

LEMMA SpoiledSame == ASSUME UNCHANGED cause PROVE Spoiled' = Spoiled
BY DEF Spoiled

LEMMA Explained == ASSUME TypeOK PROVE ReuseExplained <=> reused \subseteq Spoiled
BY DEF TypeOK, ReuseExplained, Spoiled, Causes

\* An object that is given a content of its own, used or not, disturbs nothing
\* when it has no bytes, or the content's base is spoiled or appears nowhere
\* else.
LEMMA AssignKeeps ==
    ASSUME IInv, NEW o \in Nonces, NEW n \in 0..MaxSize, NEW v \in Values, NEW u \in BOOLEAN,
           Assign(o, n, v, u), alive' \cup {o} = alive \cup {o}, alive' \subseteq Nonces,
           UNCHANGED <<sealed, reused>>,
           drawn \subseteq drawn', drawn' \subseteq Bases,
           cause' \in [Bases -> Causes \cup {"none"}], Spoiled \subseteq Spoiled',
           n = 0 \/ (v.base \in drawn' /\ (v.base \in Spoiled' \/ v.base \notin drawn))
    PROVE  IInv'
<1>1. /\ size' \in [Nonces -> 0..MaxSize] /\ value' \in [Nonces -> Values]
      /\ used' \in [Nonces -> BOOLEAN]
      /\ value'[o] = v /\ size'[o] = n
      /\ \A p \in Nonces \ {o} : value'[p] = value[p] /\ used'[p] = used[p] /\ size'[p] = size[p]
  BY DEF Assign, IInv, TypeOK
<1>2. TypeOK'
  BY <1>1 DEF IInv, TypeOK
<1>3. \A p \in Filled' \ {o} : p \in Filled /\ p \in Nonces
  BY <1>1 DEF Filled
<1>4. o \in Filled' => n # 0
  BY <1>1 DEF Filled
<1>5. Origin'
  BY <1>1, <1>3, <1>4 DEF IInv, Origin
<1>6. \A p \in Filled' \ {o} : o \in Filled' /\ value'[p].base = v.base => v.base \in Spoiled'
  BY <1>1, <1>3, <1>4 DEF IInv, Origin
<1>7. BasesNotShared'
  <2> SUFFICES ASSUME NEW p \in Filled', NEW q \in Filled', p # q, value'[p].base = value'[q].base
               PROVE  value'[p].base \in Spoiled'
    BY DEF BasesNotShared
  <2>1. CASE p # o /\ q # o
    BY <1>1, <1>3, <2>1 DEF IInv, BasesNotShared
  <2>2. CASE p = o
    BY <1>1, <1>6, <2>2
  <2>3. CASE q = o
    BY <1>1, <1>6, <2>3
  <2> QED BY <2>1, <2>2, <2>3
<1>8. Behind'
  <2> SUFFICES ASSUME NEW p \in Filled', NEW k \in Keys, NEW w \in Values,
                      <<k, w>> \in sealed, w.base = value'[p].base, w.base \notin Spoiled'
               PROVE  w.ctr < value'[p].ctr \/ (w.ctr = value'[p].ctr /\ used'[p])
    BY DEF Behind
  <2>1. CASE p # o
    BY <1>1, <1>3, <2>1 DEF IInv, Behind
  <2>2. CASE p = o
    BY <1>1, <1>4, <2>2 DEF IInv, Origin
  <2> QED BY <2>1, <2>2
<1>9. ReuseExplained'
  BY <1>2, Explained DEF IInv, ReuseExplained, Spoiled, TypeOK, Causes
<1> QED BY <1>2, <1>5, <1>7, <1>8, <1>9 DEF IInv

\* A ciphertext under an object's present content, which the object then marks.
LEMMA SealKeeps ==
    ASSUME IInv, NEW o \in Filled, NEW k \in Keys, ~used[o],
           Seal(k, value[o]), used' = [used EXCEPT ![o] = TRUE],
           UNCHANGED <<alive, size, value, drawn, cause>>
    PROVE  IInv'
<1>1. o \in Nonces /\ value[o] \in Values /\ value[o].base \in Bases /\ value[o].ctr \in Nat
  BY SizeAssumption DEF IInv, TypeOK, Values, Filled
<1>same. Filled' = Filled /\ Spoiled' = Spoiled
  BY DEF Filled, Spoiled
<1>2. /\ used'[o] = TRUE /\ \A p \in Nonces \ {o} : used'[p] = used[p]
  BY <1>1 DEF IInv, TypeOK
<1>3. \A j \in Keys, w \in Values : <<j, w>> \in sealed' => <<j, w>> \in sealed \/ w = value[o]
  BY DEF Seal
<1>4. TypeOK'
  BY <1>1 DEF IInv, TypeOK, Seal
<1>5. Origin'
  BY <1>3, <1>same DEF IInv, Origin
<1>6. BasesNotShared'
  BY <1>same DEF IInv, BasesNotShared
<1>7. Behind'
  <2> SUFFICES ASSUME NEW p \in Filled, NEW j \in Keys, NEW w \in Values,
                      <<j, w>> \in sealed', w.base = value[p].base, w.base \notin Spoiled
               PROVE  w.ctr < value[p].ctr \/ (w.ctr = value[p].ctr /\ used'[p])
    BY <1>same DEF Behind
  <2>0. p \in Nonces
    BY DEF IInv, TypeOK, Filled
  <2>1. CASE <<j, w>> \in sealed
    <3>1. w.ctr < value[p].ctr \/ (w.ctr = value[p].ctr /\ used[p])
      BY <2>1 DEF IInv, Behind
    <3> QED BY <1>2, <2>0, <3>1
  <2>2. CASE w = value[o]
    <3>1. p = o
      BY <2>2 DEF IInv, BasesNotShared
    <3> QED BY <1>2, <2>2, <3>1
  <2> QED BY <1>3, <2>1, <2>2
<1>8. ReuseExplained'
  <2>1. value[o].base \notin Spoiled => <<k, value[o]>> \notin sealed
    BY <1>1 DEF IInv, Behind
  <2>2. reused \subseteq Spoiled
    BY Explained DEF IInv
  <2>3. reused' \subseteq Spoiled
    BY <2>1, <2>2 DEF Seal
  <2>4. \A b \in reused' : cause[b] \in Causes
    BY <2>3 DEF Spoiled, IInv, TypeOK
  <2> QED BY <2>4 DEF ReuseExplained
<1> QED BY <1>4, <1>5, <1>6, <1>7, <1>8 DEF IInv

\* A move carries content and flag over together.
LEMMA MoveKeeps ==
    ASSUME IInv, NEW dst \in Nonces, NEW src \in Nonces, Move(dst, src)
    PROVE  IInv'
<1>1. /\ dst # src /\ src \in alive /\ alive' = alive \cup {dst}
      /\ UNCHANGED <<sealed, reused, drawn, cause>>
  BY DEF Move, history
<1>2. /\ size' \in [Nonces -> 0..MaxSize] /\ value' \in [Nonces -> Values] /\ used' \in [Nonces -> BOOLEAN]
      /\ value'[dst] = value[src] /\ used'[dst] = used[src] /\ size'[dst] = size[src] /\ size'[src] = 0
      /\ \A p \in Nonces \ {dst, src} : value'[p] = value[p] /\ used'[p] = used[p] /\ size'[p] = size[p]
  BY <1>1, ZeroValueTyped, SizeAssumption DEF Move, MoveFrom, IInv, TypeOK
<1>3. TypeOK'
  BY <1>1, <1>2 DEF IInv, TypeOK
<1>4. /\ \A p \in Filled' \ {dst} : p \in Filled /\ p \in Nonces /\ p # src
      /\ src \notin Filled' /\ (dst \in Filled' => src \in Filled)
  BY <1>1, <1>2 DEF IInv, TypeOK, Filled
<1>5. Spoiled' = Spoiled
  BY <1>1, SpoiledSame
<1>6. Origin'
  BY <1>1, <1>2, <1>4 DEF IInv, Origin
<1>7. BasesNotShared'
  <2> SUFFICES ASSUME NEW p \in Filled', NEW q \in Filled', p # q, value'[p].base = value'[q].base,
                      value'[p].base \notin Spoiled
               PROVE  FALSE
    BY <1>5 DEF BasesNotShared
  <2>1. p # src /\ q # src
    BY <1>4
  <2>2. CASE p = dst
    BY <1>1, <1>2, <1>4, <2>1, <2>2 DEF IInv, BasesNotShared
  <2>3. CASE q = dst
    BY <1>1, <1>2, <1>4, <2>1, <2>3 DEF IInv, BasesNotShared
  <2>4. CASE p # dst /\ q # dst
    BY <1>1, <1>2, <1>4, <2>1, <2>4 DEF IInv, BasesNotShared
  <2> QED BY <2>2, <2>3, <2>4
<1>8. Behind'
  <2> SUFFICES ASSUME NEW p \in Filled', NEW k \in Keys, NEW w \in Values,
                      <<k, w>> \in sealed, w.base = value'[p].base, w.base \notin Spoiled
               PROVE  w.ctr < value'[p].ctr \/ (w.ctr = value'[p].ctr /\ used'[p])
    BY <1>1, <1>5 DEF Behind
  <2>1. p # src
    BY <1>4
  <2>2. CASE p = dst
    BY <1>1, <1>2, <1>4, <2>2 DEF IInv, Behind
  <2>3. CASE p # dst
    BY <1>2, <1>4, <2>1, <2>3 DEF IInv, Behind
  <2> QED BY <2>2, <2>3
<1>9. ReuseExplained'
  BY <1>1 DEF IInv, ReuseExplained
<1> QED BY <1>3, <1>6, <1>7, <1>8, <1>9 DEF IInv

\* Counting leaves behind what was sealed, or spoils the base when it wraps.
LEMMA IncrementKeeps ==
    ASSUME IInv, NEW o \in Nonces, Increment(o)
    PROVE  IInv'
<1> DEFINE v == [value[o] EXCEPT !.ctr = (@ + 1) % Width]
<1>1. /\ o \in alive /\ Assign(o, size[o], v, FALSE)
      /\ IF value[o].ctr + 1 = Width THEN Spoil(value[o].base, "wrapped") ELSE UNCHANGED cause
      /\ UNCHANGED <<alive, sealed, reused, drawn>>
  BY DEF Increment
<1>2. value[o] \in Values /\ value[o].base \in Bases /\ value[o].ctr \in 0..(Width - 1)
  BY DEF IInv, TypeOK, Values
<1>3. /\ v \in Values /\ v.base = value[o].base
      /\ value[o].ctr + 1 # Width => v.ctr = value[o].ctr + 1
  BY <1>2, SizeAssumption DEF Values
<1> HIDE DEF v
<1>4. /\ size' \in [Nonces -> 0..MaxSize] /\ value' \in [Nonces -> Values] /\ used' \in [Nonces -> BOOLEAN]
      /\ value'[o] = v /\ used'[o] = FALSE
      /\ \A p \in Nonces \ {o} : value'[p] = value[p] /\ used'[p] = used[p]
  BY <1>1, <1>3 DEF Assign, IInv, TypeOK
<1>spoils. /\ cause' \in [Bases -> Causes \cup {"none"}] /\ Spoiled \subseteq Spoiled'
           /\ value[o].ctr + 1 = Width => value[o].base \in Spoiled'
  <2>1. "wrapped" \in Causes
    BY DEF Causes
  <2>2. cause \in [Bases -> Causes \cup {"none"}]
    BY DEF IInv, TypeOK
  <2>3. CASE value[o].ctr + 1 = Width
    BY <1>1, <1>2, <2>1, <2>2, <2>3, SpoilSpoils
  <2>4. CASE value[o].ctr + 1 # Width
    BY <1>1, <2>2, <2>4, SpoiledSame
  <2> QED BY <2>3, <2>4
<1>5. TypeOK'
  BY <1>1, <1>2, <1>4, <1>spoils DEF IInv, TypeOK
<1>6. \A p \in Filled' : p \in Filled /\ p \in Nonces /\ value'[p].base = value[p].base
  BY <1>1, <1>3, <1>4 DEF IInv, TypeOK, Filled, Assign
<1>7. Spoiled \subseteq Spoiled'
  BY <1>spoils
<1>8. Origin'
  BY <1>1, <1>6, <1>7 DEF IInv, Origin
<1>9. BasesNotShared'
  BY <1>1, <1>6, <1>7 DEF IInv, BasesNotShared
<1>10. Behind'
  <2> SUFFICES ASSUME NEW p \in Filled', NEW k \in Keys, NEW w \in Values,
                      <<k, w>> \in sealed, w.base = value'[p].base, w.base \notin Spoiled'
               PROVE  w.ctr < value'[p].ctr \/ (w.ctr = value'[p].ctr /\ used'[p])
    BY <1>1 DEF Behind
  <2>1. w.ctr < value[p].ctr \/ (w.ctr = value[p].ctr /\ used[p])
    BY <1>6, <1>7 DEF IInv, Behind
  <2>2. CASE p # o
    BY <1>4, <1>6, <2>1, <2>2
  <2>3. CASE p = o
    <3>1. v.ctr = value[o].ctr + 1
      BY <1>3, <1>6, <1>spoils, <2>3
    <3>2. w.ctr \in Nat /\ value[o].ctr \in Nat
      BY <1>2, SizeAssumption DEF Values
    <3> QED BY <1>4, <2>1, <2>3, <3>1, <3>2
  <2> QED BY <2>2, <2>3
<1>11. ReuseExplained'
  BY <1>1, <1>5, <1>7, Explained DEF IInv, ReuseExplained, Spoiled, TypeOK
<1> QED BY <1>5, <1>8, <1>9, <1>10, <1>11 DEF IInv

\* encrypt of an empty lazy nonce: the content is new to every object and to
\* every ciphertext before it.
LEMMA EncryptFillingKeeps ==
    ASSUME IInv, NEW o \in Nonces, NEW k \in Keys, NEW d \in Draws, EncryptFilling(o, k, d)
    PROVE  IInv'
<1>1. /\ o \in alive /\ d \notin drawn /\ Seal(k, Fresh(d)) /\ Assign(o, NPUB, Fresh(d), TRUE)
      /\ drawn' = drawn \cup {d} /\ UNCHANGED <<alive, cause>>
  BY DEF EncryptFilling
<1>2. Fresh(d) \in Values /\ Fresh(d).base = d /\ d \in Bases /\ NPUB \in 0..MaxSize
  BY FreshTyped, SizeAssumption DEF Bases
<1>3. /\ size' \in [Nonces -> 0..MaxSize] /\ value' \in [Nonces -> Values] /\ used' \in [Nonces -> BOOLEAN]
      /\ value'[o] = Fresh(d) /\ used'[o] = TRUE
      /\ \A p \in Nonces \ {o} : value'[p] = value[p] /\ used'[p] = used[p] /\ size'[p] = size[p]
  BY <1>1, <1>2 DEF Assign, IInv, TypeOK
<1>4. \A j \in Keys : <<j, Fresh(d)>> \notin sealed
  BY <1>1, <1>2 DEF IInv, Origin
<1>5. sealed' = sealed \cup {<<k, Fresh(d)>>} /\ reused' = reused
  BY <1>1, <1>4 DEF Seal
<1>6. TypeOK'
  BY <1>1, <1>2, <1>3, <1>5 DEF IInv, TypeOK
<1>7. \A p \in Filled' \ {o} : /\ p \in Filled /\ p \in Nonces /\ value[p].base # d
                                 /\ value'[p] = value[p] /\ used'[p] = used[p]
  BY <1>1, <1>2, <1>3 DEF IInv, TypeOK, Origin, Filled
<1>same. Spoiled' = Spoiled
  BY <1>1, SpoiledSame
<1>8. Origin'
  BY <1>1, <1>2, <1>3, <1>5, <1>7 DEF IInv, Origin
<1>9. BasesNotShared'
  BY <1>1, <1>2, <1>3, <1>7, <1>same DEF IInv, BasesNotShared
<1>10. Behind'
  <2> SUFFICES ASSUME NEW p \in Filled', NEW j \in Keys, NEW w \in Values,
                      <<j, w>> \in sealed', w.base = value'[p].base, w.base \notin Spoiled
               PROVE  w.ctr < value'[p].ctr \/ (w.ctr = value'[p].ctr /\ used'[p])
    BY <1>1, <1>same DEF Behind
  <2>1. <<j, w>> \in sealed \/ w = Fresh(d)
    BY <1>5
  <2>2. CASE p = o
    BY <1>1, <1>2, <1>3, <2>1, <2>2 DEF IInv, Origin
  <2>3. CASE p # o
    BY <1>2, <1>7, <2>1, <2>3 DEF IInv, Behind
  <2> QED BY <2>2, <2>3
<1>11. ReuseExplained'
  BY <1>1, <1>5 DEF IInv, ReuseExplained
<1> QED BY <1>6, <1>8, <1>9, <1>10, <1>11 DEF IInv

\* AssignKeeps for the actions that leave the flag off and the history alone
\* but for one draw.
LEMMA FillKeeps ==
    ASSUME IInv, NEW o \in alive, NEW n \in 0..MaxSize, NEW d \in Draws, d \notin drawn,
           Assign(o, n, Fresh(d), FALSE), drawn' = drawn \cup {d},
           UNCHANGED <<alive, sealed, reused, cause>>
    PROVE  IInv'
<1>1. /\ o \in Nonces /\ alive \subseteq Nonces /\ drawn \subseteq Bases
      /\ cause \in [Bases -> Causes \cup {"none"}]
  BY DEF IInv, TypeOK
<1>2. Fresh(d) \in Values /\ Fresh(d).base = d /\ d \in Bases
  BY FreshTyped DEF Bases
<1>3. /\ alive' \cup {o} = alive \cup {o} /\ alive' \subseteq Nonces
      /\ UNCHANGED <<sealed, reused>>
      /\ drawn \subseteq drawn' /\ drawn' \subseteq Bases
      /\ cause' \in [Bases -> Causes \cup {"none"}] /\ Spoiled \subseteq Spoiled'
      /\ Fresh(d).base \in drawn' /\ Fresh(d).base \notin drawn
      /\ FALSE \in BOOLEAN
  BY <1>1, <1>2, SpoiledSame
<1> QED BY <1>1, <1>2, <1>3, AssignKeeps

\* And for those that leave an object with no bytes.
LEMMA EmptyKeeps ==
    ASSUME IInv, NEW o \in Nonces, NEW u \in BOOLEAN,
           Assign(o, 0, ZeroValue, u), alive' \cup {o} = alive \cup {o}, alive' \subseteq Nonces,
           UNCHANGED history
    PROVE  IInv'
<1>1. drawn \subseteq Bases /\ cause \in [Bases -> Causes \cup {"none"}] /\ 0 \in 0..MaxSize
  BY SizeAssumption DEF IInv, TypeOK
<1>2. /\ UNCHANGED <<sealed, reused>>
      /\ drawn \subseteq drawn' /\ drawn' \subseteq Bases
      /\ cause' \in [Bases -> Causes \cup {"none"}] /\ Spoiled \subseteq Spoiled'
  BY <1>1, SpoiledSame DEF history
<1> QED BY <1>1, <1>2, ZeroValueTyped, AssignKeeps

\* And for those that leave it with zero bytes.
LEMMA ZeroKeeps ==
    ASSUME IInv, NEW o \in Nonces, NEW n \in 0..MaxSize, NEW u \in BOOLEAN, NEW c \in Causes,
           Zero(o, n, u, c), alive' = alive \cup {o}, UNCHANGED <<sealed, reused>>
    PROVE  IInv'
<1>1. /\ drawn \subseteq Bases /\ cause \in [Bases -> Causes \cup {"none"}] /\ alive \subseteq Nonces
      /\ ZeroBase \in Bases /\ ZeroValue.base = ZeroBase /\ ZeroValue \in Values
  BY ZeroValueTyped DEF IInv, TypeOK, Bases
<1>2. Assign(o, n, ZeroValue, u)
  BY DEF Zero
<1>3. CASE n > 0
  <2>1. drawn' = drawn \cup {ZeroBase}
    BY <1>3 DEF Zero
  <2>2. /\ cause' \in [Bases -> Causes \cup {"none"}] /\ Spoiled \subseteq Spoiled'
        /\ ZeroBase \in Spoiled' \/ ZeroBase \notin drawn
    BY <1>1, <1>3, SpoilSpoils, SpoiledSame DEF Zero
  <2> QED BY <1>1, <1>2, <2>1, <2>2, AssignKeeps
<1>4. CASE n = 0
  BY <1>1, <1>2, <1>4, EmptyKeeps DEF Zero, history
<1> QED BY <1>3, <1>4

\* And for those that spoil the base they leave there.
LEMMA SpoilKeeps ==
    ASSUME IInv, NEW o \in Nonces, NEW n \in 0..MaxSize, NEW v \in Values, NEW u \in BOOLEAN,
           NEW c \in Causes, Assign(o, n, v, u), alive' = alive \cup {o}, drawn' = drawn \cup {v.base},
           Spoil(v.base, c), UNCHANGED <<sealed, reused>>
    PROVE  IInv'
<1>1. /\ drawn \subseteq Bases /\ cause \in [Bases -> Causes \cup {"none"}] /\ alive \subseteq Nonces
      /\ v.base \in Bases
  BY DEF IInv, TypeOK, Values
<1>2. /\ alive' \cup {o} = alive \cup {o} /\ alive' \subseteq Nonces
      /\ drawn \subseteq drawn' /\ drawn' \subseteq Bases /\ v.base \in drawn'
  BY <1>1
<1>3. cause' \in [Bases -> Causes \cup {"none"}] /\ Spoiled \subseteq Spoiled' /\ v.base \in Spoiled'
  BY <1>1, SpoilSpoils
<1> QED BY <1>2, <1>3, AssignKeeps

\* A ciphertext under a draw that no object gets: the boxes.
LEMMA BoxEncryptKeeps ==
    ASSUME IInv, NEW k \in Keys, NEW d \in Draws, BoxEncrypt(k, d)
    PROVE  IInv'
<1>1. /\ d \notin drawn /\ Seal(k, Fresh(d)) /\ drawn' = drawn \cup {d}
      /\ UNCHANGED <<alive, size, value, used, cause>>
  BY DEF BoxEncrypt, objects
<1>2. Fresh(d) \in Values /\ Fresh(d).base = d /\ d \in Bases /\ Filled' = Filled /\ Spoiled' = Spoiled
  BY <1>1, FreshTyped, SpoiledSame DEF Bases, Filled
<1>3. \A j \in Keys : <<j, Fresh(d)>> \notin sealed
  BY <1>1, <1>2 DEF IInv, Origin
<1>4. sealed' = sealed \cup {<<k, Fresh(d)>>} /\ reused' = reused
  BY <1>1, <1>3 DEF Seal
<1>5. TypeOK'
  BY <1>1, <1>2, <1>4 DEF IInv, TypeOK
<1>6. Origin'
  BY <1>1, <1>2, <1>4 DEF IInv, Origin
<1>7. BasesNotShared'
  BY <1>1, <1>2 DEF IInv, BasesNotShared
<1>8. Behind'
  <2> SUFFICES ASSUME NEW p \in Filled, NEW j \in Keys, NEW w \in Values,
                      <<j, w>> \in sealed', w.base = value[p].base, w.base \notin Spoiled
               PROVE  w.ctr < value[p].ctr \/ (w.ctr = value[p].ctr /\ used[p])
    BY <1>1, <1>2 DEF Behind
  <2>1. w # Fresh(d)
    BY <1>1, <1>2 DEF IInv, Origin
  <2>2. <<j, w>> \in sealed
    BY <1>4, <2>1
  <2> QED BY <2>2 DEF IInv, Behind
<1>9. ReuseExplained'
  BY <1>1, <1>4 DEF IInv, ReuseExplained
<1> QED BY <1>5, <1>6, <1>7, <1>8, <1>9 DEF IInv

LEMMA IInvInit == Init => IInv
<1> SUFFICES ASSUME Init PROVE IInv
  OBVIOUS
<1>1. TypeOK
  BY ZeroValueTyped, SizeAssumption DEF Init, TypeOK, Bases
<1> QED BY <1>1 DEF Init, IInv, Origin, BasesNotShared, Behind, ReuseExplained, Filled

LEMMA IInvStep == IInv /\ [Next]_vars => IInv'
<1> SUFFICES ASSUME IInv, [Next]_vars PROVE IInv'
  OBVIOUS
<1>0. /\ alive \subseteq Nonces /\ NPUB \in 0..MaxSize /\ NPUB > 0 /\ 0 \in 0..MaxSize
      /\ \A o \in Nonces : size[o] \in 0..MaxSize /\ value[o] \in Values /\ used[o] \in BOOLEAN
      /\ Causes = {"constructed", "wiped", "copied", "edited", "wrapped", "thrown"}
  BY SizeAssumption DEF IInv, TypeOK, Causes
<1>1. ASSUME NEW o \in Nonces, ConstructLazy(o) PROVE IInv'
  <2>1. /\ Assign(o, 0, ZeroValue, FALSE) /\ UNCHANGED history
        /\ alive' \cup {o} = alive \cup {o} /\ alive' \subseteq Nonces
    BY <1>0, <1>1 DEF ConstructLazy
  <2> QED BY <1>0, <2>1, EmptyKeeps
<1>2. ASSUME NEW o \in Nonces, NEW n \in 0..MaxSize, ConstructEager(o, n) PROVE IInv'
  BY <1>0, <1>2, ZeroKeeps DEF ConstructEager
<1>3. ASSUME NEW o \in Nonces, NEW v \in Values, ConstructFromSpan(o, v) PROVE IInv'
  <2>1. /\ Assign(o, NPUB, v, TRUE) /\ alive' = alive \cup {o}
        /\ Spoil(v.base, "copied") /\ UNCHANGED <<sealed, reused, drawn>>
        /\ \E k \in Keys : <<k, v>> \in sealed
    BY <1>3 DEF ConstructFromSpan
  <2>2. drawn' = drawn \cup {v.base}
    BY <2>1 DEF IInv, Origin
  <2> QED BY <1>0, <2>1, <2>2, SpoilKeeps
<1>4. ASSUME NEW o \in Nonces, NEW n \in 0..MaxSize, NEW d \in Draws, RandomGenerate(o, n, d)
      PROVE  IInv'
  <2>1. CASE n = 0
    <3>1. /\ Assign(o, 0, ZeroValue, FALSE) /\ UNCHANGED history
          /\ alive' \cup {o} = alive \cup {o} /\ alive' \subseteq Nonces
      BY <1>0, <1>4, <2>1 DEF RandomGenerate, history
    <3> QED BY <3>1, EmptyKeeps
  <2>2. CASE n # 0
    <3>1. /\ o \in alive /\ d \notin drawn /\ Assign(o, n, Fresh(d), FALSE)
          /\ drawn' = drawn \cup {d} /\ UNCHANGED <<alive, sealed, reused, cause>>
      BY <1>4, <2>2 DEF RandomGenerate
    <3> QED BY <3>1, FillKeeps
  <2> QED BY <2>1, <2>2
<1>5. ASSUME NEW o \in Nonces, NEW n \in 0..MaxSize, RandomGenerateThrows(o, n) PROVE IInv'
  <2>1. /\ o \in alive /\ UNCHANGED <<alive, size, value, sealed, reused, drawn>>
        /\ used' = [used EXCEPT ![o] = FALSE]
    BY <1>5 DEF RandomGenerateThrows
  <2>2. CASE used[o] /\ size[o] > 0
    <3>1. Assign(o, size[o], value[o], FALSE) /\ Spoil(value[o].base, "thrown")
      BY <1>5, <2>1, <2>2 DEF Assign, IInv, TypeOK, RandomGenerateThrows
    <3>2. drawn' = drawn \cup {value[o].base} /\ alive' = alive \cup {o}
      BY <2>1, <2>2 DEF IInv, Origin, Filled
    <3> QED BY <1>0, <2>1, <3>1, <3>2, SpoilKeeps
  <2>3. CASE ~(used[o] /\ size[o] > 0)
    <3>1. UNCHANGED cause /\ \A p \in Filled : used'[p] = used[p]
      BY <1>0, <1>5, <2>1, <2>3 DEF RandomGenerateThrows, Filled, IInv, TypeOK
    <3>2. Filled' = Filled /\ Spoiled' = Spoiled
      BY <2>1, <3>1, SpoiledSame DEF Filled
    <3>3. TypeOK'
      BY <2>1, <3>1 DEF IInv, TypeOK
    <3> QED BY <2>1, <3>1, <3>2, <3>3 DEF IInv, Origin, BasesNotShared, Behind, ReuseExplained
  <2> QED BY <2>2, <2>3
<1>6. ASSUME NEW o \in Nonces, NEW d \in Draws, Refill(o, d) PROVE IInv'
  <2>1. CASE size[o] = 0
    <3>1. /\ Assign(o, 0, ZeroValue, FALSE) /\ UNCHANGED history
          /\ alive' \cup {o} = alive \cup {o} /\ alive' \subseteq Nonces
      BY <1>0, <1>6, <2>1 DEF Refill, history
    <3> QED BY <1>0, <3>1, EmptyKeeps
  <2>2. CASE size[o] # 0
    <3>1. /\ o \in alive /\ d \notin drawn /\ Assign(o, size[o], Fresh(d), FALSE)
          /\ drawn' = drawn \cup {d} /\ UNCHANGED <<alive, sealed, reused, cause>>
      BY <1>6, <2>2 DEF Refill
    <3> QED BY <1>0, <3>1, FillKeeps
  <2> QED BY <2>1, <2>2
<1>7. ASSUME NEW o \in Nonces, Wipe(o) PROVE IInv'
  <2>1. Zero(o, size[o], used[o], "wiped") /\ alive' = alive \cup {o} /\ UNCHANGED <<sealed, reused>>
    BY <1>7 DEF Wipe
  <2> QED BY <1>0, <2>1, ZeroKeeps
<1>8. ASSUME NEW o \in Nonces, Destroy(o) PROVE IInv'
  <2>1. /\ Assign(o, 0, ZeroValue, FALSE) /\ UNCHANGED history
        /\ alive' \cup {o} = alive \cup {o} /\ alive' \subseteq Nonces
    BY <1>0, <1>8 DEF Destroy
  <2> QED BY <1>0, <2>1, EmptyKeeps
<1>9. ASSUME NEW o \in Nonces, NEW d \in Draws, EncryptFillingThrows(o, d) PROVE IInv'
  <2>1. /\ o \in alive /\ d \notin drawn /\ Assign(o, NPUB, Fresh(d), FALSE)
        /\ drawn' = drawn \cup {d} /\ UNCHANGED <<alive, sealed, reused, cause>>
    BY <1>9 DEF EncryptFillingThrows
  <2> QED BY <1>0, <2>1, FillKeeps
<1>10. ASSUME NEW o \in Nonces, NEW k \in Keys, Encrypt(o, k) PROVE IInv'
  <2>1. /\ o \in alive /\ ~used[o] /\ Seal(k, value[o]) /\ used' = [used EXCEPT ![o] = TRUE]
        /\ size[o] = NPUB /\ UNCHANGED <<alive, size, value, drawn, cause>>
    BY <1>10 DEF Encrypt
  <2>2. o \in Filled
    BY <1>0, <2>1 DEF Filled
  <2> QED BY <2>1, <2>2, SealKeeps
<1>11. ASSUME NEW o \in Nonces, NEW n \in 0..MaxSize, NEW v \in Values, HandEdit(o, n, v) PROVE IInv'
  <2>1. /\ o \in alive /\ Assign(o, n, v, used[o]) /\ UNCHANGED <<alive, sealed, reused>>
        /\ (n = 0 => v = ZeroValue) /\ alive' = alive \cup {o}
    BY <1>11 DEF HandEdit
  <2>2. CASE n = 0
    BY <1>0, <1>11, <2>1, <2>2, EmptyKeeps DEF HandEdit, history
  <2>3. CASE n # 0
    <3>1. drawn' = drawn \cup {v.base} /\ Spoil(v.base, "edited")
      BY <1>11, <2>3 DEF HandEdit
    <3> QED BY <1>0, <2>1, <3>1, SpoilKeeps
  <2> QED BY <2>2, <2>3
<1>12. ASSUME NEW d \in Draws, BoxEncryptThrows(d) PROVE IInv'
  <2>1. drawn' = drawn \cup {d} /\ UNCHANGED <<alive, size, value, used, sealed, reused, cause>>
    BY <1>12 DEF BoxEncryptThrows, objects
  <2>2. Filled' = Filled /\ Spoiled' = Spoiled /\ d \in Bases
    BY <2>1 DEF Filled, Spoiled, Bases
  <2> QED BY <2>1, <2>2 DEF IInv, TypeOK, Origin, BasesNotShared, Behind, ReuseExplained
<1>13. CASE UNCHANGED vars
  <2>1. UNCHANGED <<alive, size, value, used, sealed, reused, drawn, cause, Filled, Spoiled>>
    BY <1>13 DEF vars, Filled, Spoiled
  <2> QED BY <2>1 DEF IInv, TypeOK, Origin, BasesNotShared, Behind, ReuseExplained
<1> QED BY <1>1, <1>2, <1>3, <1>4, <1>5, <1>6, <1>7, <1>8, <1>9, <1>10, <1>11, <1>12, <1>13,
           IncrementKeeps, MoveKeeps, EncryptFillingKeeps, BoxEncryptKeeps DEF Next

-----------------------------------------------------------------------------
LEMMA IInvAlways == Spec => []IInv
BY IInvInit, IInvStep, PTL DEF Spec

\* Every reachable state is well typed: objects hold contents of their own
\* width, and no base is in sight that was not drawn.
THEOREM NonceTypeCorrect == Spec => []TypeOK
<1>1. IInv => TypeOK
  BY DEF IInv
<1> QED BY <1>1, IInvAlways, PTL

\* A second ciphertext is produced under one key and nonce only after one of
\* the six named things has happened to its base; zero bytes given out once,
\* which is what a single Nonce(n) has, are guarded like a draw (encrypt's
\* check of used(), random_generate and increment clearing it, the moves).
THEOREM ReuseRefused == Spec => []ReuseExplained
<1>1. IInv => ReuseExplained
  BY DEF IInv
<1> QED BY <1>1, IInvAlways, PTL

\* The flag tells the truth: an object encrypt would accept carries a content
\* that was not used, unless its base is spoiled.
THEOREM FlagTruthful == Spec => []UnusedMeansUnsealed
<1>1. ASSUME IInv PROVE UnusedMeansUnsealed
  <2> SUFFICES ASSUME NEW o \in Filled, ~used[o], value[o].base \notin Spoiled,
                      NEW k \in Keys, <<k, value[o]>> \in sealed
               PROVE  FALSE
    BY DEF UnusedMeansUnsealed
  <2>1. value[o] \in Values /\ value[o].ctr \in Nat
    BY <1>1, SizeAssumption DEF IInv, TypeOK, Values, Filled
  <2>2. value[o].ctr < value[o].ctr \/ used[o]
    BY <1>1, <2>1 DEF IInv, Behind
  <2> QED BY <2>1, <2>2
<1> QED BY <1>1, IInvAlways, PTL

\* Two objects never count through the increments of one draw, or of zero
\* bytes, unless that base is spoiled.
THEOREM DrawsNotShared == Spec => []BasesNotShared
<1>1. IInv => BasesNotShared
  BY DEF IInv
<1> QED BY <1>1, IInvAlways, PTL
=============================================================================
