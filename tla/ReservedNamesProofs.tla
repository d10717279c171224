------------------------- MODULE ReservedNamesProofs -------------------------
(***************************************************************************)
(* What parseEnvVar computes, for every environment.  The loop over the    *)
(* entries is a recursive function; its value after n entries is found by  *)
(* looking at a least n for which the claim would fail.                    *)
(***************************************************************************)
EXTENDS AdmissionProofs, WellFoundedInduction

Good(val, n) == {i \in 1 .. n : Len(val[i]) = 3}

KeyOf(a)   == TrimSpace(a[1])
EntryOf(a) == [namespace |-> TrimSpace(a[2]), name |-> TrimSpace(a[3])]

\* the turns of parseEnvVar's loop over the first n entries
Turns(val, n, f) ==
    f = [i \in 0 .. n |-> IF i = 0 THEN EmptyMap ELSE AddEntry(val[i], f[i - 1])]

\* entry i is the last of the first n for the name x
LastFor(val, n, x, i) ==
    /\ i \in Good(val, n)
    /\ KeyOf(val[i]) = x
    /\ \A j \in Good(val, n) : KeyOf(val[j]) = x => j <= i

\* a map holds each name of the first n entries, with the last of its entries
ListedUpTo(val, n, names) ==
    /\ names = [x \in DOMAIN names |-> names[x]]
    /\ DOMAIN names = {KeyOf(val[i]) : i \in Good(val, n)}
    /\ \A x \in DOMAIN names : \E i : LastFor(val, n, x, i) /\ names[x] = EntryOf(val[i])

----------------------------------------------------------------------------

\* A set of natural numbers that is not empty has a least element.
LEMMA LeastNumber ==
    ASSUME NEW T \in SUBSET Nat, T # {}
    PROVE  \E x \in T : \A y \in T : x <= y
<1>1. PICK x \in T : \A y \in T : ~(<<y, x>> \in OpToRel(<, Nat))
  BY WFMin, NatLessThanWellFounded
<1>2. \A y \in T : ~(y < x)
  BY <1>1 DEF OpToRel
<1> QED
  BY <1>2

\* The loop of parseEnvVar has a value after any number of turns.
LEMMA TurnsExist ==
    ASSUME NEW val, NEW n \in Nat
    PROVE  \E f : Turns(val, n, f)
<1> DEFINE Failing == {k \in Nat : ~ \E f : Turns(val, k, f)}
<1> SUFFICES ASSUME Failing # {} PROVE FALSE
  OBVIOUS
<1>1. PICK k \in Failing : \A y \in Failing : k <= y
  BY LeastNumber
<1>2. CASE k = 0
  <2>1. Turns(val, 0, [i \in 0 .. 0 |-> EmptyMap])
    BY DEF Turns
  <2> QED
    BY <1>1, <1>2, <2>1
<1>3. CASE k # 0
  <2>1. k - 1 \in Nat /\ k - 1 \notin Failing
    BY <1>1, <1>3
  <2>2. PICK f : Turns(val, k - 1, f)
    BY <2>1
  <2> DEFINE g == [i \in 0 .. k |-> IF i = k THEN AddEntry(val[k], f[k - 1]) ELSE f[i]]
  <2>3. Turns(val, k, g)
    BY <1>1, <1>3, <2>1, <2>2 DEF Turns
  <2> QED
    BY <1>1, <2>3
<1> QED
  BY <1>2, <1>3

\* parseEnvVar returns the value of its loop after the last entry.
LEMMA ParseTurns ==
    ASSUME NEW val, Len(val) \in Nat
    PROVE  \E f : Turns(val, Len(val), f) /\ parseEnvVar(val) = f[Len(val)]
<1> DEFINE f == CHOOSE f : Turns(val, Len(val), f)
<1>1. Turns(val, Len(val), f)
  BY TurnsExist
<1>2. parseEnvVar(val) = f[Len(val)]
  BY DEF parseEnvVar, Turns
<1> QED
  BY <1>1, <1>2

\* What one turn makes of the map: the entry's name has the entry, the other
\* names have what they had; an entry without three fields changes nothing.
LEMMA AddEntryMap ==
    ASSUME NEW a, NEW names
    PROVE  /\ Len(a) # 3 => AddEntry(a, names) = names
           /\ Len(a) = 3 =>
                AddEntry(a, names) = [x \in DOMAIN names \cup {KeyOf(a)} |->
                                        IF x = KeyOf(a) THEN EntryOf(a) ELSE names[x]]
  BY DEF AddEntry, Put, KeyOf, EntryOf

\* One more turn keeps the map what the entries so far list.
LEMMA ListedTurn ==
    ASSUME NEW val, NEW n \in Nat, n # 0, NEW names, ListedUpTo(val, n - 1, names)
    PROVE  ListedUpTo(val, n, AddEntry(val[n], names))
<1> DEFINE new == AddEntry(val[n], names)
<1>1. CASE Len(val[n]) # 3
  <2>1. new = names
    BY <1>1, AddEntryMap
  <2>2. Good(val, n) = Good(val, n - 1)
    BY <1>1 DEF Good
  <2> QED
    BY <2>1, <2>2 DEF ListedUpTo, LastFor
<1>2. CASE Len(val[n]) = 3
  <2> DEFINE key == KeyOf(val[n])
  <2>1. new = [x \in DOMAIN names \cup {key} |-> IF x = key THEN EntryOf(val[n]) ELSE names[x]]
    BY <1>2, AddEntryMap
  <2>2. Good(val, n) = Good(val, n - 1) \cup {n}
    BY <1>2 DEF Good
  <2>3. \A i \in Good(val, n) : i <= n
    BY DEF Good
  <2> HIDE DEF new, key
  <2>4. new = [x \in DOMAIN new |-> new[x]]
    BY <2>1
  <2>5. DOMAIN new = {KeyOf(val[i]) : i \in Good(val, n)}
    BY <2>1, <2>2 DEF ListedUpTo, key
  <2>6. ASSUME NEW x \in DOMAIN new
        PROVE  \E i : LastFor(val, n, x, i) /\ new[x] = EntryOf(val[i])
    <3>1. CASE x = key
      <4>1. LastFor(val, n, x, n)
        BY <2>2, <2>3, <3>1 DEF LastFor, key
      <4> QED
        BY <2>1, <3>1, <4>1
    <3>2. CASE x # key
      <4>1. PICK i : LastFor(val, n - 1, x, i) /\ names[x] = EntryOf(val[i])
        BY <2>1, <2>6, <3>2 DEF ListedUpTo
      <4>2. LastFor(val, n, x, i)
        BY <2>2, <3>2, <4>1 DEF LastFor, key
      <4> QED
        BY <2>1, <2>6, <3>2, <4>1, <4>2
    <3> QED
      BY <3>1, <3>2
  <2> QED
    BY <2>4, <2>5, <2>6 DEF ListedUpTo, new
<1> QED
  BY <1>1, <1>2

\* After n turns the map is what the first n entries list.
LEMMA ListedAfterTurns ==
    ASSUME NEW val, NEW n \in Nat, NEW f, Turns(val, n, f)
    PROVE  \A i \in 0 .. n : ListedUpTo(val, i, f[i])
<1> DEFINE Failing == {i \in 0 .. n : ~ListedUpTo(val, i, f[i])}
<1> SUFFICES ASSUME Failing # {} PROVE FALSE
  OBVIOUS
<1>1. PICK k \in Failing : \A y \in Failing : k <= y
  <2>1. Failing \in SUBSET Nat
    OBVIOUS
  <2> HIDE DEF Failing
  <2> QED
    BY <2>1, LeastNumber
<1>2. CASE k = 0
  <2>1. f[0] = EmptyMap
    BY DEF Turns
  <2>2. Good(val, 0) = {}
    BY DEF Good
  <2>3. ListedUpTo(val, 0, EmptyMap)
    BY <2>2 DEF ListedUpTo, EmptyMap
  <2> QED
    BY <1>1, <1>2, <2>1, <2>3
<1>3. CASE k # 0
  <2>1. k \in Nat /\ k - 1 \in 0 .. n /\ k - 1 \notin Failing
    BY <1>1, <1>3
  <2>2. ListedUpTo(val, k - 1, f[k - 1])
    BY <2>1
  <2>3. f[k] = AddEntry(val[k], f[k - 1])
    BY <1>1, <1>3 DEF Turns
  <2>4. ListedUpTo(val, k, f[k])
    BY <1>3, <2>1, <2>2, <2>3, ListedTurn
  <2> QED
    BY <1>1, <2>4
<1> QED
  BY <1>2, <1>3

\* The reference has the same names and the same entries.
LEMMA ListedUnique ==
    ASSUME NEW val, Len(val) \in Nat, NEW names,
           ListedUpTo(val, Len(val), names)
    PROVE  names = Listed(val)
<1> DEFINE good    == {i \in 1 .. Len(val) : Len(val[i]) = 3}
           of(n)   == {i \in good : val[i][1].word = n.word}
           last(n) == CHOOSE i \in of(n) : \A j \in of(n) : j <= i
           keys    == {[word |-> val[i][1].word, padded |-> FALSE] : i \in good}
           entry(n) == [namespace |-> [word |-> val[last(n)][2].word, padded |-> FALSE],
                        name      |-> [word |-> val[last(n)][3].word, padded |-> FALSE]]
<1>1. Listed(val) = [n \in keys |-> entry(n)]
  BY DEF Listed
<1>2. good = Good(val, Len(val))
  BY DEF Good
<1>3. \A a : KeyOf(a) = [word |-> a[1].word, padded |-> FALSE]
  BY DEF KeyOf, TrimSpace
<1>4. keys = {KeyOf(val[i]) : i \in good}
  BY <1>3
<1>5. DOMAIN names = keys
  BY <1>2, <1>4 DEF ListedUpTo
<1>6. ASSUME NEW n \in keys
      PROVE  names[n] = entry(n)
  <2>1. PICK i : LastFor(val, Len(val), n, i) /\ names[n] = EntryOf(val[i])
    BY <1>5, <1>6 DEF ListedUpTo
  <2>2. i \in good
    BY <1>2, <2>1 DEF LastFor
  <2>3. n = [word |-> n.word, padded |-> FALSE]
    BY <1>6
  <2>4. ASSUME NEW j \in good
        PROVE  KeyOf(val[j]) = n <=> val[j][1].word = n.word
    <3>1. KeyOf(val[j]) = [word |-> val[j][1].word, padded |-> FALSE]
      BY <1>3
    <3>2. KeyOf(val[j]) = n => val[j][1].word = n.word
      BY <3>1
    <3>3. val[j][1].word = n.word => KeyOf(val[j]) = n
      BY <2>3, <3>1, Zenon
    <3> QED
      BY <3>2, <3>3
  <2>5. i \in of(n) /\ \A j \in of(n) : j <= i
    BY <1>2, <2>1, <2>2, <2>4 DEF LastFor
  <2>6. of(n) \in SUBSET Nat
    OBVIOUS
  <2>7. last(n) = i
    <3> HIDE DEF of
    <3> QED
      BY <2>5, <2>6
  <2>8. EntryOf(val[i]) = entry(n)
    BY <2>7 DEF EntryOf, TrimSpace
  <2> QED
    BY <2>1, <2>8
<1> HIDE DEF keys, entry
<1> QED
  BY <1>1, <1>5, <1>6 DEF ListedUpTo

\* parseEnvVar of a variable is what its reference lists.
LEMMA ParseIsListed ==
    ASSUME NEW val, Len(val) \in Nat
    PROVE  parseEnvVar(val) = Listed(val)
<1>1. PICK f : Turns(val, Len(val), f) /\ parseEnvVar(val) = f[Len(val)]
  BY ParseTurns
<1>2. ListedUpTo(val, Len(val), f[Len(val)])
  BY <1>1, ListedAfterTurns
<1> QED
  BY <1>1, <1>2, ListedUnique

\* The webhook and the driver work with the lists of their environments, for
\* every environment: blanks cut off, bad entries skipped, the last entry of a
\* name wins (parseEnvVar and SetupNameReservation).
THEOREM ReservationsAsListedHolds == Spec => []ReservationsAsListed
<1>1. ASSUME NEW env \in Envs
      PROVE  /\ SetupNameReservation(env).currentSecretNames = Listed(env["SharedSecret"])
             /\ SetupNameReservation(env).currentConfigMapNames = Listed(env["SharedConfigMap"])
  <2>1. ASSUME NEW k \in Kinds
        PROVE  parseEnvVar(env[k]) = Listed(env[k])
    BY AdmissionAssumption, ParseIsListed
  <2> QED
    BY <2>1 DEF SetupNameReservation, Kinds
<1>2. TypeOK => ReservationsAsListed
  BY <1>1 DEF TypeOK, ReservationsAsListed
<1> QED
  BY <1>2, AdmissionTypeOK, PTL
=============================================================================
