---------------------------- MODULE AccountsProofs ----------------------------
(***************************************************************************)
(* Proofs about Accounts, for any number of records and sessions, any      *)
(* names, challenges and points, and any bound on them.                    *)
(***************************************************************************)
EXTENDS Accounts, SequenceTheorems, FiniteSetTheorems, WellFoundedInduction, TLAPS

-----------------------------------------------------------------------------
(* Minima and sums.                                                         *)

(* A set of naturals that is not empty has a least element.                 *)
LEMMA LeastNatural ==
    ASSUME NEW T, T \subseteq Nat, T # {}
    PROVE  \E x \in T : \A y \in T : x <= y
<1> DEFINE R == OpToRel(<, Nat)
<1>1. IsWellFoundedOn(R, Nat)
    BY NatLessThanWellFounded
<1>2. \A x, y \in Nat : <<x, y>> \in R <=> x < y
    BY DEF OpToRel
<1> HIDE DEF R
<1>3. PICK x \in T : \A y \in T : ~(<<y, x>> \in R)
    BY <1>1, WFMin
<1>4. x \in Nat /\ \A y \in T : y \in Nat /\ ~(y < x)
    BY <1>2, <1>3
<1>5. \A y \in T : x <= y
    BY <1>4
<1> QED BY <1>5

(* Min of such a set is its least element.                                  *)
LEMMA MinOfSet ==
    ASSUME NEW T, T \subseteq Nat, T # {}
    PROVE  Min(T) \in T /\ \A y \in T : Min(T) <= y
BY LeastNatural DEF Min

(* A sum over a finite set counts units, w[x] of them for each element x:   *)
SumOver(w, T) == MapThenSumSet(LAMBDA x : w[x], T)
Units(w, T)   == UNION {{x} \X (1 .. w[x]) : x \in T}

(* they are finitely many, and an element less has its units less,          *)
LEMMA UnitsCount ==
    ASSUME NEW S, IsFiniteSet(S), NEW w \in [S -> Nat]
    PROVE  \A T \in SUBSET S :
             /\ IsFiniteSet(Units(w, T)) /\ Cardinality(Units(w, T)) \in Nat
             /\ \A x \in T : Cardinality(Units(w, T))
                               = Cardinality(Units(w, T \ {x})) + w[x]
<1>1. ASSUME NEW x \in S
      PROVE  IsFiniteSet({x} \X (1 .. w[x])) /\ Cardinality({x} \X (1 .. w[x])) = w[x]
  <2>1. w[x] \in Nat
      OBVIOUS
  <2>2. IsFiniteSet(1 .. w[x]) /\ Cardinality(1 .. w[x]) = w[x]
      BY <2>1, FS_Interval
  <2>3. IsFiniteSet({x}) /\ Cardinality({x}) = 1
      BY FS_Singleton
  <2>4. /\ IsFiniteSet({x} \X (1 .. w[x]))
        /\ Cardinality({x} \X (1 .. w[x])) = Cardinality({x}) * Cardinality(1 .. w[x])
      BY <2>2, <2>3, FS_Product
  <2> QED BY <2>1, <2>2, <2>3, <2>4
<1>2. ASSUME NEW T \in SUBSET S
      PROVE  IsFiniteSet(Units(w, T)) /\ Cardinality(Units(w, T)) \in Nat
  <2> DEFINE f == [x \in T |-> {x} \X (1 .. w[x])]
             U == {{x} \X (1 .. w[x]) : x \in T}
  <2>1. f \in Surjection(T, U)
      BY DEF Surjection
  <2>2. IsFiniteSet(U)
      BY <2>1, FS_Subset, FS_Surjection
  <2>3. \A V \in U : IsFiniteSet(V)
      BY <1>1
  <2> HIDE DEF U
  <2>4. IsFiniteSet(UNION U)
      BY <2>2, <2>3, FS_UNION
  <2> QED BY <2>4, FS_CardinalityType DEF Units, U
<1>3. ASSUME NEW T \in SUBSET S, NEW x \in T
      PROVE  Cardinality(Units(w, T)) = Cardinality(Units(w, T \ {x})) + w[x]
  <2> DEFINE A == Units(w, T \ {x})
             B == {x} \X (1 .. w[x])
  <2>1. Units(w, T) = A \cup B /\ A \cap B = {}
      BY DEF Units
  <2>2. IsFiniteSet(A) /\ IsFiniteSet(B) /\ Cardinality(B) = w[x] /\ w[x] \in Nat
        /\ Cardinality(A) \in Nat
      BY <1>1, <1>2
  <2> HIDE DEF A, B
  <2>3. Cardinality(A \cup B) = Cardinality(A) + Cardinality(B) - Cardinality(A \cap B)
      BY <2>2, FS_Union
  <2>4. Cardinality(A \cap B) = 0
      BY <2>1, FS_EmptySet
  <2> QED BY <2>1, <2>2, <2>3, <2>4 DEF A
<1> QED BY <1>2, <1>3

(* and MapThenSumSet, which takes one element after the other in the order  *)
(* CHOOSE gives, ends with their number.                                    *)
LEMMA SumCounts ==
    ASSUME NEW R, IsFiniteSet(R), NEW w \in [R -> Nat], NEW S \in SUBSET R
    PROVE  SumOver(w, S) = Cardinality(Units(w, S))
<1> DEFINE first(s) == CHOOSE x \in s : TRUE
           units(s) == Cardinality(Units(w, s))
           Rec(g) == [s \in SUBSET S |->
                        IF s = {} THEN 0 ELSE w[first(s)] + g[s \ {first(s)}]]
           iter == CHOOSE g : g = Rec(g)
           E == [s \in SUBSET S |-> units(s)]
<1>1. SumOver(w, S) = iter[S]
    BY DEF SumOver, MapThenSumSet, MapThenFoldSet
<1>2. \A s \in SUBSET S : s # {} => first(s) \in s /\ first(s) \in S /\ w[first(s)] \in Nat
    OBVIOUS
<1>3. units({}) = 0
  <2>1. Units(w, {}) = {}
      BY DEF Units
  <2> QED BY <2>1, FS_EmptySet
<1>4. \A s \in SUBSET S : units(s) \in Nat /\ \A x \in s : units(s) = units(s \ {x}) + w[x]
    BY UnitsCount
<1> HIDE DEF units, first
<1>5. E = Rec(E)
  <2>1. ASSUME NEW s \in SUBSET S
        PROVE  E[s] = IF s = {} THEN 0 ELSE w[first(s)] + E[s \ {first(s)}]
    <3>1. CASE s = {}
        BY <1>3, <3>1
    <3>2. CASE s # {}
      <4>1. first(s) \in s /\ w[first(s)] \in Nat /\ s \ {first(s)} \in SUBSET S
          BY <1>2, <3>2
      <4>2. units(s) = units(s \ {first(s)}) + w[first(s)] /\ units(s \ {first(s)}) \in Nat
          BY <1>4, <4>1
      <4> QED BY <3>2, <4>1, <4>2
    <3> QED BY <3>1, <3>2
  <2> QED BY <2>1
<1> HIDE DEF Rec
<1>6. iter = Rec(iter)
    BY <1>5
<1> HIDE DEF iter
<1> DEFINE N == {n \in Nat : \E s \in SUBSET S : iter[s] # units(s) /\ Cardinality(s) = n}
<1>7. \A s \in SUBSET S : IsFiniteSet(s) /\ Cardinality(s) \in Nat
    BY FS_Subset, FS_CardinalityType
<1>8. N = {}
  <2> SUFFICES ASSUME N # {} PROVE FALSE
      OBVIOUS
  <2>1. PICK n \in N : \A m \in N : n <= m
    <3>1. N \subseteq Nat
        OBVIOUS
    <3> HIDE DEF N
    <3> QED BY <3>1, LeastNatural
  <2>2. PICK s \in SUBSET S : iter[s] # units(s) /\ Cardinality(s) = n
      OBVIOUS
  <2>3. iter[s] = IF s = {} THEN 0 ELSE w[first(s)] + iter[s \ {first(s)}]
      BY <1>6 DEF Rec
  <2>4. s # {}
      BY <1>3, <2>2, <2>3
  <2>5. first(s) \in s /\ w[first(s)] \in Nat /\ s \ {first(s)} \in SUBSET S /\ IsFiniteSet(s)
      BY <1>2, <1>7, <2>4
  <2>6. Cardinality(s \ {first(s)}) = n - 1 /\ n - 1 \in Nat /\ n \in Nat
    <3>1. Cardinality(s \ {first(s)}) = Cardinality(s) - 1
        BY <2>5, FS_RemoveElement
    <3> QED BY <1>7, <2>2, <2>5, <3>1
  <2>7. iter[s \ {first(s)}] = units(s \ {first(s)})
    <3>1. n - 1 \notin N
        BY <2>1, <2>6
    <3> QED BY <2>5, <2>6, <3>1
  <2>8. units(s) = units(s \ {first(s)}) + w[first(s)] /\ units(s \ {first(s)}) \in Nat
      BY <1>4, <2>5
  <2> QED BY <2>2, <2>3, <2>4, <2>5, <2>7, <2>8
<1> QED BY <1>1, <1>7, <1>8 DEF units

(* The sum over a set, and that over what is left without x.                *)
LEMMA SumRemove ==
    ASSUME NEW S, IsFiniteSet(S), NEW w \in [S -> Nat], NEW T \in SUBSET S
    PROVE  /\ SumOver(w, T) \in Nat
           /\ SumOver(w, {}) = 0
           /\ \A x \in T : SumOver(w, T) = SumOver(w, T \ {x}) + w[x]
<1>1. \A U \in SUBSET S : SumOver(w, U) = Cardinality(Units(w, U))
    BY SumCounts
<1>2. Units(w, {}) = {}
    BY DEF Units
<1>3. \A x \in T : T \ {x} \in SUBSET S
    OBVIOUS
<1> QED BY <1>1, <1>2, <1>3, UnitsCount, FS_EmptySet

-----------------------------------------------------------------------------
(* The records, as a finite set.                                            *)

(* The records are finitely many.                                           *)
LEMMA IdsFinite ==
    /\ IsFiniteSet(Ids) /\ Cardinality(Ids) = UserPool
    /\ Guest \notin Ids /\ NoUid \notin Ids /\ NoUid # Guest
    /\ Ids \subseteq Nat
BY AccountsAssumption, FS_Interval DEF Ids, Guest, NoUid

(* The first of some records is one of them.                                *)
LEMMA FirstIsIn ==
    ASSUME NEW S, S \subseteq Ids, S # {}
    PROVE  First(S) \in S
BY MinOfSet, IdsFinite DEF First

(* The sum of a list's worth, and of a list that has one challenge more.    *)
LEMMA WorthOfAppend ==
    ASSUME NEW q \in Seq(Challenges)
    PROVE  /\ SumOfWorth(<<>>) = 0 /\ SumOfWorth(q) \in Nat
           /\ \A ch \in Challenges : SumOfWorth(Append(q, ch)) = SumOfWorth(q) + Worth[ch]
<1> DEFINE w(s) == [i \in DOMAIN s |-> Worth[s[i]]]
<1>1. \A s : SumOfWorth(s) = SumOver(w(s), DOMAIN s)
    BY DEF SumOfWorth, SumOver
<1>2. \A s \in Seq(Challenges) : IsFiniteSet(DOMAIN s) /\ w(s) \in [DOMAIN s -> Nat]
  <2> SUFFICES ASSUME NEW s \in Seq(Challenges)
               PROVE  IsFiniteSet(DOMAIN s) /\ w(s) \in [DOMAIN s -> Nat]
      OBVIOUS
  <2>1. Len(s) \in Nat /\ DOMAIN s = 1 .. Len(s) /\ \A i \in 1 .. Len(s) : s[i] \in Challenges
      BY LenProperties, ElementOfSeq
  <2>2. IsFiniteSet(DOMAIN s)
      BY <2>1, FS_Interval
  <2> QED BY <2>1, <2>2, AccountsAssumption
<1>3. SumOfWorth(<<>>) = 0
  <2>1. DOMAIN <<>> = {} /\ <<>> \in Seq(Challenges)
      OBVIOUS
  <2> HIDE DEF w
  <2> QED BY <1>1, <1>2, <2>1, SumRemove
<1>4. SumOfWorth(q) \in Nat
  <2> HIDE DEF w
  <2> QED BY <1>1, <1>2, SumRemove
<1>5. ASSUME NEW ch \in Challenges
      PROVE  SumOfWorth(Append(q, ch)) = SumOfWorth(q) + Worth[ch]
  <2> DEFINE r == Append(q, ch)
             n == Len(q) + 1
  <2>1. /\ r \in Seq(Challenges) /\ Len(q) \in Nat
        /\ DOMAIN q = 1 .. Len(q) /\ DOMAIN r = 1 .. n
        /\ \A i \in 1 .. Len(q) : r[i] = q[i]
        /\ r[n] = ch
      BY AppendProperties, LenProperties
  <2> HIDE DEF r
  <2>2. n \in DOMAIN r /\ (DOMAIN r) \ {n} = DOMAIN q /\ w(r)[n] = Worth[ch]
      BY <2>1
  <2>3. \A i \in DOMAIN q : w(r)[i] = w(q)[i]
      BY <2>1
  <2> HIDE DEF w
  <2>4. SumOver(w(r), DOMAIN r) = SumOver(w(r), DOMAIN q) + Worth[ch]
    <3>1. IsFiniteSet(DOMAIN r) /\ w(r) \in [DOMAIN r -> Nat] /\ DOMAIN r \in SUBSET DOMAIN r
        BY <1>2, <2>1
    <3>2. \A x \in DOMAIN r :
            SumOver(w(r), DOMAIN r) = SumOver(w(r), (DOMAIN r) \ {x}) + w(r)[x]
        BY <3>1, SumRemove
    <3> QED BY <2>2, <3>2
  <2>5. SumOver(w(r), DOMAIN q) = SumOver(w(q), DOMAIN q)
    <3>1. DOMAIN q \in SUBSET DOMAIN q /\ DOMAIN q \in SUBSET DOMAIN r
        BY <2>2
    <3>2. /\ IsFiniteSet(DOMAIN r) /\ w(r) \in [DOMAIN r -> Nat]
          /\ IsFiniteSet(DOMAIN q) /\ w(q) \in [DOMAIN q -> Nat]
        BY <1>2, <2>1
    <3>3. /\ SumOver(w(r), DOMAIN q) = Cardinality(Units(w(r), DOMAIN q))
          /\ SumOver(w(q), DOMAIN q) = Cardinality(Units(w(q), DOMAIN q))
        BY <3>1, <3>2, SumCounts
    <3>4. Units(w(r), DOMAIN q) = Units(w(q), DOMAIN q)
        BY <2>3 DEF Units
    <3> QED BY <3>3, <3>4
  <2> QED BY <1>1, <2>4, <2>5 DEF r
<1> QED BY <1>3, <1>4, <1>5

-----------------------------------------------------------------------------
(* Types.  That the header's count stays within the pool is because it      *)
(* counts the active records: the two are proved together.                  *)

AccountsInv == TypeOK /\ CountIsActive

(* The kinds of steps, as the changes they make to the pool of records.     *)
Registers(n, p, i) ==
    /\ Named(n) = {} /\ i \in Ids \ Active /\ lives < MaxLives
    /\ users' = [users EXCEPT ![i] = NewAccount(n, p)]
    /\ count' = count + 1 /\ lives' = lives + 1

Unregisters(i) ==
    /\ i \in Active /\ CameFrom(i)
    /\ users' = [users EXCEPT ![i].active = FALSE]
    /\ count' = IF count > 0 THEN count - 1 ELSE 0
    /\ UNCHANGED lives

Edits(i, d) ==
    /\ i \in Active /\ CameFrom(i)
    /\ users' = [users EXCEPT ![i].desc = d]
    /\ UNCHANGED <<count, lives>>

Credits(i, ch) ==
    /\ i \in Active /\ CameFrom(i) /\ users[i].points + Worth[ch] <= MaxPoints
    /\ users' = [users EXCEPT ![i] = Credit(@, ch)]
    /\ UNCHANGED <<count, lives>>

(* The session of a cookie is a session's.                                  *)
LEMMA SessionOf ==
    ASSUME NEW s, SessionUser(s) \in Ids
    PROVE  s \in Sids /\ sessions[s] = SessionUser(s)
BY IdsFinite DEF SessionUser

(* A request answered for the user of its session came from there.          *)
LEMMA SessionCame ==
    ASSUME NEW s, SessionUser(s) \in Ids, Answer(200, SessionUser(s))
    PROVE  CameFrom(SessionUser(s))
BY SessionOf DEF Answer, CameFrom

(* Every request registers, deletes, edits or credits one account, or       *)
(* leaves all of them alone.                                                *)
LEMMA PoolSteps ==
    ASSUME [Next]_vars
    PROVE  \/ \E n \in Names, p \in Passwords, i \in Ids : Registers(n, p, i)
           \/ \E i \in Ids : Unregisters(i)
           \/ \E i \in Ids, d \in Descriptions : Edits(i, d)
           \/ \E i \in Ids, ch \in Challenges : Credits(i, ch)
           \/ UNCHANGED <<users, count, lives>>
<1>1. ASSUME NEW n \in Names, NEW p \in Passwords, AuthRegister(n, p)
      PROVE  (\E i \in Ids : Registers(n, p, i)) \/ UNCHANGED <<users, count, lives>>
  <2>1. Active \subseteq Ids
      BY DEF Active
  <2>2. Active # Ids => First(Ids \ Active) \in Ids \ Active
      BY <2>1, FirstIsIn
  <2> QED BY <1>1, <2>2 DEF AuthRegister, Registers
<1>2. ASSUME NEW s \in Cookies, UserDelete(s)
      PROVE  (\E i \in Ids : Unregisters(i)) \/ UNCHANGED <<users, count, lives>>
    BY <1>2, SessionCame DEF UserDelete, Unregisters
<1>3. ASSUME NEW s \in Cookies, NEW d \in Descriptions, UserProfileUpdate(s, d)
      PROVE  (\E i \in Ids : Edits(i, d)) \/ UNCHANGED <<users, count, lives>>
    BY <1>3, SessionCame DEF UserProfileUpdate, Edits, Active
<1>4. ASSUME NEW s \in Cookies, NEW ch \in Challenges, NEW earned, ChallengeVerify(s, ch, earned)
      PROVE  (\E i \in Ids : Credits(i, ch)) \/ UNCHANGED <<users, count, lives>>
    BY <1>4, SessionCame DEF ChallengeVerify, Credits, Active
<1> QED BY <1>1, <1>2, <1>3, <1>4
        DEF Next, vars, Rejects, AuthGuest, ShowLeaderboard, AuthLogin, PublicProfile,
            UserProfile, UserStats

(* What a challenge credits is recorded as an account.                      *)
LEMMA CreditTyped ==
    ASSUME NEW a \in Accounts, NEW ch \in Challenges, a.points + Worth[ch] <= MaxPoints
    PROVE  /\ Credit(a, ch) \in Accounts
           /\ Credit(a, ch).active = a.active /\ Credit(a, ch).life = a.life
           /\ Credit(a, ch).name = a.name /\ Credit(a, ch).asked = a.asked
           /\ Credit(a, ch).pass = a.pass
           /\ Credit(a, ch).points = a.points + Worth[ch]
           /\ Credit(a, ch).done =
                IF Len(a.done) < MaxDone /\ \A i \in DOMAIN a.done : a.done[i] # ch
                  THEN Append(a.done, ch) ELSE a.done
<1> DEFINE d == IF Len(a.done) < MaxDone /\ \A i \in DOMAIN a.done : a.done[i] # ch
                  THEN Append(a.done, ch) ELSE a.done
<1>1. /\ a.points \in 0 .. MaxPoints /\ Worth[ch] \in Nat
      /\ a.done \in Seq(Challenges)
    BY AccountsAssumption DEF Accounts
<1>2. a.points + Worth[ch] \in 0 .. MaxPoints
    BY <1>1, AccountsAssumption
<1>3. Append(a.done, ch) \in Seq(Challenges)
    BY <1>1, AppendProperties
<1>4. d \in Seq(Challenges)
    BY <1>1, <1>3
<1>5. Credit(a, ch) = [a EXCEPT !.points = a.points + Worth[ch], !.done = d]
    BY DEF Credit
<1> HIDE DEF d
<1>6. /\ Credit(a, ch) \in Accounts
      /\ Credit(a, ch).active = a.active /\ Credit(a, ch).life = a.life
      /\ Credit(a, ch).name = a.name /\ Credit(a, ch).asked = a.asked
      /\ Credit(a, ch).pass = a.pass
      /\ Credit(a, ch).points = a.points + Worth[ch]
      /\ Credit(a, ch).done = d
    BY <1>2, <1>4, <1>5 DEF Accounts
<1> QED BY <1>6 DEF d

(* A new account is one,                                                    *)
LEMMA NewTyped ==
    ASSUME TypeOK, lives < MaxLives, NEW n \in Names, NEW p \in Passwords
    PROVE  NewAccount(n, p) \in Accounts
<1>1. lives + 1 \in 0 .. MaxLives /\ 0 \in 0 .. MaxPoints
    BY AccountsAssumption DEF TypeOK
<1>2. Stored[n] \in Names /\ NoDescription \in Descriptions /\ <<>> \in Seq(Challenges)
    BY AccountsAssumption
<1> QED BY <1>1, <1>2 DEF NewAccount, Accounts

(* and so is what is in the pool before.                                    *)
LEMMA UnbornTyped == Unborn \in Accounts
<1>1. SomeName \in Names /\ (CHOOSE p \in Passwords : TRUE) \in Passwords
    BY AccountsAssumption DEF SomeName
<1>2. 0 \in 0 .. MaxPoints /\ 0 \in 0 .. MaxLives /\ <<>> \in Seq(Challenges)
      /\ NoDescription \in Descriptions
    BY AccountsAssumption
<1> QED BY <1>1, <1>2 DEF Unborn, Accounts

(* The pool stays typed.                                                    *)
LEMMA UsersStep ==
    ASSUME TypeOK, [Next]_vars
    PROVE  users' \in [Ids -> Accounts] /\ lives' \in 0 .. MaxLives
<1>1. users \in [Ids -> Accounts] /\ lives \in 0 .. MaxLives /\ Active \subseteq Ids
    BY DEF TypeOK, Active
<1>2. ASSUME NEW n \in Names, NEW p \in Passwords, NEW i \in Ids, Registers(n, p, i)
      PROVE  users' \in [Ids -> Accounts] /\ lives' \in 0 .. MaxLives
  <2>1. lives' \in 0 .. MaxLives
      BY <1>1, <1>2, AccountsAssumption DEF Registers
  <2> QED BY <1>1, <1>2, <2>1, NewTyped DEF Registers
<1>3. ASSUME NEW i \in Ids, Unregisters(i)
      PROVE  users' \in [Ids -> Accounts] /\ lives' \in 0 .. MaxLives
    BY <1>1, <1>3 DEF Unregisters, Accounts
<1>4. ASSUME NEW i \in Ids, NEW d \in Descriptions, Edits(i, d)
      PROVE  users' \in [Ids -> Accounts] /\ lives' \in 0 .. MaxLives
    BY <1>1, <1>4 DEF Edits, Accounts
<1>5. ASSUME NEW i \in Ids, NEW ch \in Challenges, Credits(i, ch)
      PROVE  users' \in [Ids -> Accounts] /\ lives' \in 0 .. MaxLives
  <2>1. Credit(users[i], ch) \in Accounts
      BY <1>1, <1>5, CreditTyped DEF Credits
  <2> QED BY <1>1, <1>5, <2>1 DEF Credits
<1> QED BY <1>1, <1>2, <1>3, <1>4, <1>5, PoolSteps

(* The header counts the active records.                                    *)
LEMMA CountStep ==
    ASSUME AccountsInv, [Next]_vars
    PROVE  CountIsActive' /\ count' \in 0 .. UserPool
<1>1. /\ users \in [Ids -> Accounts] /\ Active \subseteq Ids /\ IsFiniteSet(Active)
      /\ count = Cardinality(Active)
    BY IdsFinite, FS_Subset DEF AccountsInv, TypeOK, Active, CountIsActive
<1>2. users' \in [Ids -> Accounts]
    BY UsersStep DEF AccountsInv
<1>3. Active' \subseteq Ids
    BY DEF Active
<1>4. ASSUME NEW n \in Names, NEW p \in Passwords, NEW i \in Ids, Registers(n, p, i)
      PROVE  CountIsActive'
  <2>1. i \notin Active /\ Active' = Active \cup {i}
      BY <1>1, <1>4 DEF Registers, NewAccount, Active
  <2>2. Cardinality(Active') = Cardinality(Active) + 1
      BY <1>1, <2>1, FS_AddElement
  <2> QED BY <1>1, <1>4, <2>2 DEF Registers, CountIsActive
<1>5. ASSUME NEW i \in Ids, Unregisters(i)
      PROVE  CountIsActive'
  <2>1. i \in Active /\ Active' = Active \ {i}
      BY <1>1, <1>5 DEF Unregisters, Active, Accounts
  <2>2. Cardinality(Active') = Cardinality(Active) - 1 /\ Cardinality(Active') \in Nat
      BY <1>1, <2>1, FS_RemoveElement, FS_CardinalityType
  <2>3. Cardinality(Active) \in Nat
      BY <1>1, FS_CardinalityType
  <2> QED BY <1>1, <1>5, <2>2, <2>3 DEF Unregisters, CountIsActive
<1>6. ASSUME NEW i \in Ids, NEW d \in Descriptions, Edits(i, d)
      PROVE  CountIsActive'
  <2>1. Active' = Active
      BY <1>1, <1>6 DEF Edits, Active, Accounts
  <2> QED BY <1>1, <1>6, <2>1 DEF Edits, CountIsActive
<1>7. ASSUME NEW i \in Ids, NEW ch \in Challenges, Credits(i, ch)
      PROVE  CountIsActive'
  <2>1. Credit(users[i], ch).active = users[i].active
      BY <1>1, <1>7, CreditTyped DEF Credits
  <2>2. Active' = Active
      BY <1>1, <1>7, <2>1 DEF Credits, Active
  <2> QED BY <1>1, <1>7, <2>2 DEF Credits, CountIsActive
<1>8. ASSUME UNCHANGED <<users, count, lives>>
      PROVE  CountIsActive'
    BY <1>1, <1>8 DEF Active, CountIsActive
<1>9. CountIsActive'
    BY <1>4, <1>5, <1>6, <1>7, <1>8, PoolSteps
<1>10. Cardinality(Active') \in Nat /\ Cardinality(Active') <= UserPool
    BY <1>3, IdsFinite, FS_Subset, FS_CardinalityType
<1>11. count' = Cardinality(Active')
    BY <1>9 DEF CountIsActive
<1>12. count' \in 0 .. UserPool
    BY <1>10, <1>11, AccountsAssumption
<1> QED BY <1>9, <1>12

(* The sessions and the answer stay typed.                                  *)
LEMMA SessionsStep ==
    ASSUME TypeOK, [Next]_vars
    PROVE  /\ sessions' \in [Sids -> {NoUid, Guest} \cup Ids]
           /\ issued' \in [Sids -> 0 .. MaxLives]
           /\ reply' \in [status : {0, 200, 400, 401, 404, 405, 409},
                          cookie : Cookies, user : {NoUid, Guest} \cup Ids]
<1> USE DEF TypeOK
<1> DEFINE U == {NoUid, Guest} \cup Ids
           Typed == /\ sessions' \in [Sids -> U]
                    /\ issued' \in [Sids -> 0 .. MaxLives]
                    /\ reply' \in [status : {0, 200, 400, 401, 404, 405, 409},
                                   cookie : Cookies, user : U]
<1>1. ASSUME NEW status \in {200, 400, 401, 404, 405, 409}, NEW u \in U,
             Answer(status, u), UNCHANGED <<sessions, issued>>
      PROVE  Typed
    BY <1>1 DEF Answer, Cookies
<1>2. ASSUME NEW u \in U, NEW life \in 0 .. MaxLives, LogIn(u, life)
      PROVE  Typed
  <2>1. reply' \in [status : {0, 200, 400, 401, 404, 405, 409}, cookie : Cookies, user : U]
      BY <1>2 DEF LogIn, Free, Cookies
  <2> QED BY <1>2, <2>1 DEF LogIn, Free, Store!Create
<1>3. \A s : SessionUser(s) \in U
    BY DEF SessionUser
<1>4. \A S : S \subseteq Ids /\ S # {} => First(S) \in S
    BY FirstIsIn
<1>5. Active \subseteq Ids /\ \A n : Named(n) \subseteq Ids
    BY DEF Active, Named
<1>6. 0 \in 0 .. MaxLives
    BY AccountsAssumption
<1> HIDE DEF Typed
<1>7. ASSUME NEW n \in Names, NEW p \in Passwords, AuthRegister(n, p)
      PROVE  Typed
  <2>1. CASE Answer(409, NoUid) /\ UNCHANGED <<sessions, issued>>
      BY <1>1, <2>1
  <2>2. CASE Active # Ids /\ lives < MaxLives /\ LogIn(First(Ids \ Active), lives + 1)
    <3>1. First(Ids \ Active) \in U
        BY <1>4, <1>5, <2>2
    <3>2. lives + 1 \in 0 .. MaxLives
        BY <2>2, AccountsAssumption
    <3> QED BY <1>2, <2>2, <3>1, <3>2
  <2> QED BY <1>7, <2>1, <2>2 DEF AuthRegister
<1>8. ASSUME NEW n \in Names, NEW p \in Passwords, AuthLogin(n, p)
      PROVE  Typed
  <2>1. CASE Answer(401, NoUid) /\ UNCHANGED <<sessions, issued>>
      BY <1>1, <2>1
  <2>2. CASE Knows(n, p) /\ LogIn(First(Named(n)), users[First(Named(n))].life)
    <3>1. First(Named(n)) \in Ids
        BY <1>4, <1>5, <2>2 DEF Knows
    <3>2. users[First(Named(n))].life \in 0 .. MaxLives
        BY <3>1 DEF Accounts
    <3> QED BY <1>2, <2>2, <3>1, <3>2
  <2> QED BY <1>8, <2>1, <2>2 DEF AuthLogin
<1>9. ASSUME NEW n \in Names, PublicProfile(n)
      PROVE  Typed
  <2>1. Named(n) # {} => First(Named(n)) \in U
      BY <1>4, <1>5
  <2> QED BY <1>1, <1>9, <2>1 DEF PublicProfile
<1>10. ASSUME AuthGuest PROVE Typed
    BY <1>2, <1>6, <1>10 DEF AuthGuest
<1>11. ASSUME Rejects \/ ShowLeaderboard PROVE Typed
    BY <1>1, <1>11 DEF Rejects, ShowLeaderboard
<1>12. ASSUME NEW s \in Cookies, UserProfile(s) \/ UserStats(s) \/ UserDelete(s)
       PROVE  Typed
  <2>1. SessionUser(s) \in U /\ (IF SessionUser(s) \in Active THEN SessionUser(s) ELSE NoUid) \in U
      BY <1>3
  <2>2. CASE UserProfile(s)
      BY <1>1, <2>1, <2>2 DEF UserProfile
  <2>3. CASE UserStats(s)
    <3> DEFINE x == IF SessionUser(s) \in Active THEN SessionUser(s) ELSE NoUid
    <3>1. Answer(200, x) /\ UNCHANGED <<sessions, issued>>
        BY <2>3 DEF UserStats
    <3>2. x \in U
        BY <2>1
    <3> HIDE DEF x
    <3> QED BY <1>1, <3>1, <3>2
  <2>4. CASE UserDelete(s)
      BY <1>1, <2>1, <2>4 DEF UserDelete
  <2> QED BY <1>12, <2>2, <2>3, <2>4
<1>13. ASSUME NEW s \in Cookies, NEW d, UserProfileUpdate(s, d)
       PROVE  Typed
    BY <1>1, <1>3, <1>5, <1>13 DEF UserProfileUpdate
<1>14. ASSUME NEW s \in Cookies, NEW ch, NEW earned, ChallengeVerify(s, ch, earned)
       PROVE  Typed
    BY <1>1, <1>3, <1>14 DEF ChallengeVerify
<1>15. ASSUME UNCHANGED vars PROVE Typed
    BY <1>15 DEF vars, Typed
<1>16. Typed
    BY <1>7, <1>8, <1>9, <1>10, <1>11, <1>12, <1>13, <1>14, <1>15 DEF Next
<1> QED BY <1>16 DEF Typed

(* A server that has just made its files has no accounts to count.          *)
LEMMA AccountsInit == Init => AccountsInv
<1> SUFFICES ASSUME Init PROVE AccountsInv
    OBVIOUS
<1>1. users = [i \in Ids |-> Unborn] /\ count = 0 /\ lives = 0
    BY DEF Init
<1>2. Active = {}
    BY <1>1 DEF Active, Unborn
<1>3. CountIsActive
    BY <1>1, <1>2, FS_EmptySet DEF CountIsActive
<1>4. 0 \in 0 .. MaxLives /\ 0 \in 0 .. UserPool
    BY AccountsAssumption
<1>5. TypeOK
    BY <1>1, <1>4, UnbornTyped DEF Init, Store!Init, NoReply, TypeOK, Cookies
<1> QED BY <1>3, <1>5 DEF AccountsInv

(* Types and the header's count are inductive together.                     *)
LEMMA AccountsStep == AccountsInv /\ [Next]_vars => AccountsInv'
BY UsersStep, CountStep, SessionsStep DEF AccountsInv, TypeOK

(* Users, sessions and answers always have their types.                     *)
THEOREM AccountsTyped == Spec => []TypeOK
<1>1. AccountsInv => TypeOK
    BY DEF AccountsInv
<1> QED BY <1>1, AccountsInit, AccountsStep, PTL DEF Spec

(* hdr.count is the number of active accounts, over any series of           *)
(* registrations and deletions, repeated ones too.                          *)
THEOREM CountIsExact == Spec => []CountIsActive
<1>1. AccountsInv => CountIsActive
    BY DEF AccountsInv
<1> QED BY <1>1, AccountsInit, AccountsStep, PTL DEF Spec

-----------------------------------------------------------------------------
(* Challenges are paid before they are recorded, and recorded once.         *)

CreditInv == AccountsInv /\ RecordsAreCredited

(* What RecordsAreCredited says of one account.                             *)
IsCredited(a) ==
    /\ Len(a.done) <= MaxDone
    /\ \A j, k \in DOMAIN a.done : a.done[j] = a.done[k] => j = k
    /\ a.points >= SumOfWorth(a.done)

(* cg_router_challenge_verify keeps it, whatever was recorded before.       *)
LEMMA CreditPays ==
    ASSUME NEW a \in Accounts, IsCredited(a),
           NEW ch \in Challenges, a.points + Worth[ch] <= MaxPoints
    PROVE  IsCredited(Credit(a, ch))
<1> DEFINE b == Credit(a, ch)
<1>1. /\ b.points = a.points + Worth[ch]
      /\ b.done = IF Len(a.done) < MaxDone /\ \A i \in DOMAIN a.done : a.done[i] # ch
                    THEN Append(a.done, ch) ELSE a.done
    BY CreditTyped
<1>2. /\ a.points \in Nat /\ Worth[ch] \in Nat /\ MaxDone \in Nat
      /\ a.done \in Seq(Challenges) /\ Len(a.done) \in Nat
      /\ DOMAIN a.done = 1 .. Len(a.done)
    BY AccountsAssumption, LenProperties DEF Accounts
<1>3. SumOfWorth(a.done) \in Nat
    BY <1>2, WorthOfAppend
<1> HIDE DEF b
<1>4. CASE Len(a.done) < MaxDone /\ \A i \in DOMAIN a.done : a.done[i] # ch
  <2> DEFINE r == Append(a.done, ch)
  <2>1. /\ Len(r) = Len(a.done) + 1 /\ DOMAIN r = 1 .. (Len(a.done) + 1)
        /\ \A i \in 1 .. Len(a.done) : r[i] = a.done[i]
        /\ r[Len(a.done) + 1] = ch
      BY <1>2, AppendProperties
  <2>2. SumOfWorth(r) = SumOfWorth(a.done) + Worth[ch]
      BY <1>2, WorthOfAppend
  <2> HIDE DEF r
  <2>3. Len(r) <= MaxDone
      BY <1>2, <1>4, <2>1
  <2>4. \A j, k \in DOMAIN r : r[j] = r[k] => j = k
      BY <1>2, <1>4, <2>1 DEF IsCredited
  <2>5. b.points >= SumOfWorth(r)
      BY <1>1, <1>2, <1>3, <2>2 DEF IsCredited
  <2>6. b.done = r
      BY <1>1, <1>4 DEF r
  <2> QED BY <2>3, <2>4, <2>5, <2>6 DEF IsCredited, b
<1>5. CASE ~(Len(a.done) < MaxDone /\ \A i \in DOMAIN a.done : a.done[i] # ch)
  <2>1. b.done = a.done
      BY <1>1, <1>5
  <2>2. b.points >= SumOfWorth(b.done)
      BY <1>1, <1>2, <1>3, <2>1 DEF IsCredited
  <2> QED BY <2>1, <2>2 DEF IsCredited, b
<1> QED BY <1>4, <1>5

(* Every step keeps the invariant of the challenges that are paid for.      *)
LEMMA CreditStep == CreditInv /\ [Next]_vars => CreditInv'
<1> SUFFICES ASSUME CreditInv, [Next]_vars
             PROVE  \A j \in Active' : IsCredited(users'[j])
    BY AccountsStep DEF CreditInv, RecordsAreCredited, IsCredited
<1>1. /\ users \in [Ids -> Accounts] /\ Active \subseteq Ids /\ Active' \subseteq Ids
      /\ \A j \in Active : IsCredited(users[j])
    BY DEF CreditInv, AccountsInv, TypeOK, Active, RecordsAreCredited, IsCredited
<1>2. ASSUME NEW n \in Names, NEW p \in Passwords, NEW i \in Ids, Registers(n, p, i),
             NEW j \in Active'
      PROVE  IsCredited(users'[j])
  <2>1. CASE j = i
    <3>1. users'[j].done = <<>> /\ users'[j].points = 0
        BY <1>1, <1>2, <2>1 DEF Registers, NewAccount
    <3>2. SumOfWorth(<<>>) = 0
      <4>1. <<>> \in Seq(Challenges)
          OBVIOUS
      <4> QED BY <4>1, WorthOfAppend
    <3>3. Len(<<>>) = 0 /\ DOMAIN <<>> = {}
        OBVIOUS
    <3> QED BY <3>1, <3>2, <3>3, AccountsAssumption DEF IsCredited
  <2>2. CASE j # i
    <3>1. users'[j] = users[j] /\ j \in Active
        BY <1>1, <1>2, <2>2 DEF Registers, Active
    <3> QED BY <1>1, <3>1
  <2> QED BY <2>1, <2>2
<1>3. ASSUME NEW i \in Ids, NEW d, Unregisters(i) \/ Edits(i, d), NEW j \in Active'
      PROVE  IsCredited(users'[j])
  <2>1. CASE Unregisters(i)
    <3>1. users' = [users EXCEPT ![i].active = FALSE]
        BY <2>1 DEF Unregisters
    <3>2. users'[j].done = users[j].done /\ users'[j].points = users[j].points /\ j \in Active
        BY <1>1, <1>3, <3>1 DEF Active, Accounts
    <3> QED BY <1>1, <3>2 DEF IsCredited
  <2>2. CASE Edits(i, d)
    <3>1. users' = [users EXCEPT ![i].desc = d]
        BY <2>2 DEF Edits
    <3>2. users'[j].done = users[j].done /\ users'[j].points = users[j].points /\ j \in Active
        BY <1>1, <1>3, <3>1 DEF Active, Accounts
    <3> QED BY <1>1, <3>2 DEF IsCredited
  <2> QED BY <1>3, <2>1, <2>2
<1>4. ASSUME NEW i \in Ids, NEW ch \in Challenges, Credits(i, ch), NEW j \in Active'
      PROVE  IsCredited(users'[j])
  <2>1. CASE j = i
    <3>1. users'[j] = Credit(users[i], ch)
        BY <1>1, <1>4, <2>1 DEF Credits
    <3> QED BY <1>1, <1>4, <3>1, CreditPays DEF Credits
  <2>2. CASE j # i
    <3>1. users'[j] = users[j] /\ j \in Active
        BY <1>1, <1>4, <2>2 DEF Credits, Active
    <3> QED BY <1>1, <3>1
  <2> QED BY <2>1, <2>2
<1>5. CASE UNCHANGED <<users, count, lives>>
    BY <1>1, <1>5 DEF Active
<1> QED BY <1>2, <1>3, <1>4, <1>5, PoolSteps

(* A challenge is recorded at most once per account, and never without its  *)
(* points having been credited to the same account.                         *)
THEOREM ChallengesArePaid == Spec => []RecordsAreCredited
<1>1. Init => CreditInv
  <2>1. Init => RecordsAreCredited
      BY DEF Init, RecordsAreCredited, Active, Unborn
  <2> QED BY <2>1, AccountsInit DEF CreditInv
<1>2. CreditInv => RecordsAreCredited
    BY DEF CreditInv
<1> QED BY <1>1, <1>2, CreditStep, PTL DEF Spec

-----------------------------------------------------------------------------
(* Names.  cg_userdb_create looks for the whole name and keeps the part     *)
(* that fits.  A registration comes after those of all accounts there are,  *)
(* and nobody is registered with the name of one of them.                   *)

NamesInv == NamesAskedApart /\ \A i \in Active : users[i].life <= lives

(* Every step keeps it.                                                     *)
LEMMA NamesStep == AccountsInv /\ NamesInv /\ [Next]_vars => NamesInv'
<1> SUFFICES ASSUME AccountsInv, NamesInv, [Next]_vars
             PROVE  NamesInv'
    OBVIOUS
<1>1. /\ users \in [Ids -> Accounts] /\ Active \subseteq Ids /\ Active' \subseteq Ids
      /\ \A i, j \in Active : users[i].life < users[j].life => users[j].asked # users[i].name
      /\ \A i \in Active : users[i].life <= lives
      /\ lives \in Nat /\ \A i \in Ids : users[i].life \in Nat
    BY AccountsAssumption DEF AccountsInv, TypeOK, Accounts, Active, NamesInv, NamesAskedApart
<1>2. ASSUME NEW n \in Names, NEW p \in Passwords, NEW i \in Ids, Registers(n, p, i)
      PROVE  NamesInv'
  <2>1. /\ users'[i].asked = n /\ users'[i].life = lives + 1 /\ lives' = lives + 1
        /\ \A j \in Active : users[j].name # n
      BY <1>1, <1>2 DEF Registers, NewAccount, Named
  <2>2. \A j \in Active' \ {i} : j \in Active /\ users'[j] = users[j]
      BY <1>1, <1>2 DEF Registers, Active
  <2>3. \A j \in Active' : users'[j].life <= lives'
      BY <1>1, <2>1, <2>2
  <2>4. ASSUME NEW j \in Active', NEW k \in Active', users'[j].life < users'[k].life
        PROVE  users'[k].asked # users'[j].name
    <3>1. j # i
        BY <1>1, <2>1, <2>2, <2>4
    <3> QED BY <1>1, <2>1, <2>2, <2>4, <3>1
  <2> QED BY <2>3, <2>4 DEF NamesInv, NamesAskedApart
<1>3. ASSUME lives' = lives,
             \A j \in Ids : /\ users'[j].name = users[j].name /\ users'[j].asked = users[j].asked
                            /\ users'[j].life = users[j].life /\ (j \in Active' => j \in Active)
      PROVE  NamesInv'
    BY <1>1, <1>3 DEF NamesInv, NamesAskedApart
<1>4. ASSUME NEW i \in Ids, NEW ch \in Challenges, Credits(i, ch)
      PROVE  NamesInv'
  <2>1. /\ Credit(users[i], ch).name = users[i].name
        /\ Credit(users[i], ch).asked = users[i].asked
        /\ Credit(users[i], ch).life = users[i].life
        /\ Credit(users[i], ch).active = users[i].active
      BY <1>1, <1>4, CreditTyped DEF Credits
  <2>2. lives' = lives /\ users' = [users EXCEPT ![i] = Credit(users[i], ch)]
      BY <1>4 DEF Credits
  <2> QED BY <1>1, <1>3, <2>1, <2>2 DEF Active
<1>5. CASE UNCHANGED <<users, count, lives>>
    BY <1>3, <1>5 DEF Active
<1>6. ASSUME NEW i \in Ids, Unregisters(i)
      PROVE  NamesInv'
  <2>1. lives' = lives /\ users' = [users EXCEPT ![i].active = FALSE]
      BY <1>6 DEF Unregisters
  <2>2. \A j \in Ids : users[j] \in Accounts
      BY <1>1
  <2> QED BY <1>1, <1>3, <2>1, <2>2 DEF Active, Accounts
<1>7. ASSUME NEW i \in Ids, NEW d, Edits(i, d)
      PROVE  NamesInv'
  <2>1. lives' = lives /\ users' = [users EXCEPT ![i].desc = d]
      BY <1>7 DEF Edits
  <2>2. \A j \in Ids : users[j] \in Accounts
      BY <1>1
  <2> QED BY <1>1, <1>3, <2>1, <2>2 DEF Active, Accounts
<1> QED BY <1>2, <1>4, <1>5, <1>6, <1>7, PoolSteps

(* What every series of requests leaves in the pool: nobody registered with *)
(* the name of an account there was, a header that counts the accounts,     *)
(* challenges that were paid (cg_userdb.c:153-210, cg_router.c:805-816).    *)
THEOREM PoolStaysSound == Spec => []PoolIsSound
<1>1. Init => CreditInv /\ NamesInv
  <2>1. Init => RecordsAreCredited /\ NamesInv
      BY DEF Init, RecordsAreCredited, NamesInv, NamesAskedApart, Active, Unborn
  <2> QED BY <2>1, AccountsInit DEF CreditInv
<1>2. CreditInv => AccountsInv
    BY DEF CreditInv
<1>3. AccountsInv /\ NamesInv /\ [Next]_vars => NamesInv'
    BY NamesStep
<1>4. CreditInv /\ NamesInv => PoolIsSound
    BY DEF CreditInv, AccountsInv, NamesInv, PoolIsSound
<1> QED BY <1>1, <1>2, <1>3, <1>4, CreditStep, PTL DEF Spec

-----------------------------------------------------------------------------
(* Steps: what no request may do to somebody else's account.                *)

(* A list is its own beginning, and the beginning of a longer one.          *)
LEMMA Beginnings ==
    ASSUME NEW q \in Seq(Challenges)
    PROVE  /\ SubSeq(q, 1, Len(q)) = q
           /\ \A ch \in Challenges : SubSeq(Append(q, ch), 1, Len(q)) = q
<1>1. Len(q) \in Nat /\ DOMAIN q = 1 .. Len(q) /\ q = [i \in 1 .. Len(q) |-> q[i]]
    BY LenProperties
<1>2. SubSeq(q, 1, Len(q)) = q
    BY <1>1
<1>3. ASSUME NEW ch \in Challenges
      PROVE  SubSeq(Append(q, ch), 1, Len(q)) = q
  <2> DEFINE r == Append(q, ch)
  <2>1. \A i \in 1 .. Len(q) : r[i] = q[i]
      BY AppendProperties
  <2> HIDE DEF r
  <2>2. SubSeq(r, 1, Len(q)) = [i \in 1 .. Len(q) |-> r[i]]
      BY <1>1
  <2>3. SubSeq(r, 1, Len(q)) = q
      BY <1>1, <2>1, <2>2
  <2> QED BY <2>3 DEF r
<1> QED BY <1>2, <1>3

(* What AccountKept says of one account and one step.                       *)
IsKept(i) ==
    users'[i] # users[i] =>
      /\ CameFrom(i)
      /\ IF SameLife(i) THEN Grows(i) ELSE ~users'[i].active

(* No step that did not come from an account changes it, and none takes     *)
(* from it what it has.                                                     *)
LEMMA KeptStep ==
    ASSUME TypeOK, [Next]_vars, NEW j \in Active
    PROVE  IsKept(j)
<1>1. /\ users \in [Ids -> Accounts] /\ j \in Ids /\ users[j].active
      /\ users[j] \in Accounts
    BY DEF TypeOK, Active
<1>2. users[j].done \in Seq(Challenges) /\ users[j].points \in Nat
    BY <1>1, AccountsAssumption DEF Accounts
<1>3. ASSUME users'[j] = users[j]
      PROVE  IsKept(j)
    BY <1>3 DEF IsKept
<1>4. ASSUME NEW n \in Names, NEW p \in Passwords, NEW i \in Ids, Registers(n, p, i)
      PROVE  IsKept(j)
  <2>1. users'[j] = users[j]
      BY <1>1, <1>4 DEF Registers
  <2> QED BY <1>3, <2>1
<1>5. ASSUME NEW i \in Ids, Unregisters(i)
      PROVE  IsKept(j)
  <2>1. CASE j = i
      BY <1>1, <1>5, <2>1 DEF Unregisters, IsKept, SameLife, Accounts
  <2>2. CASE j # i
    <3>1. users'[j] = users[j]
        BY <1>1, <1>5, <2>2 DEF Unregisters
    <3> QED BY <1>3, <3>1
  <2> QED BY <2>1, <2>2
<1>6. ASSUME NEW i \in Ids, NEW d, Edits(i, d)
      PROVE  IsKept(j)
  <2>1. CASE j = i
    <3>1. /\ users'[j].active = users[j].active /\ users'[j].life = users[j].life
          /\ users'[j].name = users[j].name /\ users'[j].pass = users[j].pass
          /\ users'[j].points = users[j].points /\ users'[j].done = users[j].done
        BY <1>1, <1>6 DEF Edits, Accounts
    <3>2. CameFrom(j)
        BY <1>6, <2>1 DEF Edits
    <3> QED BY <1>1, <1>2, <3>1, <3>2, Beginnings DEF IsKept, SameLife, Grows
  <2>2. CASE j # i
    <3>1. users'[j] = users[j]
        BY <1>1, <1>6, <2>2 DEF Edits
    <3> QED BY <1>3, <3>1
  <2> QED BY <2>1, <2>2
<1>7. ASSUME NEW i \in Ids, NEW ch \in Challenges, Credits(i, ch)
      PROVE  IsKept(j)
  <2>1. CASE j = i
    <3> DEFINE a == users[j]
               b == Credit(a, ch)
    <3>1. users'[j] = b /\ a.points + Worth[ch] <= MaxPoints /\ CameFrom(j)
        BY <1>1, <1>7, <2>1 DEF Credits
    <3>2. /\ b.active = a.active /\ b.life = a.life /\ b.name = a.name /\ b.pass = a.pass
          /\ b.points = a.points + Worth[ch]
          /\ b.done = a.done \/ b.done = Append(a.done, ch)
      <4>1. a \in Accounts /\ a.points + Worth[ch] <= MaxPoints
          BY <1>1, <3>1
      <4>2. /\ b.active = a.active /\ b.life = a.life /\ b.name = a.name /\ b.pass = a.pass
            /\ b.points = a.points + Worth[ch]
          BY <4>1, CreditTyped
      <4>3. b.done = a.done \/ b.done = Append(a.done, ch)
          BY <4>1, CreditTyped
      <4> QED BY <4>2, <4>3
    <3> HIDE DEF b
    <3>3. b.points >= a.points
        BY <1>2, <3>2, AccountsAssumption
    <3>4. SubSeq(b.done, 1, Len(a.done)) = a.done
        BY <1>2, <3>2, Beginnings
    <3> QED BY <1>1, <3>1, <3>2, <3>3, <3>4 DEF IsKept, SameLife, Grows
  <2>2. CASE j # i
    <3>1. users'[j] = users[j]
        BY <1>1, <1>7, <2>2 DEF Credits
    <3> QED BY <1>3, <3>1
  <2> QED BY <2>1, <2>2
<1>8. CASE UNCHANGED <<users, count, lives>>
    BY <1>3, <1>8
<1> QED BY <1>4, <1>5, <1>6, <1>7, <1>8, PoolSteps

(* An account changes only by a request that came with a session of its     *)
(* record; while it lives none takes its name, password, points or          *)
(* completed challenges, and its record is given to no other.               *)
THEOREM AccountsAreKept == Spec => AccountKept
<1>1. AccountsInv /\ [Next]_vars =>
        [\A i \in Active : users'[i] # users[i] =>
           /\ CameFrom(i)
           /\ IF SameLife(i) THEN Grows(i) ELSE ~users'[i].active]_vars
    BY KeptStep DEF AccountsInv, IsKept
<1> QED BY <1>1, AccountsInit, AccountsStep, PTL DEF Spec, AccountKept
=============================================================================
