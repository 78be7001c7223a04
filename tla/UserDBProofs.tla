---------------------------- MODULE UserDBProofs ----------------------------
(***************************************************************************)
(* The file of the user database, for any number of records, names,        *)
(* challenges, registrations and kills: what ActiveIsWhole, CountDrifts    *)
(* and UserStore say of it holds between any two stores, in whatever order *)
(* the compiler puts those it may reorder.                                 *)
(***************************************************************************)
EXTENDS UserDB, SequenceTheorems, FiniteSetTheorems, WellFoundedInduction, TLAPS

-----------------------------------------------------------------------------
(* The stages an operation has left, and the stores.                        *)
DeleteStages == << {"inactive", "uncounted"} >>
ShortStages  == << {"credit"} >>
LongStages   == << {"credit"}, {"hash", "another"} >>

Left(st) == UNION {st[k] : k \in DOMAIN st}

After(st, s) == IF Head(st) \ {s} = {} THEN Tail(st)
                ELSE <<Head(st) \ {s}>> \o Tail(st)

(* st is what is left of the stages C: whole stages but for the first.      *)
Suffix(st, C) ==
    /\ st \in Seq(SUBSET Stores)
    /\ Len(st) \in 1 .. Len(C)
    /\ st[1] # {} /\ st[1] \subseteq C[Len(C) - Len(st) + 1]
    /\ \A k \in 2 .. Len(st) : st[k] = C[Len(C) - Len(st) + k]

(* Stages of different stores.                                              *)
Staged(C) ==
    /\ C \in Seq(SUBSET Stores)
    /\ \A j \in DOMAIN C : C[j] # {}
    /\ \A j, k \in DOMAIN C : C[j] \cap C[k] # {} => j = k

-----------------------------------------------------------------------------
(* The inductive invariant.                                                 *)
Records == [active : BOOLEAN, name : Marks, text : Marks, pass : Marks,
            points : 0 .. MaxPoints, count : 0 .. MaxDone,
            hashes : [Places -> Challenges \cup {NoHash}]]

Operations == [id : Ids, what : Lives \cup {Nobody} \cup Challenges, slot : Nat,
               stages : Seq(SUBSET Stores)]

TypeInv ==
    /\ file \in [sized : BOOLEAN, magic : BOOLEAN, count : Nat]
    /\ pool \in [Ids -> Records]
    /\ sock \in BOOLEAN
    /\ proc \in {"down", "sizing", "zeroing", "header", "unlink", "unlink_no_db",
                 "bind", "bind_no_db", "serving", "no_db", "exited"}
    /\ op = Idle \/ op \in Operations
    /\ nameOf \in [Lives -> Names \cup {"no_name"}]
    /\ lives \in 0 .. MaxLives /\ crashes \in 0 .. MaxCrashes

(* Until a file has its magic nothing is in it, and only a process that is  *)
(* serving is in an operation.                                              *)
Started ==
    /\ proc = "sizing" => ~file.sized
    /\ proc \in {"sizing", "zeroing"} => ~file.magic
    /\ proc \in {"zeroing", "header"} => file.sized
    /\ ~file.sized => ~file.magic
    /\ ~file.magic => file.count = 0 /\ Active = {}
    /\ ~file.magic => proc \notin {"unlink", "bind", "serving"}
    /\ op # Idle => proc = "serving"

(* All challenges in the list of a record, beyond its count too: a kill     *)
(* between the two stores leaves one there that was paid for.               *)
Listed(r) == {r.hashes[k] : k \in Places} \ {NoHash}

(* An active record is the work of one registration, ...                    *)
Whole ==
    \A i \in Active :
      /\ pool[i].name \in 1 .. lives
      /\ pool[i].text = pool[i].name /\ pool[i].pass = pool[i].name
      /\ pool[i].points >= Value(Listed(pool[i]))

(* ... and the later of two was not begun with the name of the earlier.     *)
Unique ==
    \A i, j \in Active : i # j => AskedApart(pool[i].name, pool[j].name)

(* A registration begun with a name an earlier one did not have.            *)
Earlier(k, l) == k < l /\ NameKept(k) # nameOf[l]

(* What the stores made so far have written.                                *)
Creates ==
    LET r == pool[op.id]
        L == Left(op.stages)
    IN  /\ Suffix(op.stages, CreateStages)
        /\ op.what \in 1 .. lives /\ nameOf[op.what] \in Names
        /\ r.active <=> "active" \notin L
        /\ "end_of_name" \notin L => r.name = op.what
        /\ "text" \notin L => r.text = op.what
        /\ "pass" \notin L => r.pass = op.what
        /\ "points" \notin L => r.points = 0
        /\ "count" \notin L => r.count = 0
        /\ "hashes" \notin L => r.hashes = [k \in Places |-> NoHash]
        /\ "active" \in L => \A j \in Active : Earlier(pool[j].name, op.what)

Deletes ==
    /\ Suffix(op.stages, DeleteStages)
    /\ pool[op.id].active <=> "inactive" \in Left(op.stages)

Verifies ==
    LET r == pool[op.id]
        L == Left(op.stages)
    IN  /\ Suffix(op.stages, ShortStages) \/ Suffix(op.stages, LongStages)
        /\ op.what \in Challenges /\ r.active
        /\ "credit" \in L => r.points + Worth[op.what] <= MaxPoints
        /\ "credit" \notin L => r.points >= Value((Listed(r) \cup {op.what}) \ {NoHash})
        /\ {"hash", "another"} \cap L # {} =>
             /\ op.slot \in Places
             /\ r.count = IF "another" \in L THEN op.slot - 1 ELSE op.slot
             /\ "hash" \notin L => r.hashes[op.slot] = op.what
             /\ \A k \in 1 .. (op.slot - 1) : r.hashes[k] # op.what

UnderWay == op # Idle => Creates \/ Deletes \/ Verifies

(* How far the stores of the operation under way put the count out.         *)
AheadOf(L) ==
    LET one(s) == IF s \in L THEN 1 ELSE 0
    IN  one("active") - one("counted") + one("uncounted") - one("inactive")

Ahead == IF op = Idle THEN 0 ELSE AheadOf(Left(op.stages))

Drift ==
    LET out == file.count - Cardinality(Active) - Ahead
    IN  -crashes <= out /\ out <= crashes

UserInv == TypeInv /\ Started /\ Whole /\ Unique /\ UnderWay /\ Drift

-----------------------------------------------------------------------------
(* Stages.  What is left of different stages: the rest of one and the whole *)
(* of those after it.                                                       *)
LEMMA StageOrder ==
    ASSUME NEW C, Staged(C), NEW st, Suffix(st, C), NEW s \in Head(st)
    PROVE  /\ s \in Left(st) /\ s \in Stores
           /\ Left(st) \subseteq UNION {C[k] : k \in DOMAIN C}
           /\ \A j \in DOMAIN C : s \in C[j] =>
                /\ j = Len(C) - Len(st) + 1
                /\ \A k \in DOMAIN C : k < j => C[k] \cap Left(st) = {}
                /\ \A k \in DOMAIN C : k > j => C[k] \subseteq Left(st)
<1> DEFINE n == Len(st)
           d == Len(C) - Len(st)
<1>1. /\ n \in Nat \ {0} /\ d \in Nat /\ Len(C) = d + n /\ DOMAIN st = 1 .. n
      /\ DOMAIN C = 1 .. Len(C) /\ Head(st) = st[1] /\ st[1] \subseteq C[d + 1]
      /\ \A k \in 2 .. n : st[k] = C[d + k]
      /\ \A k \in 1 .. n : st[k] \subseteq Stores
    BY DEF Suffix, Staged
<1>2. \A k \in 1 .. n : d + k \in DOMAIN C /\ st[k] \subseteq C[d + k]
  <2> TAKE k \in 1 .. n
  <2>1. k = 1 \/ k \in 2 .. n
      BY <1>1
  <2> QED BY <1>1, <2>1
<1>3. s \in Left(st) /\ s \in Stores /\ s \in C[d + 1]
    BY <1>1 DEF Left
<1>4. Left(st) \subseteq UNION {C[k] : k \in DOMAIN C}
    BY <1>1, <1>2 DEF Left
<1>5. ASSUME NEW j \in DOMAIN C, s \in C[j]
      PROVE  /\ j = d + 1
             /\ \A k \in DOMAIN C : k < j => C[k] \cap Left(st) = {}
             /\ \A k \in DOMAIN C : k > j => C[k] \subseteq Left(st)
  <2>1. j = d + 1
    <3>1. d + 1 \in DOMAIN C
        BY <1>1
    <3> QED BY <1>3, <1>5, <3>1 DEF Staged
  <2>2. ASSUME NEW k \in DOMAIN C, k < j, NEW x \in C[k], x \in Left(st)
        PROVE  FALSE
    <3>1. PICK l \in 1 .. n : x \in st[l]
        BY <1>1, <2>2 DEF Left
    <3>2. d + l \in DOMAIN C /\ x \in C[d + l]
        BY <1>2, <3>1
    <3>3. k = d + l
        BY <2>2, <3>2 DEF Staged
    <3> QED BY <1>1, <2>1, <2>2, <3>3
  <2>3. ASSUME NEW k \in DOMAIN C, k > j
        PROVE  C[k] \subseteq Left(st)
    <3>1. k - d \in 2 .. n /\ d + (k - d) = k
        BY <1>1, <2>1, <2>3
    <3>2. st[k - d] = C[k] /\ k - d \in DOMAIN st
        BY <1>1, <3>1
    <3> QED BY <3>2 DEF Left
  <2> QED BY <2>1, <2>2, <2>3
<1> QED BY <1>3, <1>4, <1>5

(* A store that is made is left no more; the last one ends the operation.   *)
LEMMA StoreMade ==
    ASSUME NEW C, Staged(C), NEW st, Suffix(st, C), NEW s \in Head(st)
    PROVE  IF Head(st) \ {s} = {} /\ Len(st) = 1
             THEN Left(st) = {s}
             ELSE Suffix(After(st, s), C) /\ Left(After(st, s)) = Left(st) \ {s}
<1> DEFINE n == Len(st)
           d == Len(C) - Len(st)
           rest == Head(st) \ {s}
<1>1. /\ n \in Nat \ {0} /\ d \in Nat /\ Len(C) = d + n /\ DOMAIN st = 1 .. n
      /\ DOMAIN C = 1 .. Len(C) /\ Head(st) = st[1] /\ st[1] \subseteq C[d + 1]
      /\ \A k \in 2 .. n : st[k] = C[d + k]
      /\ \A k \in 1 .. n : st[k] \in SUBSET Stores
      /\ st \in Seq(SUBSET Stores)
    BY DEF Suffix, Staged
<1>2. \A k \in 2 .. n : s \notin st[k]
  <2>1. SUFFICES ASSUME NEW k \in 2 .. n, s \in st[k] PROVE FALSE
      OBVIOUS
  <2>2. d + k \in DOMAIN C /\ d + 1 \in DOMAIN C /\ s \in C[d + k] /\ s \in C[d + 1]
      BY <1>1, <2>1
  <2>3. d + k = d + 1
      BY <2>2 DEF Staged
  <2> QED BY <1>1, <2>1, <2>3
<1>3. CASE rest = {} /\ n = 1
  <2>1. Left(st) = st[1] /\ st[1] = {s}
      BY <1>1, <1>3 DEF Left
  <2> QED BY <1>3, <2>1
<1>4. CASE rest = {} /\ n # 1
  <2> DEFINE t == Tail(st)
  <2>1. /\ After(st, s) = t /\ t \in Seq(SUBSET Stores) /\ Len(t) = n - 1
        /\ DOMAIN t = 1 .. (n - 1) /\ \A k \in 1 .. (n - 1) : t[k] = st[k + 1]
      BY <1>1, <1>4 DEF After
  <2> HIDE DEF t
  <2>2. Len(t) \in 1 .. Len(C) /\ Len(C) - Len(t) = d + 1
      BY <1>1, <1>4, <2>1
  <2>3. t[1] = C[d + 2] /\ C[d + 2] # {}
    <3>1. t[1] = st[2] /\ 2 \in 2 .. n /\ d + 2 \in DOMAIN C
        BY <1>1, <1>4, <2>1
    <3> QED BY <1>1, <3>1 DEF Staged
  <2>4. \A k \in 2 .. Len(t) : t[k] = C[Len(C) - Len(t) + k]
    <3> TAKE k \in 2 .. Len(t)
    <3>1. k \in 1 .. (n - 1) /\ k + 1 \in 2 .. n
        BY <1>1, <2>1
    <3>2. t[k] = st[k + 1] /\ st[k + 1] = C[d + (k + 1)]
        BY <1>1, <2>1, <3>1
    <3>3. d + (k + 1) = Len(C) - Len(t) + k
        BY <1>1, <2>1, <3>1
    <3> QED BY <3>2, <3>3
  <2>5. Suffix(t, C)
    <3>1. Len(C) - Len(t) + 1 = d + 2
        BY <1>1, <2>2
    <3> QED BY <2>1, <2>2, <2>3, <2>4, <3>1 DEF Suffix
  <2>6. Left(t) = Left(st) \ {s}
    <3>1. ASSUME NEW x, x \in Left(st), x # s
          PROVE  x \in Left(t)
      <4>1. PICK k \in 1 .. n : x \in st[k]
          BY <1>1, <3>1 DEF Left
      <4>2. k # 1
          BY <1>1, <1>4, <3>1, <4>1
      <4>3. k - 1 \in 1 .. (n - 1) /\ (k - 1) + 1 = k
          BY <1>1, <4>2
      <4>4. t[k - 1] = st[k] /\ k - 1 \in DOMAIN t
          BY <2>1, <4>3
      <4> QED BY <4>1, <4>4 DEF Left
    <3>2. ASSUME NEW x, x \in Left(t)
          PROVE  x \in Left(st) /\ x # s
      <4>1. PICK k \in 1 .. (n - 1) : x \in t[k]
          BY <2>1, <3>2 DEF Left
      <4>2. k + 1 \in 2 .. n /\ x \in st[k + 1]
          BY <1>1, <2>1, <4>1
      <4>3. k + 1 \in DOMAIN st
          BY <1>1, <4>2
      <4> QED BY <1>2, <4>2, <4>3 DEF Left
    <3> QED BY <3>1, <3>2
  <2> QED BY <1>4, <2>1, <2>5, <2>6
<1>5. CASE rest # {}
  <2> DEFINE t == <<rest>> \o Tail(st)
  <2>1. rest \in SUBSET Stores /\ Tail(st) \in Seq(SUBSET Stores) /\ Len(Tail(st)) = n - 1
        /\ \A k \in 1 .. (n - 1) : Tail(st)[k] = st[k + 1]
      BY <1>1
  <2>2. /\ After(st, s) = t /\ t \in Seq(SUBSET Stores) /\ Len(t) = n
        /\ t[1] = rest /\ \A k \in 2 .. n : t[k] = st[k]
    <3>1. t \in Seq(SUBSET Stores) /\ Len(t) = n /\ t[1] = rest
        BY <1>1, <2>1
    <3>2. ASSUME NEW k \in 2 .. n
          PROVE  t[k] = st[k]
      <4>1. k - 1 \in 1 .. (n - 1) /\ t[k] = Tail(st)[k - 1]
          BY <1>1, <2>1
      <4> QED BY <2>1, <4>1
    <3> QED BY <1>5, <3>1, <3>2 DEF After
  <2> HIDE DEF t
  <2>3. DOMAIN t = 1 .. n
      BY <2>2
  <2>4. Suffix(t, C)
    <3>1. rest \subseteq C[d + 1]
        BY <1>1
    <3> QED BY <1>1, <1>5, <2>2, <3>1 DEF Suffix
  <2>5. Left(t) = Left(st) \ {s}
    <3>1. \A k \in 1 .. n : t[k] = st[k] \ {s}
      <4> TAKE k \in 1 .. n
      <4>1. CASE k = 1
          BY <1>1, <2>2, <4>1
      <4>2. CASE k \in 2 .. n
          BY <1>2, <2>2, <4>2
      <4> QED BY <1>1, <4>1, <4>2
    <3> QED BY <1>1, <2>3, <3>1 DEF Left
  <2> QED BY <1>5, <2>2, <2>4, <2>5
<1> QED BY <1>3, <1>4, <1>5

-----------------------------------------------------------------------------
(* The stages of a creation.                                                *)
LEMMA CreateStagesAre ==
    /\ CreateStages \in Seq(SUBSET Stores) /\ Len(CreateStages) = 6
    /\ DOMAIN CreateStages = 1 .. 6
    /\ \A j \in 1 .. 6 : \A x : x \in CreateStages[j] <=>
          \/ j = 1 /\ x = "name"
          \/ j = 2 /\ x = "end_of_name"
          \/ j = 3 /\ x = "text"
          \/ j = 4 /\ (x = "pass" \/ x = "points" \/ x = "count")
          \/ j = 5 /\ x = "hashes"
          \/ j = 6 /\ (x = "active" \/ x = "counted")
<1>1. CreateStages \in Seq(SUBSET Stores)
    BY DEF CreateStages, Stores
<1>2. Len(CreateStages) = 6 /\ DOMAIN CreateStages = 1 .. 6
    BY DEF CreateStages
<1>3. /\ CreateStages[1] = {"name"} /\ CreateStages[2] = {"end_of_name"}
      /\ CreateStages[3] = {"text"} /\ CreateStages[4] = {"pass", "points", "count"}
      /\ CreateStages[5] = {"hashes"} /\ CreateStages[6] = {"active", "counted"}
    BY DEF CreateStages
<1>4. \A j \in 1 .. 6 : j = 1 \/ j = 2 \/ j = 3 \/ j = 4 \/ j = 5 \/ j = 6
    OBVIOUS
<1> QED BY <1>1, <1>2, <1>3, <1>4

(* The stages of every operation are stages of different stores.            *)
LEMMA StagesAreStaged ==
    /\ Staged(CreateStages) /\ Staged(DeleteStages)
    /\ Staged(ShortStages) /\ Staged(LongStages)
<1>1. Staged(CreateStages)
  <2>1. ASSUME NEW j \in 1 .. 6, NEW k \in 1 .. 6, NEW x,
               x \in CreateStages[j], x \in CreateStages[k]
        PROVE  j = k
      BY <2>1, CreateStagesAre
  <2>2. \A j \in 1 .. 6 : CreateStages[j] # {}
    <3> TAKE j \in 1 .. 6
    <3>1. j = 1 \/ j = 2 \/ j = 3 \/ j = 4 \/ j = 5 \/ j = 6
        OBVIOUS
    <3> QED BY <3>1, CreateStagesAre
  <2> QED BY <2>1, <2>2, CreateStagesAre DEF Staged
<1>2. Staged(DeleteStages)
    BY DEF Staged, DeleteStages, Stores
<1>3. Staged(ShortStages)
    BY DEF Staged, ShortStages, Stores
<1>4. Staged(LongStages)
    BY DEF Staged, LongStages, Stores
<1> QED BY <1>1, <1>2, <1>3, <1>4

(* An operation that has made no store has all of them left.                *)
LEMMA AllLeft ==
    ASSUME NEW C, Staged(C), C # <<>>
    PROVE  Suffix(C, C)
BY DEF Staged, Suffix

(* What is left while a record is created: the record is complete before it *)
(* is marked active,                                                        *)
LEMMA CreateOrder ==
    ASSUME NEW st, Suffix(st, CreateStages), NEW s \in Head(st)
    PROVE  /\ s \in Left(st)
           /\ Left(st) \subseteq {"name", "end_of_name", "text", "pass", "points", "count",
                                  "hashes", "active", "counted"}
           /\ s = "name" => "end_of_name" \in Left(st)
           /\ s \in {"active", "counted"} => Left(st) \subseteq {"active", "counted"}
           /\ s \notin {"active", "counted"} => {"active", "counted"} \subseteq Left(st)
<1> DEFINE C == CreateStages
<1>1. /\ s \in Left(st) /\ Left(st) \subseteq UNION {C[k] : k \in 1 .. 6}
      /\ \A j \in 1 .. 6 : s \in C[j] =>
           /\ \A k \in 1 .. 6 : k < j => C[k] \cap Left(st) = {}
           /\ \A k \in 1 .. 6 : k > j => C[k] \subseteq Left(st)
    BY StagesAreStaged, StageOrder, CreateStagesAre
<1>2. \A x \in Left(st) : \E k \in 1 .. 6 : x \in C[k]
    BY <1>1
<1> HIDE DEF C
<1>3. \A j \in 1 .. 6 : \A x : x \in C[j] <=>
          \/ j = 1 /\ x = "name"
          \/ j = 2 /\ x = "end_of_name"
          \/ j = 3 /\ x = "text"
          \/ j = 4 /\ (x = "pass" \/ x = "points" \/ x = "count")
          \/ j = 5 /\ x = "hashes"
          \/ j = 6 /\ (x = "active" \/ x = "counted")
    BY CreateStagesAre DEF C
<1>4. Left(st) \subseteq {"name", "end_of_name", "text", "pass", "points", "count",
                         "hashes", "active", "counted"}
  <2> SUFFICES ASSUME NEW x \in Left(st)
               PROVE  x \in {"name", "end_of_name", "text", "pass", "points", "count",
                              "hashes", "active", "counted"}
      OBVIOUS
  <2>1. PICK k \in 1 .. 6 : x \in C[k]
      BY <1>2
  <2> QED BY <1>3, <2>1
<1>5. s = "name" => "end_of_name" \in Left(st)
  <2> HAVE s = "name"
  <2>1. s \in C[1] /\ "end_of_name" \in C[2]
      BY <1>3
  <2>2. C[2] \subseteq Left(st)
      BY <1>1, <2>1
  <2> QED BY <2>1, <2>2
<1>6. s \in {"active", "counted"} => Left(st) \subseteq {"active", "counted"}
  <2> SUFFICES ASSUME s \in {"active", "counted"}, NEW x \in Left(st)
               PROVE  x \in {"active", "counted"}
      OBVIOUS
  <2>1. s \in C[6]
      BY <1>3
  <2>2. PICK k \in 1 .. 6 : x \in C[k]
      BY <1>2
  <2>3. ~(k < 6)
      BY <1>1, <2>1, <2>2
  <2>4. k = 6
      BY <2>3
  <2> QED BY <1>3, <2>2, <2>4
<1>7. s \notin {"active", "counted"} => {"active", "counted"} \subseteq Left(st)
  <2> HAVE s \notin {"active", "counted"}
  <2>1. PICK k \in 1 .. 6 : s \in C[k]
      BY <1>1, <1>2
  <2>2. k # 6
      BY <1>3, <2>1
  <2>3. 6 > k
      BY <2>2
  <2>4. C[6] \subseteq Left(st)
      BY <1>1, <2>1, <2>3
  <2>5. "active" \in C[6] /\ "counted" \in C[6]
      BY <1>3
  <2> QED BY <2>4, <2>5
<1> QED BY <1>1, <1>4, <1>5, <1>6, <1>7

(* deleted,                                                                 *)
LEMMA DeleteOrder ==
    ASSUME NEW st, Suffix(st, DeleteStages), NEW s \in Head(st)
    PROVE  s \in Left(st) /\ Left(st) \subseteq {"inactive", "uncounted"}
<1>1. DOMAIN DeleteStages = {1} /\ DeleteStages[1] = {"inactive", "uncounted"}
    BY DEF DeleteStages
<1> QED BY <1>1, StagesAreStaged, StageOrder

(* or a challenge credited: before it is listed.                            *)
LEMMA VerifyOrder ==
    ASSUME NEW st, Suffix(st, ShortStages) \/ Suffix(st, LongStages), NEW s \in Head(st)
    PROVE  /\ s \in Left(st) /\ Left(st) \subseteq {"credit", "hash", "another"}
           /\ Suffix(st, ShortStages) => Left(st) = {"credit"}
           /\ Suffix(st, LongStages) /\ s = "credit" => {"hash", "another"} \subseteq Left(st)
           /\ s # "credit" => "credit" \notin Left(st)
<1>1. DOMAIN ShortStages = {1} /\ ShortStages[1] = {"credit"}
    BY DEF ShortStages
<1>2. DOMAIN LongStages = 1 .. 2 /\ LongStages[1] = {"credit"}
      /\ LongStages[2] = {"hash", "another"}
    BY DEF LongStages
<1>3. Suffix(st, ShortStages) => s \in Left(st) /\ Left(st) = {"credit"}
  <2> HAVE Suffix(st, ShortStages)
  <2>1. s \in Left(st) /\ Left(st) \subseteq {"credit"}
      BY <1>1, StagesAreStaged, StageOrder
  <2> QED BY <2>1
<1>4. Suffix(st, LongStages) =>
        /\ s \in Left(st) /\ Left(st) \subseteq {"credit", "hash", "another"}
        /\ s = "credit" => {"hash", "another"} \subseteq Left(st)
        /\ s # "credit" => "credit" \notin Left(st)
  <2> HAVE Suffix(st, LongStages)
  <2> DEFINE C == LongStages
  <2>1. /\ s \in Left(st) /\ Left(st) \subseteq UNION {C[k] : k \in DOMAIN C}
        /\ \A j \in DOMAIN C : s \in C[j] =>
             /\ \A k \in DOMAIN C : k < j => C[k] \cap Left(st) = {}
             /\ \A k \in DOMAIN C : k > j => C[k] \subseteq Left(st)
      BY StagesAreStaged, StageOrder
  <2> QED BY <1>2, <2>1
<1> QED BY <1>3, <1>4

(* The stores each kind of operation is made of.                            *)
LEMMA LeftOf ==
    ASSUME NEW st
    PROVE  /\ Suffix(st, CreateStages) =>
                Left(st) \subseteq {"name", "end_of_name", "text", "pass", "points", "count",
                                    "hashes", "active", "counted"}
           /\ Suffix(st, DeleteStages) => Left(st) \subseteq {"inactive", "uncounted"}
           /\ Suffix(st, ShortStages) \/ Suffix(st, LongStages) =>
                Left(st) \subseteq {"credit", "hash", "another"}
<1>1. SUFFICES ASSUME NEW C, Suffix(st, C)
               PROVE  \E s : s \in Head(st)
    BY CreateOrder, DeleteOrder, VerifyOrder
<1> QED BY <1>1 DEF Suffix

(* An operation is of one kind.                                             *)
LEMMA KindsDiffer ==
    ASSUME NEW st
    PROVE  /\ Suffix(st, CreateStages) => ~Suffix(st, DeleteStages)
                 /\ ~Suffix(st, ShortStages) /\ ~Suffix(st, LongStages)
           /\ Suffix(st, DeleteStages) => ~Suffix(st, ShortStages) /\ ~Suffix(st, LongStages)
<1>1. SUFFICES ASSUME \E C : Suffix(st, C) /\ Staged(C)
               PROVE  /\ Suffix(st, CreateStages) => ~Suffix(st, DeleteStages)
                            /\ ~Suffix(st, ShortStages) /\ ~Suffix(st, LongStages)
                      /\ Suffix(st, DeleteStages) =>
                           ~Suffix(st, ShortStages) /\ ~Suffix(st, LongStages)
    BY StagesAreStaged
<1>2. PICK s : s \in Head(st)
    BY <1>1 DEF Suffix
<1> QED BY <1>2, CreateOrder, DeleteOrder, VerifyOrder

-----------------------------------------------------------------------------
(* Minima and sums.                                                         *)

(* A set of naturals that is not empty has a least element.                 *)
LEMMA LeastNatural ==
    ASSUME NEW T, T \subseteq Nat, T # {}
    PROVE  \E x \in T : \A y \in T : x <= y
<1> DEFINE R == OpToRel(<, Nat)
<1>1. IsWellFoundedOn(R, Nat)
    BY NatLessThanWellFounded
<1>2. \A x, y \in Nat : <<x, y>> \in R <=> x < y
    BY DEF OpToRel
<1> HIDE DEF R
<1>3. PICK x \in T : \A y \in T : ~(<<y, x>> \in R)
    BY <1>1, WFMin
<1>4. x \in Nat /\ \A y \in T : y \in Nat /\ ~(y < x)
    BY <1>2, <1>3
<1>5. \A y \in T : x <= y
    BY <1>4
<1> QED BY <1>5

(* Min of such a set is its least element.                                  *)
LEMMA MinOfSet ==
    ASSUME NEW T, T \subseteq Nat, T # {}
    PROVE  Min(T) \in T /\ \A y \in T : Min(T) <= y
BY LeastNatural DEF Min

(* A sum over a finite set counts units, w[x] of them for each element x:   *)
SumOver(w, T) == MapThenSumSet(LAMBDA x : w[x], T)
Units(w, T)   == UNION {{x} \X (1 .. w[x]) : x \in T}

(* they are finitely many, and an element less has its units less,          *)
LEMMA UnitsCount ==
    ASSUME NEW S, IsFiniteSet(S), NEW w \in [S -> Nat]
    PROVE  \A T \in SUBSET S :
             /\ IsFiniteSet(Units(w, T)) /\ Cardinality(Units(w, T)) \in Nat
             /\ \A x \in T : Cardinality(Units(w, T))
                               = Cardinality(Units(w, T \ {x})) + w[x]
<1>1. ASSUME NEW x \in S
      PROVE  IsFiniteSet({x} \X (1 .. w[x])) /\ Cardinality({x} \X (1 .. w[x])) = w[x]
  <2>1. w[x] \in Nat
      OBVIOUS
  <2>2. IsFiniteSet(1 .. w[x]) /\ Cardinality(1 .. w[x]) = w[x]
      BY <2>1, FS_Interval
  <2>3. IsFiniteSet({x}) /\ Cardinality({x}) = 1
      BY FS_Singleton
  <2>4. /\ IsFiniteSet({x} \X (1 .. w[x]))
        /\ Cardinality({x} \X (1 .. w[x])) = Cardinality({x}) * Cardinality(1 .. w[x])
      BY <2>2, <2>3, FS_Product
  <2> QED BY <2>1, <2>2, <2>3, <2>4
<1>2. ASSUME NEW T \in SUBSET S
      PROVE  IsFiniteSet(Units(w, T)) /\ Cardinality(Units(w, T)) \in Nat
  <2> DEFINE f == [x \in T |-> {x} \X (1 .. w[x])]
             U == {{x} \X (1 .. w[x]) : x \in T}
  <2>1. f \in Surjection(T, U)
      BY DEF Surjection
  <2>2. IsFiniteSet(U)
      BY <2>1, FS_Subset, FS_Surjection
  <2>3. \A V \in U : IsFiniteSet(V)
      BY <1>1
  <2> HIDE DEF U
  <2>4. IsFiniteSet(UNION U)
      BY <2>2, <2>3, FS_UNION
  <2> QED BY <2>4, FS_CardinalityType DEF Units, U
<1>3. ASSUME NEW T \in SUBSET S, NEW x \in T
      PROVE  Cardinality(Units(w, T)) = Cardinality(Units(w, T \ {x})) + w[x]
  <2> DEFINE A == Units(w, T \ {x})
             B == {x} \X (1 .. w[x])
  <2>1. Units(w, T) = A \cup B /\ A \cap B = {}
      BY DEF Units
  <2>2. IsFiniteSet(A) /\ IsFiniteSet(B) /\ Cardinality(B) = w[x] /\ w[x] \in Nat
        /\ Cardinality(A) \in Nat
      BY <1>1, <1>2
  <2> HIDE DEF A, B
  <2>3. Cardinality(A \cup B) = Cardinality(A) + Cardinality(B) - Cardinality(A \cap B)
      BY <2>2, FS_Union
  <2>4. Cardinality(A \cap B) = 0
      BY <2>1, FS_EmptySet
  <2> QED BY <2>1, <2>2, <2>3, <2>4 DEF A
<1> QED BY <1>2, <1>3

(* and MapThenSumSet, which takes one element after the other in the order  *)
(* CHOOSE gives, ends with their number.                                    *)
LEMMA SumCounts ==
    ASSUME NEW R, IsFiniteSet(R), NEW w \in [R -> Nat], NEW S \in SUBSET R
    PROVE  SumOver(w, S) = Cardinality(Units(w, S))
<1> DEFINE first(s) == CHOOSE x \in s : TRUE
           units(s) == Cardinality(Units(w, s))
           Rec(g) == [s \in SUBSET S |->
                        IF s = {} THEN 0 ELSE w[first(s)] + g[s \ {first(s)}]]
           iter == CHOOSE g : g = Rec(g)
           E == [s \in SUBSET S |-> units(s)]
<1>1. SumOver(w, S) = iter[S]
    BY DEF SumOver, MapThenSumSet, MapThenFoldSet
<1>2. \A s \in SUBSET S : s # {} => first(s) \in s /\ first(s) \in S /\ w[first(s)] \in Nat
    OBVIOUS
<1>3. units({}) = 0
  <2>1. Units(w, {}) = {}
      BY DEF Units
  <2> QED BY <2>1, FS_EmptySet
<1>4. \A s \in SUBSET S : units(s) \in Nat /\ \A x \in s : units(s) = units(s \ {x}) + w[x]
    BY UnitsCount
<1> HIDE DEF units, first
<1>5. E = Rec(E)
  <2>1. ASSUME NEW s \in SUBSET S
        PROVE  E[s] = IF s = {} THEN 0 ELSE w[first(s)] + E[s \ {first(s)}]
    <3>1. CASE s = {}
        BY <1>3, <3>1
    <3>2. CASE s # {}
      <4>1. first(s) \in s /\ w[first(s)] \in Nat /\ s \ {first(s)} \in SUBSET S
          BY <1>2, <3>2
      <4>2. units(s) = units(s \ {first(s)}) + w[first(s)] /\ units(s \ {first(s)}) \in Nat
          BY <1>4, <4>1
      <4> QED BY <3>2, <4>1, <4>2
    <3> QED BY <3>1, <3>2
  <2> QED BY <2>1
<1> HIDE DEF Rec
<1>6. iter = Rec(iter)
    BY <1>5
<1> HIDE DEF iter
<1> DEFINE N == {n \in Nat : \E s \in SUBSET S : iter[s] # units(s) /\ Cardinality(s) = n}
<1>7. \A s \in SUBSET S : IsFiniteSet(s) /\ Cardinality(s) \in Nat
    BY FS_Subset, FS_CardinalityType
<1>8. N = {}
  <2> SUFFICES ASSUME N # {} PROVE FALSE
      OBVIOUS
  <2>1. PICK n \in N : \A m \in N : n <= m
    <3>1. N \subseteq Nat
        OBVIOUS
    <3> HIDE DEF N
    <3> QED BY <3>1, LeastNatural
  <2>2. PICK s \in SUBSET S : iter[s] # units(s) /\ Cardinality(s) = n
      OBVIOUS
  <2>3. iter[s] = IF s = {} THEN 0 ELSE w[first(s)] + iter[s \ {first(s)}]
      BY <1>6 DEF Rec
  <2>4. s # {}
      BY <1>3, <2>2, <2>3
  <2>5. first(s) \in s /\ w[first(s)] \in Nat /\ s \ {first(s)} \in SUBSET S /\ IsFiniteSet(s)
      BY <1>2, <1>7, <2>4
  <2>6. Cardinality(s \ {first(s)}) = n - 1 /\ n - 1 \in Nat /\ n \in Nat
    <3>1. Cardinality(s \ {first(s)}) = Cardinality(s) - 1
        BY <2>5, FS_RemoveElement
    <3> QED BY <1>7, <2>2, <2>5, <3>1
  <2>7. iter[s \ {first(s)}] = units(s \ {first(s)})
    <3>1. n - 1 \notin N
        BY <2>1, <2>6
    <3> QED BY <2>5, <2>6, <3>1
  <2>8. units(s) = units(s \ {first(s)}) + w[first(s)] /\ units(s \ {first(s)}) \in Nat
      BY <1>4, <2>5
  <2> QED BY <2>2, <2>3, <2>4, <2>5, <2>7, <2>8
<1> QED BY <1>1, <1>7, <1>8 DEF units

(* The sum over a set, and that over what is left without x.                *)
LEMMA SumRemove ==
    ASSUME NEW S, IsFiniteSet(S), NEW w \in [S -> Nat], NEW T \in SUBSET S
    PROVE  /\ SumOver(w, T) \in Nat
           /\ SumOver(w, {}) = 0
           /\ \A x \in T : SumOver(w, T) = SumOver(w, T \ {x}) + w[x]
<1>1. \A U \in SUBSET S : SumOver(w, U) = Cardinality(Units(w, U))
    BY SumCounts
<1>2. Units(w, {}) = {}
    BY DEF Units
<1>3. \A x \in T : T \ {x} \in SUBSET S
    OBVIOUS
<1> QED BY <1>1, <1>2, <1>3, UnitsCount, FS_EmptySet

-----------------------------------------------------------------------------
(* Points.                                                                  *)
LEMMA ValueIs ==
    /\ Value({}) = 0
    /\ \A S \in SUBSET Challenges : Value(S) \in Nat
    /\ \A T \in SUBSET Challenges : \A S \in SUBSET T : Value(S) <= Value(T)
    /\ \A S \in SUBSET Challenges : \A ch \in Challenges :
         Worth[ch] \in Nat /\ Value(S \cup {ch}) <= Value(S) + Worth[ch]
<1>1. IsFiniteSet(Challenges) /\ Worth \in [Challenges -> Nat]
    BY UserDBAssumption
<1>2. \A S : Value(S) = SumOver(Worth, S)
    BY DEF Value, SumOver
<1>3. /\ SumOver(Worth, {}) = 0
      /\ \A S \in SUBSET Challenges : SumOver(Worth, S) \in Nat
    BY <1>1, SumRemove
<1>4. \A T \in SUBSET Challenges : \A S \in SUBSET T : SumOver(Worth, S) <= SumOver(Worth, T)
  <2> TAKE T \in SUBSET Challenges
  <2> TAKE S \in SUBSET T
  <2>1. /\ SumOver(Worth, S) = Cardinality(Units(Worth, S))
        /\ SumOver(Worth, T) = Cardinality(Units(Worth, T))
        /\ IsFiniteSet(Units(Worth, T))
      BY <1>1, SumCounts, UnitsCount
  <2>2. Units(Worth, S) \in SUBSET Units(Worth, T)
      BY DEF Units
  <2> QED BY <2>1, <2>2, FS_Subset
<1>5. \A S \in SUBSET Challenges : \A ch \in Challenges :
        /\ Worth[ch] \in Nat
        /\ SumOver(Worth, S \cup {ch}) <= SumOver(Worth, S) + Worth[ch]
  <2> TAKE S \in SUBSET Challenges
  <2> TAKE ch \in Challenges
  <2> DEFINE T == S \cup {ch}
  <2>1. T \in SUBSET Challenges /\ ch \in T /\ T \ {ch} \in SUBSET S /\ T \ {ch} \in SUBSET Challenges
      OBVIOUS
  <2> HIDE DEF T
  <2>2. SumOver(Worth, T) = SumOver(Worth, T \ {ch}) + Worth[ch]
      BY <1>1, <2>1, SumRemove
  <2>3. SumOver(Worth, T \ {ch}) <= SumOver(Worth, S)
      BY <1>4, <2>1
  <2> QED BY <1>1, <1>3, <2>1, <2>2, <2>3 DEF T
<1> QED BY <1>2, <1>3, <1>4, <1>5

-----------------------------------------------------------------------------
(* Operations and their stores.                                             *)
LEMMA OperationIsNotIdle ==
    \A o \in Operations : o # Idle
BY DEF Operations, Idle

(* A store leaves the operation without it, or ends it.                     *)
LEMMA StoreStep ==
    ASSUME NEW C, Staged(C), TypeInv, NEW s, Store(s), Suffix(op.stages, C)
    PROVE  LET L == Left(op.stages)
           IN  /\ op \in Operations /\ s \in Head(op.stages)
               /\ \/ op' = Idle /\ L \ {s} = {}
                  \/ /\ op' \in Operations /\ op' # Idle
                     /\ op' = [op EXCEPT !.stages = After(op.stages, s)]
                     /\ Suffix(op'.stages, C) /\ Left(op'.stages) = L \ {s}
<1> DEFINE st == op.stages
<1>1. op \in Operations /\ op # Idle /\ s \in Head(st)
    BY OperationIsNotIdle DEF TypeInv, Store
<1>2. CASE Head(st) \ {s} = {} /\ Len(st) = 1
  <2>1. op' = Idle
      BY <1>2 DEF Store
  <2>2. Left(st) = {s}
      BY <1>1, <1>2, StoreMade
  <2> QED BY <1>1, <2>1, <2>2
<1>3. CASE ~(Head(st) \ {s} = {} /\ Len(st) = 1)
  <2>1. op' = [op EXCEPT !.stages = After(st, s)]
      BY <1>3 DEF Store, After
  <2>2. Suffix(After(st, s), C) /\ Left(After(st, s)) = Left(st) \ {s}
      BY <1>1, <1>3, StoreMade
  <2>3. After(st, s) \in Seq(SUBSET Stores)
      BY <2>2 DEF Suffix
  <2>4. op' \in Operations /\ op'.stages = After(st, s)
      BY <1>1, <2>1, <2>3 DEF Operations
  <2> QED BY <1>1, <2>1, <2>2, <2>4, OperationIsNotIdle
<1> QED BY <1>2, <1>3

(* What a store puts the count out is what it leaves to be done.            *)
LEMMA AheadAfter ==
    ASSUME NEW L, \/ op' = Idle /\ L = {}
                  \/ op' # Idle /\ Left(op'.stages) = L
    PROVE  Ahead' = AheadOf(L)
BY DEF Ahead, AheadOf

(* Records in use can be counted.                                           *)
LEMMA ActiveIsFinite ==
    ASSUME NEW A \in SUBSET Ids
    PROVE  /\ IsFiniteSet(A) /\ Cardinality(A) \in 0 .. UserPool
           /\ A # {} => Cardinality(A) >= 1
           /\ \A i \in Ids \ A : /\ Cardinality(A \cup {i}) = Cardinality(A) + 1
                                 /\ Cardinality(A) <= UserPool - 1
           /\ \A i \in A : Cardinality(A \ {i}) = Cardinality(A) - 1
<1>1. IsFiniteSet(Ids) /\ Cardinality(Ids) = UserPool
    BY UserDBAssumption, FS_Interval DEF Ids
<1>2. IsFiniteSet(A) /\ Cardinality(A) \in Nat /\ Cardinality(A) <= UserPool
    BY <1>1, FS_Subset, FS_CardinalityType
<1>3. A # {} => Cardinality(A) >= 1
    BY <1>2, FS_EmptySet
<1>4. ASSUME NEW i \in Ids \ A
      PROVE  Cardinality(A \cup {i}) = Cardinality(A) + 1 /\ Cardinality(A) <= UserPool - 1
  <2>1. Cardinality(A \cup {i}) = Cardinality(A) + 1
      BY <1>2, FS_AddElement
  <2>2. Cardinality(A \cup {i}) <= UserPool
      BY <1>1, FS_Subset
  <2> QED BY <1>2, <2>1, <2>2, UserDBAssumption
<1>5. \A i \in A : Cardinality(A \ {i}) = Cardinality(A) - 1
    BY <1>2, FS_RemoveElement
<1> QED BY <1>2, <1>3, <1>4, <1>5, UserDBAssumption

-----------------------------------------------------------------------------
(* The invariant at the start of it all, ...                                *)
LEMMA UserInit == Init => UserInv
<1> HAVE Init
<1>1. ZeroRecord \in Records
    BY UserDBAssumption DEF ZeroRecord, Records, Places, Marks
<1>2. TypeInv
  <2>1. pool \in [Ids -> Records]
      BY <1>1 DEF Init
  <2>2. nameOf \in [Lives -> Names \cup {"no_name"}]
      BY DEF Init
  <2>3. lives \in 0 .. MaxLives /\ crashes \in 0 .. MaxCrashes
      BY UserDBAssumption DEF Init
  <2> QED BY <2>1, <2>2, <2>3 DEF Init, TypeInv
<1>3. Active = {}
    BY DEF Init, Active, ZeroRecord
<1>4. Started
    BY <1>3 DEF Init, Started
<1>5. Whole /\ Unique /\ UnderWay
    BY <1>3 DEF Init, Whole, Unique, UnderWay
<1>6. Cardinality(Active) = 0 /\ Ahead = 0
    BY <1>3, FS_EmptySet DEF Init, Ahead
<1>7. Drift
    BY <1>6 DEF Drift, Init
<1> QED BY <1>2, <1>4, <1>5, <1>7 DEF UserInv

(* ... kept where the records, the operation and the registrations are      *)
(* left alone,                                                              *)
LEMMA RecordsLeft ==
    ASSUME UserInv, pool' = pool, op' = op, nameOf' = nameOf, lives' = lives
    PROVE  Active' = Active /\ Whole' /\ Unique' /\ UnderWay' /\ Ahead' = Ahead
<1>1. Active' = Active
    BY DEF Active
<1>2. Whole'
    BY <1>1 DEF UserInv, Whole
<1>3. Unique'
    BY <1>1 DEF UserInv, Unique, AskedApart, NameKept
<1>4. UnderWay'
    BY <1>1 DEF UserInv, UnderWay, Creates, Deletes, Verifies, Earlier, NameKept
<1>5. Ahead' = Ahead
    BY DEF Ahead
<1> QED BY <1>1, <1>2, <1>3, <1>4, <1>5

(* by the start of the process,                                             *)
LEMMA StartStep == UserInv /\ StartUp => UserInv'
<1> HAVE UserInv /\ StartUp
<1>1. CASE InitZeroes
  <2>1. ZeroRecord \in Records
      BY UserDBAssumption DEF ZeroRecord, Records, Places, Marks
  <2>2. TypeInv'
      BY <1>1, <2>1 DEF UserInv, TypeInv, InitZeroes, At, ghostVars
  <2>3. op = Idle /\ op' = Idle /\ ~file.magic /\ Active = {} /\ file' = file /\ crashes' = crashes
      BY <1>1 DEF UserInv, Started, InitZeroes, At, ghostVars
  <2>4. Active' = {}
      BY <1>1 DEF Active, InitZeroes, ZeroRecord
  <2>5. Started'
      BY <1>1, <2>3, <2>4 DEF UserInv, Started, InitZeroes, At
  <2>6. Whole' /\ Unique' /\ UnderWay'
      BY <2>3, <2>4 DEF Whole, Unique, UnderWay
  <2>7. Drift'
      BY <2>3, <2>4 DEF UserInv, Drift, Ahead
  <2> QED BY <2>2, <2>5, <2>6, <2>7 DEF UserInv
<1>2. CASE ~InitZeroes
  <2>1. /\ pool' = pool /\ op' = op /\ nameOf' = nameOf /\ lives' = lives /\ crashes' = crashes
        /\ file'.count = file.count
      BY <1>2 DEF UserInv, TypeInv, StartUp, InitOpens, InitTruncates, InitWritesHeader, SetupUnlinks,
                  SetupBinds, fileVars, ghostVars
  <2>2. TypeInv'
      BY <1>2 DEF UserInv, TypeInv, StartUp, InitOpens, InitTruncates, InitWritesHeader,
                  SetupUnlinks, SetupBinds, At, fileVars, ghostVars
  <2>3. Active' = Active /\ Whole' /\ Unique' /\ UnderWay' /\ Ahead' = Ahead
      BY <2>1, RecordsLeft
  <2>4. Started'
    <3>1. ~file.magic /\ ~file'.magic => file'.count = 0 /\ Active' = {}
        BY <2>1, <2>3 DEF UserInv, Started
    <3>2. CASE InitOpens
        BY <2>1, <3>1, <3>2 DEF UserInv, TypeInv, Started, InitOpens, fileVars, ghostVars
    <3>3. CASE InitTruncates
      <4>1. proc = "sizing" /\ proc' = "zeroing" /\ op' = op
            /\ file'.sized = TRUE /\ file'.magic = file.magic
          BY <3>3 DEF UserInv, TypeInv, InitTruncates, At
      <4>2. op = Idle /\ ~file.magic
          BY <4>1 DEF UserInv, Started
      <4> QED BY <3>1, <4>1, <4>2 DEF Started
    <3>4. CASE InitWritesHeader
        BY <2>1, <3>1, <3>4 DEF UserInv, TypeInv, Started, InitWritesHeader, ghostVars
    <3>5. CASE SetupUnlinks
        BY <2>1, <3>1, <3>5 DEF UserInv, TypeInv, Started, SetupUnlinks, At, fileVars, ghostVars
    <3>6. CASE SetupBinds
        BY <2>1, <3>1, <3>6 DEF UserInv, TypeInv, Started, SetupBinds, At, fileVars, ghostVars
    <3> QED BY <1>2, <3>2, <3>3, <3>4, <3>5, <3>6 DEF StartUp
  <2>5. Drift'
      BY <2>1, <2>3 DEF UserInv, Drift
  <2> QED BY <2>2, <2>3, <2>4, <2>5 DEF UserInv
<1> QED BY <1>1, <1>2

(* by its end,                                                              *)
LEMMA EndStep == UserInv /\ Killed => UserInv'
<1> HAVE UserInv /\ Killed
<1>1. /\ proc' = "down" /\ op' = Idle /\ crashes' = crashes + 1 /\ file' = file
      /\ pool' = pool /\ nameOf' = nameOf /\ lives' = lives /\ crashes \in Nat
      BY DEF Killed, UserInv, TypeInv, fileVars
<1>2. TypeInv'
    BY UserDBAssumption DEF UserInv, TypeInv, Killed, fileVars
<1>3. Active' = Active
    BY <1>1 DEF Active
<1>4. Started' /\ Whole' /\ Unique' /\ UnderWay'
    BY <1>1, <1>3 DEF UserInv, Started, Whole, Unique, UnderWay, AskedApart, NameKept
<1>5. Ahead \in -1 .. 1 /\ Ahead' = 0
  <2>1. CASE op = Idle
      BY <1>1, <2>1 DEF Ahead
  <2>2. CASE op # Idle
    <3> DEFINE L == Left(op.stages)
    <3>1. \/ "active" \notin L /\ "counted" \notin L
          \/ "inactive" \notin L /\ "uncounted" \notin L
        BY <2>2, LeftOf DEF UserInv, UnderWay, Creates, Deletes, Verifies
    <3> QED BY <1>1, <2>2, <3>1 DEF Ahead, AheadOf
  <2> QED BY <2>1, <2>2
<1>6. Drift'
  <2>1. Cardinality(Active) \in Nat /\ file.count \in Nat
      BY ActiveIsFinite DEF Active, UserInv, TypeInv
  <2> QED BY <1>1, <1>3, <1>5, <2>1 DEF UserInv, Drift
<1> QED BY <1>2, <1>4, <1>6 DEF UserInv

(* by the beginning of an operation: nothing is stored yet,                 *)
LEMMA BeginStep ==
    ASSUME UserInv, NEW i \in Ids, NEW what \in Lives \cup {Nobody} \cup Challenges, NEW C,
           Staged(C), C # <<>>, AheadOf(Left(C)) = 0, Perform(i, what, C),
           UNCHANGED <<file, pool, sock, proc, crashes>>,
           lives' \in lives .. MaxLives, nameOf' \in [Lives -> Names \cup {"no_name"}],
           \A l \in 1 .. lives : nameOf'[l] = nameOf[l],
           (Creates \/ Deletes \/ Verifies)'
    PROVE  UserInv'
<1>1. /\ op' = [id |-> i, what |-> what, slot |-> pool[i].count + 1, stages |-> C]
      /\ proc = "serving" /\ op = Idle
    BY DEF Perform
<1>2. op' \in Operations
  <2>1. pool[i].count \in Nat
      BY DEF UserInv, TypeInv, Records
  <2> QED BY <1>1, <2>1 DEF Operations, Staged
<1>3. TypeInv'
    BY <1>2 DEF UserInv, TypeInv
<1>4. Active' = Active
    BY DEF Active
<1>5. Started'
    BY <1>1, <1>4 DEF UserInv, Started
<1>6. lives \in Nat /\ lives' \in Nat /\ lives <= lives'
    BY DEF UserInv, TypeInv
<1>7. \A j \in Active : /\ pool'[j] = pool[j] /\ pool[j].name \in 1 .. lives
                        /\ nameOf'[pool'[j].name] = nameOf[pool[j].name]
    BY DEF UserInv, Whole
<1>8. Whole'
  <2> SUFFICES ASSUME NEW j \in Active
               PROVE  /\ pool'[j].name \in 1 .. lives'
                      /\ pool'[j].text = pool'[j].name /\ pool'[j].pass = pool'[j].name
                      /\ pool'[j].points >= Value(Listed(pool'[j]))
      BY <1>4 DEF Whole
  <2> QED BY <1>6, <1>7 DEF UserInv, Whole
<1>9. Unique'
  <2> SUFFICES ASSUME NEW j \in Active, NEW k \in Active, j # k
               PROVE  AskedApart(pool[j].name, pool[k].name)'
      BY <1>4 DEF Unique
  <2>1. AskedApart(pool[j].name, pool[k].name)
      BY DEF UserInv, Unique
  <2> QED BY <1>7, <2>1 DEF AskedApart, NameKept
<1>10. Drift'
  <2>1. Ahead = 0 /\ Ahead' = 0
      BY <1>1, <1>2, OperationIsNotIdle DEF Ahead
  <2> QED BY <1>4, <2>1 DEF UserInv, Drift
<1> QED BY <1>3, <1>5, <1>8, <1>9, <1>10 DEF UserInv, UnderWay

(* a registration,                                                          *)
LEMMA CreateStep ==
    ASSUME UserInv, NEW n \in Names, Create(n)
    PROVE  UserInv'
<1> DEFINE i == Min(Ids \ Active)
           C == CreateStages
<1>1. i \in Ids \ Active
  <2>1. Ids \ Active \in SUBSET Nat /\ Ids \ Active # {}
      BY UserDBAssumption DEF Create, Active, Ids
  <2> QED BY <2>1, MinOfSet
<1>2. /\ lives' = lives + 1 /\ lives < MaxLives /\ lives \in Nat /\ MaxLives \in Nat
      /\ lives + 1 \in Lives /\ nameOf' = [nameOf EXCEPT ![lives + 1] = n]
      /\ nameOf' \in [Lives -> Names \cup {"no_name"}] /\ nameOf'[lives + 1] = n
      /\ \A l \in 1 .. lives : nameOf'[l] = nameOf[l]
    BY UserDBAssumption DEF Create, UserInv, TypeInv, Lives
<1>3. Staged(C) /\ C # <<>> /\ Suffix(C, C)
    BY StagesAreStaged, AllLeft DEF CreateStages
<1>4. \A x \in {"name", "end_of_name", "text", "pass", "points", "count", "hashes", "active",
                "counted"} : x \in Left(C)
    BY CreateStagesAre DEF Left
<1>5. "inactive" \notin Left(C) /\ "uncounted" \notin Left(C)
    BY <1>3, LeftOf
<1>6. AheadOf(Left(C)) = 0
    BY <1>4, <1>5 DEF AheadOf
<1>7. op'.id = i /\ op'.what = lives + 1 /\ op'.stages = C /\ pool' = pool
    BY DEF Create, Perform, fileVars
<1>8. Active' = Active
    BY <1>7 DEF Active
<1>9. Creates'
  <2>1. pool'[i].active = FALSE
      BY <1>1, <1>7 DEF Active, UserInv, TypeInv, Records
  <2>2. ASSUME NEW j \in Active
        PROVE  pool'[j].name < lives + 1 /\ Cut[nameOf'[pool'[j].name]] # n
    <3>1. pool[j].name \in 1 .. lives /\ pool[j].name \in Lives
        BY <1>2 DEF UserInv, Whole, Lives
    <3>2. Cut[nameOf[pool[j].name]] # n
        BY <3>1 DEF Create, Named, NameKept
    <3> QED BY <1>2, <1>7, <3>1, <3>2
  <2> HIDE DEF i, C
  <2>3. \A j \in Active : Earlier(pool[j].name, op.what)'
      BY <1>2, <1>7, <2>2 DEF Earlier, NameKept
  <2> QED BY <1>2, <1>3, <1>4, <1>7, <1>8, <2>1, <2>3 DEF Creates, C
<1> HIDE DEF i, C
<1>10. Perform(i, lives + 1, C)
    BY DEF Create, i, C
<1>11. UNCHANGED <<file, pool, sock, proc, crashes>>
    BY DEF Create, fileVars
<1> QED BY <1>1, <1>2, <1>3, <1>6, <1>9, <1>10, <1>11, BeginStep

(* a deletion                                                               *)
LEMMA DeleteStep ==
    ASSUME UserInv, NEW i \in Ids, Delete(i)
    PROVE  UserInv'
<1> DEFINE C == DeleteStages
<1>1. Staged(C) /\ C # <<>> /\ Suffix(C, C)
    BY StagesAreStaged, AllLeft DEF DeleteStages
<1>2. Left(C) = {"inactive", "uncounted"}
    BY DEF DeleteStages, Left
<1>3. AheadOf(Left(C)) = 0
    BY <1>2 DEF AheadOf
<1>4. /\ Perform(i, Nobody, C) /\ i \in Active
      /\ UNCHANGED <<file, pool, sock, proc, crashes>> /\ lives' = lives /\ nameOf' = nameOf
    BY DEF Delete, DeleteStages, fileVars, ghostVars
<1>5. op'.id = i /\ op'.stages = C /\ pool'[i].active = TRUE
    BY <1>4 DEF Perform, Active, UserInv, TypeInv, Records
<1> HIDE DEF C
<1>6. Deletes'
    BY <1>1, <1>2, <1>5 DEF Deletes, C
<1>7. lives' \in lives .. MaxLives /\ nameOf' \in [Lives -> Names \cup {"no_name"}]
    BY <1>4, UserDBAssumption DEF UserInv, TypeInv
<1> QED BY <1>1, <1>3, <1>4, <1>6, <1>7, BeginStep

(* or a solution.                                                           *)
LEMMA VerifyStep ==
    ASSUME UserInv, NEW i \in Ids, NEW ch \in Challenges, ChallengeVerify(i, ch)
    PROVE  UserInv'
<1> DEFINE r == pool[i]
           C == VerifyStages(r, ch)
<1>1. /\ Perform(i, ch, C) /\ i \in Active /\ r.points + Worth[ch] <= MaxPoints
      /\ UNCHANGED <<file, pool, sock, proc, crashes>> /\ lives' = lives /\ nameOf' = nameOf
    BY DEF ChallengeVerify, fileVars, ghostVars
<1>2. /\ op'.id = i /\ op'.what = ch /\ op'.slot = r.count + 1 /\ op'.stages = C
      /\ pool'[i] = r /\ r.active = TRUE /\ r.count \in 0 .. MaxDone
    BY <1>1 DEF Perform, Active, UserInv, TypeInv, Records
<1>3. CASE ch \in Recorded(r) \/ r.count = MaxDone
  <2>1. C = ShortStages
      BY <1>3 DEF VerifyStages, ShortStages
  <2>2. Staged(C) /\ C # <<>> /\ Suffix(C, C)
      BY <2>1, StagesAreStaged, AllLeft DEF ShortStages
  <2>3. Left(C) = {"credit"}
      BY <2>1 DEF ShortStages, Left
  <2>4. AheadOf(Left(C)) = 0
      BY <2>3 DEF AheadOf
  <2> HIDE DEF C
  <2>5. Verifies'
      BY <1>1, <1>2, <2>1, <2>2, <2>3 DEF Verifies
  <2>6. lives' \in lives .. MaxLives /\ nameOf' \in [Lives -> Names \cup {"no_name"}]
      BY <1>1, UserDBAssumption DEF UserInv, TypeInv
  <2> QED BY <1>1, <2>2, <2>4, <2>5, <2>6, BeginStep
<1>4. CASE ~(ch \in Recorded(r) \/ r.count = MaxDone)
  <2>1. C = LongStages
      BY <1>4 DEF VerifyStages, LongStages
  <2>2. Staged(C) /\ C # <<>> /\ Suffix(C, C)
      BY <2>1, StagesAreStaged, AllLeft DEF LongStages
  <2>3. Left(C) = {"credit", "hash", "another"}
      BY <2>1 DEF LongStages, Left
  <2>4. AheadOf(Left(C)) = 0
      BY <2>3 DEF AheadOf
  <2>5. /\ r.count + 1 \in Places /\ r.count = (r.count + 1) - 1
        /\ \A k \in 1 .. ((r.count + 1) - 1) : r.hashes[k] # ch
      BY <1>2, <1>4, UserDBAssumption DEF Places, Recorded
  <2> HIDE DEF C
  <2>6. Verifies'
      BY <1>1, <1>2, <2>1, <2>2, <2>3, <2>5 DEF Verifies
  <2>7. lives' \in lives .. MaxLives /\ nameOf' \in [Lives -> Names \cup {"no_name"}]
      BY <1>1, UserDBAssumption DEF UserInv, TypeInv
  <2> QED BY <1>1, <2>2, <2>4, <2>6, <2>7, BeginStep
<1> QED BY <1>3, <1>4

-----------------------------------------------------------------------------
(* What each store does to the record of the operation under way.           *)
LEMMA StoredIs ==
    ASSUME NEW r
    PROVE  /\ Stored(r, "name") = [r EXCEPT !.name = Torn]
           /\ Stored(r, "end_of_name") = [r EXCEPT !.name = op.what]
           /\ Stored(r, "text") = [r EXCEPT !.text = op.what]
           /\ Stored(r, "pass") = [r EXCEPT !.pass = op.what]
           /\ Stored(r, "points") = [r EXCEPT !.points = 0]
           /\ Stored(r, "count") = [r EXCEPT !.count = 0]
           /\ Stored(r, "hashes") = [r EXCEPT !.hashes = [k \in DOMAIN r.hashes |-> NoHash]]
           /\ Stored(r, "active") = [r EXCEPT !.active = TRUE]
           /\ Stored(r, "inactive") = [r EXCEPT !.active = FALSE]
           /\ Stored(r, "credit") = [r EXCEPT !.points = r.points + Worth[op.what]]
           /\ Stored(r, "hash") = [r EXCEPT !.hashes[op.slot] = op.what]
           /\ Stored(r, "another") = [r EXCEPT !.count = op.slot]
           /\ Stored(r, "counted") = r /\ Stored(r, "uncounted") = r
BY DEF Stored

(* A store leaves the rest of the file and of the process as it is.         *)
LEMMA StoreLeaves ==
    ASSUME UserInv, NEW s, Store(s), op \in Operations, NEW q, q = Stored(pool[op.id], s)
    PROVE  /\ pool' = [pool EXCEPT ![op.id] = q] /\ pool'[op.id] = q
           /\ \A j \in Ids : j # op.id => pool'[j] = pool[j]
           /\ file'.sized = file.sized /\ file'.magic = file.magic /\ file'.count = Counted(s)
           /\ q \in Records => pool' \in [Ids -> Records]
           /\ Counted(s) \in Nat => file' \in [sized : BOOLEAN, magic : BOOLEAN, count : Nat]
           /\ proc = "serving" /\ file.magic /\ file.sized
           /\ UNCHANGED <<sock, proc, nameOf, lives, crashes>>
<1>1. /\ pool' = [pool EXCEPT ![op.id] = q] /\ file' = [file EXCEPT !.count = Counted(s)]
      /\ op # Idle /\ UNCHANGED <<sock, proc, nameOf, lives, crashes>>
    BY DEF Store, ghostVars
<1>2. op.id \in Ids /\ pool \in [Ids -> Records]
      /\ file \in [sized : BOOLEAN, magic : BOOLEAN, count : Nat]
    BY DEF Operations, UserInv, TypeInv
<1>3. proc = "serving" /\ file.magic /\ file.sized
    BY <1>1 DEF UserInv, Started
<1> QED BY <1>1, <1>2, <1>3

(* The invariant holds after a store, given what it takes of it.            *)
LEMMA AfterStore ==
    ASSUME UserInv, NEW s, Store(s), op \in Operations, NEW q \in Records,
           q = Stored(pool[op.id], s), Counted(s) \in Nat, op' = Idle \/ op' \in Operations,
           q.active => /\ q.name \in 1 .. lives /\ q.text = q.name /\ q.pass = q.name
                       /\ q.points >= Value(Listed(q)),
           q.active => \A j \in Active \ {op.id} : AskedApart(pool[j].name, q.name),
           op' # Idle => (Creates \/ Deletes \/ Verifies)',
           Counted(s) - Cardinality(Active') - Ahead' \in -crashes .. crashes
    PROVE  UserInv'
<1>1. /\ pool'[op.id] = q /\ \A j \in Ids : j # op.id => pool'[j] = pool[j]
      /\ file'.sized = file.sized /\ file'.magic = file.magic /\ file'.count = Counted(s)
      /\ pool' \in [Ids -> Records]
      /\ file' \in [sized : BOOLEAN, magic : BOOLEAN, count : Nat]
      /\ proc = "serving" /\ file.magic /\ file.sized
      /\ UNCHANGED <<sock, proc, nameOf, lives, crashes>>
    BY StoreLeaves
<1>2. TypeInv'
    BY <1>1 DEF UserInv, TypeInv
<1>3. Started'
    BY <1>1 DEF Started
<1>4. \A j \in Active' : j \in Ids /\ (j # op.id => j \in Active /\ pool'[j] = pool[j])
                                   /\ (j = op.id => q.active)
    BY <1>1 DEF Active
<1>5. Whole'
  <2> SUFFICES ASSUME NEW j \in Active'
               PROVE  /\ pool'[j].name \in 1 .. lives
                      /\ pool'[j].text = pool'[j].name /\ pool'[j].pass = pool'[j].name
                      /\ pool'[j].points >= Value(Listed(pool'[j]))
      BY <1>1 DEF Whole
  <2>1. CASE j = op.id
      BY <1>1, <1>4, <2>1
  <2>2. CASE j # op.id
      BY <1>4, <2>2 DEF UserInv, Whole
  <2> QED BY <2>1, <2>2
<1>6. Unique'
  <2> SUFFICES ASSUME NEW j \in Active', NEW k \in Active', j # k
               PROVE  AskedApart(pool'[j].name, pool'[k].name)
      BY <1>1 DEF Unique, AskedApart, NameKept
  <2>1. CASE j = op.id \/ k = op.id
      BY <1>1, <1>4, <2>1 DEF AskedApart
  <2>2. CASE j # op.id /\ k # op.id
      BY <1>4, <2>2 DEF UserInv, Unique
  <2> QED BY <2>1, <2>2
<1>7. Drift'
    BY <1>1 DEF Drift, UserInv, TypeInv
<1> QED BY <1>2, <1>3, <1>5, <1>6, <1>7 DEF UserInv, UnderWay

(* A store of a registration.                                               *)
LEMMA CreateStore ==
    ASSUME UserInv, NEW s, Store(s), Creates
    PROVE  UserInv'
<1> DEFINE i == op.id
           r == pool[i]
           L == Left(op.stages)
           K == L \ {s}
           q == Stored(r, s)
<1>1. /\ op \in Operations /\ s \in Head(op.stages) /\ Suffix(op.stages, CreateStages)
      /\ \/ op' = Idle /\ K = {}
         \/ /\ op' \in Operations /\ op' # Idle
            /\ op' = [op EXCEPT !.stages = After(op.stages, s)]
            /\ Suffix(op'.stages, CreateStages) /\ Left(op'.stages) = K
    BY StagesAreStaged, StoreStep DEF UserInv, Creates
<1>2. i \in Ids /\ r \in Records /\ op.what \in 1 .. lives /\ op.what \in Lives
      /\ r.hashes \in [Places -> Challenges \cup {NoHash}]
  <2>1. i \in Ids /\ op.what \in 1 .. lives
      BY <1>1 DEF Operations, Creates
  <2>2. pool \in [Ids -> Records] /\ lives \in 0 .. MaxLives /\ MaxLives \in Nat
      BY UserDBAssumption DEF UserInv, TypeInv
  <2>3. r \in Records
      BY <2>1, <2>2
  <2>4. r.hashes \in [Places -> Challenges \cup {NoHash}]
      BY <2>3 DEF Records
  <2>5. op.what \in Lives
      BY <2>1, <2>2 DEF Lives
  <2> QED BY <2>1, <2>3, <2>4, <2>5
<1>3. /\ pool'[i] = q /\ \A j \in Ids : j # i => pool'[j] = pool[j]
      /\ lives' = lives /\ nameOf' = nameOf /\ crashes' = crashes
    BY <1>1, StoreLeaves
<1>4. /\ s \in L
      /\ s \in {"name", "end_of_name", "text", "pass", "points", "count", "hashes", "active",
                "counted"}
      /\ "inactive" \notin L /\ "uncounted" \notin L
      /\ s = "name" => "end_of_name" \in L
      /\ s \in {"active", "counted"} => L \subseteq {"active", "counted"}
      /\ s \notin {"active", "counted"} => "active" \in L /\ "counted" \in L
    BY <1>1, CreateOrder
<1>5. /\ r.active <=> "active" \notin L
      /\ "end_of_name" \notin L => r.name = op.what
      /\ "text" \notin L => r.text = op.what
      /\ "pass" \notin L => r.pass = op.what
      /\ "points" \notin L => r.points = 0
      /\ "count" \notin L => r.count = 0
      /\ "hashes" \notin L => r.hashes = [k \in Places |-> NoHash]
      /\ "active" \in L => \A j \in Active : Earlier(pool[j].name, op.what)
    BY DEF Creates
<1>6. /\ q \in Records
      /\ q.active <=> "active" \notin K
      /\ "end_of_name" \notin K => q.name = op.what
      /\ "text" \notin K => q.text = op.what
      /\ "pass" \notin K => q.pass = op.what
      /\ "points" \notin K => q.points = 0
      /\ "count" \notin K => q.count = 0
      /\ "hashes" \notin K => q.hashes = [k \in Places |-> NoHash]
  <2>1. /\ r \in [active : BOOLEAN, name : Marks, text : Marks, pass : Marks,
                  points : 0 .. MaxPoints, count : 0 .. MaxDone,
                  hashes : [Places -> Challenges \cup {NoHash}]]
        /\ Torn \in Marks /\ op.what \in Marks /\ 0 \in 0 .. MaxPoints /\ 0 \in 0 .. MaxDone
        /\ [k \in Places |-> NoHash] \in [Places -> Challenges \cup {NoHash}]
      BY <1>2, UserDBAssumption DEF Records, Marks
  <2>2. CASE s = "name"
    <3>1. q = [r EXCEPT !.name = Torn]
        BY <1>2, <2>2, StoredIs
    <3> HIDE DEF q
    <3>2. /\ q \in Records /\ q.name = Torn
          /\ q.active = r.active /\ q.text = r.text /\ q.pass = r.pass
          /\ q.points = r.points /\ q.count = r.count /\ q.hashes = r.hashes
        BY <2>1, <3>1 DEF Records
    <3> QED BY <1>4, <1>5, <2>2, <3>2
  <2>3. CASE s = "end_of_name"
    <3>1. q = [r EXCEPT !.name = op.what]
        BY <1>2, <2>3, StoredIs
    <3> HIDE DEF q
    <3>2. /\ q \in Records /\ q.name = op.what
          /\ q.active = r.active /\ q.text = r.text /\ q.pass = r.pass
          /\ q.points = r.points /\ q.count = r.count /\ q.hashes = r.hashes
        BY <2>1, <3>1 DEF Records
    <3> QED BY <1>4, <1>5, <2>3, <3>2
  <2>4. CASE s = "text"
    <3>1. q = [r EXCEPT !.text = op.what]
        BY <1>2, <2>4, StoredIs
    <3> HIDE DEF q
    <3>2. /\ q \in Records /\ q.text = op.what
          /\ q.active = r.active /\ q.name = r.name /\ q.pass = r.pass
          /\ q.points = r.points /\ q.count = r.count /\ q.hashes = r.hashes
        BY <2>1, <3>1 DEF Records
    <3> QED BY <1>4, <1>5, <2>4, <3>2
  <2>5. CASE s = "pass"
    <3>1. q = [r EXCEPT !.pass = op.what]
        BY <1>2, <2>5, StoredIs
    <3> HIDE DEF q
    <3>2. /\ q \in Records /\ q.pass = op.what
          /\ q.active = r.active /\ q.name = r.name /\ q.text = r.text
          /\ q.points = r.points /\ q.count = r.count /\ q.hashes = r.hashes
        BY <2>1, <3>1 DEF Records
    <3> QED BY <1>4, <1>5, <2>5, <3>2
  <2>6. CASE s = "points"
    <3>1. q = [r EXCEPT !.points = 0]
        BY <1>2, <2>6, StoredIs
    <3> HIDE DEF q
    <3>2. /\ q \in Records /\ q.points = 0
          /\ q.active = r.active /\ q.name = r.name /\ q.text = r.text
          /\ q.pass = r.pass /\ q.count = r.count /\ q.hashes = r.hashes
        BY <2>1, <3>1 DEF Records
    <3> QED BY <1>4, <1>5, <2>6, <3>2
  <2>7. CASE s = "count"
    <3>1. q = [r EXCEPT !.count = 0]
        BY <1>2, <2>7, StoredIs
    <3> HIDE DEF q
    <3>2. /\ q \in Records /\ q.count = 0
          /\ q.active = r.active /\ q.name = r.name /\ q.text = r.text
          /\ q.pass = r.pass /\ q.points = r.points /\ q.hashes = r.hashes
        BY <2>1, <3>1 DEF Records
    <3> QED BY <1>4, <1>5, <2>7, <3>2
  <2>8. CASE s = "hashes"
    <3>1. q = [r EXCEPT !.hashes = [k \in Places |-> NoHash]]
        BY <1>2, <2>8, StoredIs
    <3> HIDE DEF q
    <3>2. /\ q \in Records /\ q.hashes = [k \in Places |-> NoHash]
          /\ q.active = r.active /\ q.name = r.name /\ q.text = r.text
          /\ q.pass = r.pass /\ q.points = r.points /\ q.count = r.count
        BY <2>1, <3>1 DEF Records
    <3> QED BY <1>4, <1>5, <2>8, <3>2
  <2>9. CASE s = "active"
    <3>1. q = [r EXCEPT !.active = TRUE]
        BY <1>2, <2>9, StoredIs
    <3> HIDE DEF q
    <3>2. /\ q \in Records /\ q.active = TRUE
          /\ q.name = r.name /\ q.text = r.text /\ q.pass = r.pass
          /\ q.points = r.points /\ q.count = r.count /\ q.hashes = r.hashes
        BY <2>1, <3>1 DEF Records
    <3> QED BY <1>4, <1>5, <2>9, <3>2
  <2>10. CASE s = "counted"
    <3>1. q = r
        BY <2>10, StoredIs
    <3> HIDE DEF q
    <3> QED BY <1>2, <1>4, <1>5, <2>10, <3>1
  <2> HIDE DEF q
  <2> QED BY <1>4, <2>2, <2>3, <2>4, <2>5, <2>6, <2>7, <2>8, <2>9, <2>10
<1>7. Active' = IF s = "active" THEN Active \cup {i} ELSE Active
  <2>1. Active' = {j \in Ids \ {i} : pool[j].active} \cup (IF q.active THEN {i} ELSE {})
      BY <1>2, <1>3 DEF Active
  <2>2. q.active <=> r.active \/ s = "active"
      BY <1>4, <1>5, <1>6
  <2> HIDE DEF q
  <2> QED BY <1>2, <2>1, <2>2 DEF Active
<1> HIDE DEF q, K
<1>8. op' # Idle => Creates'
  <2> HAVE op' # Idle
  <2>1. op'.id = i /\ op'.what = op.what /\ Left(op'.stages) = K
        /\ Suffix(op'.stages, CreateStages)
      BY <1>1 DEF Operations
  <2>2. "active" \in K => Active' = Active /\ \A j \in Active : j # i
      BY <1>5, <1>7 DEF Active, K
  <2>3. "active" \in K => \A j \in Active' : Earlier(pool[j].name, op.what)'
    <3> HAVE "active" \in K
    <3>1. ASSUME NEW j \in Active
          PROVE  pool'[j] = pool[j] /\ Earlier(pool[j].name, op.what)
        BY <1>3, <1>5, <2>2 DEF K, Active
    <3> QED BY <1>3, <2>1, <2>2, <3>1 DEF Earlier, NameKept
  <2> QED BY <1>2, <1>3, <1>6, <2>1, <2>3 DEF Creates
<1>9. q.active => /\ q.name \in 1 .. lives /\ q.text = q.name /\ q.pass = q.name
                  /\ q.points >= Value(Listed(q))
  <2> HAVE q.active
  <2>1. CASE s = "active"
    <3>1. /\ q.name = op.what /\ q.text = op.what /\ q.pass = op.what
          /\ q.points = 0 /\ q.hashes = [k \in Places |-> NoHash]
        BY <1>4, <1>6, <2>1 DEF K
    <3>2. Listed(q) = {}
        BY <3>1 DEF Listed
    <3> QED BY <1>2, <3>1, <3>2, ValueIs
  <2>2. CASE s # "active"
    <3>1. s = "counted" /\ r.active
        BY <1>4, <1>5, <1>6, <2>2 DEF K
    <3>2. q = r /\ i \in Active
        BY <1>2, <3>1, StoredIs DEF Active, q
    <3> QED BY <3>2 DEF UserInv, Whole
  <2> QED BY <2>1, <2>2
<1>10. q.active => \A j \in Active \ {op.id} : AskedApart(pool[j].name, q.name)
  <2> HAVE q.active
  <2>1. CASE s = "active"
    <3>1. q.name = op.what /\ \A j \in Active : Earlier(pool[j].name, op.what)
        BY <1>4, <1>5, <1>6, <2>1 DEF K
    <3>2. \A j \in Active : pool[j].name \in Nat /\ op.what \in Nat
        BY <1>2 DEF UserInv, Whole
    <3> QED BY <3>1, <3>2 DEF Earlier, AskedApart
  <2>2. CASE s # "active"
    <3>1. s = "counted" /\ r.active
        BY <1>4, <1>5, <1>6, <2>2 DEF K
    <3>2. q = r /\ i \in Active
        BY <1>2, <3>1, StoredIs DEF Active, q
    <3> QED BY <3>2 DEF UserInv, Unique
  <2> QED BY <2>1, <2>2
<1>11. /\ Counted(s) = IF s = "counted" THEN file.count + 1 ELSE file.count
       /\ file.count \in Nat /\ crashes \in Nat
    BY <1>4 DEF Counted, UserInv, TypeInv
<1>12. Counted(s) - Cardinality(Active') - Ahead' \in -crashes .. crashes
  <2>1. Ahead' = AheadOf(K)
      BY <1>1, AheadAfter
  <2>2. Ahead = AheadOf(L) /\ op # Idle
      BY <1>1, OperationIsNotIdle DEF Ahead
  <2>3. AheadOf(K) = AheadOf(L) - (IF s = "active" THEN 1 ELSE 0) + (IF s = "counted" THEN 1 ELSE 0)
      BY <1>4 DEF AheadOf, K
  <2>4. Active \in SUBSET Ids /\ (s = "active" => i \in Ids \ Active)
      BY <1>2, <1>4, <1>5 DEF Active
  <2>5. Cardinality(Active) \in Nat
        /\ Cardinality(Active') = Cardinality(Active) + (IF s = "active" THEN 1 ELSE 0)
      BY <1>7, <2>4, ActiveIsFinite
  <2>6. AheadOf(L) \in Int
      BY DEF AheadOf
  <2>7. /\ -crashes <= file.count - Cardinality(Active) - AheadOf(L)
        /\ file.count - Cardinality(Active) - AheadOf(L) <= crashes
      BY <2>2 DEF UserInv, Drift
  <2> QED BY <1>11, <2>1, <2>3, <2>5, <2>6, <2>7
<1>13. Counted(s) \in Nat /\ (op' = Idle \/ op' \in Operations)
    BY <1>1, <1>11
<1>14. q = Stored(pool[op.id], s)
    BY DEF q
<1> QED BY <1>1, <1>6, <1>8, <1>9, <1>10, <1>12, <1>13, <1>14, AfterStore

(* A store of a deletion: the count is not taken below zero.                *)
LEMMA DeleteStore ==
    ASSUME UserInv, NEW s, Store(s), Deletes
    PROVE  UserInv'
<1> DEFINE i == op.id
           r == pool[i]
           L == Left(op.stages)
           K == L \ {s}
           q == Stored(r, s)
<1>1. /\ op \in Operations /\ s \in Head(op.stages) /\ Suffix(op.stages, DeleteStages)
      /\ \/ op' = Idle /\ K = {}
         \/ /\ op' \in Operations /\ op' # Idle
            /\ op' = [op EXCEPT !.stages = After(op.stages, s)]
            /\ Suffix(op'.stages, DeleteStages) /\ Left(op'.stages) = K
    BY StagesAreStaged, StoreStep DEF UserInv, Deletes
<1>2. i \in Ids /\ r \in Records
    BY <1>1 DEF UserInv, TypeInv, Operations
<1>3. /\ pool'[i] = q /\ \A j \in Ids : j # i => pool'[j] = pool[j]
      /\ lives' = lives /\ nameOf' = nameOf /\ crashes' = crashes
    BY <1>1, StoreLeaves
<1>4. s \in L /\ L \subseteq {"inactive", "uncounted"}
    BY <1>1, DeleteOrder
<1>5. r.active <=> "inactive" \in L
    BY DEF Deletes
<1>6. /\ q \in Records /\ (q.active <=> "inactive" \in K)
      /\ s = "uncounted" => q = r
  <2>1. CASE s = "inactive"
    <3>1. q = [r EXCEPT !.active = FALSE]
        BY <2>1, StoredIs
    <3> HIDE DEF q
    <3>2. q \in Records /\ q.active = FALSE
        BY <1>2, <3>1 DEF Records
    <3> QED BY <2>1, <3>2
  <2>2. CASE s = "uncounted"
    <3>1. q = r
        BY <2>2, StoredIs
    <3> HIDE DEF q
    <3> QED BY <1>2, <1>5, <2>2, <3>1
  <2> HIDE DEF q
  <2> QED BY <1>4, <2>1, <2>2
<1> HIDE DEF q, K
<1>7. Active' = IF s = "inactive" THEN Active \ {i} ELSE Active
  <2>1. Active' = {j \in Ids \ {i} : pool[j].active} \cup (IF q.active THEN {i} ELSE {})
      BY <1>2, <1>3 DEF Active
  <2>2. q.active <=> r.active /\ s # "inactive"
      BY <1>5, <1>6 DEF K
  <2> QED BY <1>2, <2>1, <2>2 DEF Active
<1>8. op' # Idle => Deletes'
  <2> HAVE op' # Idle
  <2>1. op'.id = i /\ Left(op'.stages) = K /\ Suffix(op'.stages, DeleteStages)
      BY <1>1 DEF Operations
  <2> QED BY <1>3, <1>6, <2>1 DEF Deletes
<1>9. q.active => q = r /\ i \in Active
    BY <1>2, <1>4, <1>5, <1>6 DEF Active, K
<1>10. q.active => /\ q.name \in 1 .. lives /\ q.text = q.name /\ q.pass = q.name
                   /\ q.points >= Value(Listed(q))
    BY <1>9 DEF UserInv, Whole
<1>11. q.active => \A j \in Active \ {op.id} : AskedApart(pool[j].name, q.name)
    BY <1>9 DEF UserInv, Unique
<1>12. /\ Counted(s) = IF s = "uncounted" /\ file.count > 0 THEN file.count - 1 ELSE file.count
       /\ file.count \in Nat /\ crashes \in Nat
    BY <1>4 DEF Counted, UserInv, TypeInv
<1>13. Counted(s) - Cardinality(Active') - Ahead' \in -crashes .. crashes
  <2>1. Ahead' = AheadOf(K)
      BY <1>1, AheadAfter
  <2>2. Ahead = AheadOf(L) /\ op # Idle
      BY <1>1, OperationIsNotIdle DEF Ahead
  <2>3. /\ AheadOf(L) = (IF "uncounted" \in L THEN 1 ELSE 0) - (IF "inactive" \in L THEN 1 ELSE 0)
        /\ AheadOf(K) = (IF "uncounted" \in K THEN 1 ELSE 0) - (IF "inactive" \in K THEN 1 ELSE 0)
      BY <1>4 DEF AheadOf, K
  <2>4. Active \in SUBSET Ids /\ ("inactive" \in L => i \in Active)
      BY <1>2, <1>5 DEF Active
  <2>5. /\ Cardinality(Active) \in Nat /\ ("inactive" \in L => Cardinality(Active) >= 1)
        /\ Cardinality(Active') = Cardinality(Active) - (IF s = "inactive" THEN 1 ELSE 0)
      BY <1>4, <1>7, <2>4, ActiveIsFinite
  <2>6. /\ -crashes <= file.count - Cardinality(Active) - AheadOf(L)
        /\ file.count - Cardinality(Active) - AheadOf(L) <= crashes
      BY <2>2 DEF UserInv, Drift
  <2>7. CASE s = "inactive"
    <3>1. AheadOf(K) = AheadOf(L) + 1 /\ AheadOf(L) \in Int
        BY <1>4, <2>3, <2>7 DEF K
    <3>2. Counted(s) = file.count
        BY <1>12, <2>7
    <3> QED BY <1>12, <2>1, <2>5, <2>6, <2>7, <3>1, <3>2
  <2>8. CASE s = "uncounted"
    <3>1. AheadOf(K) = AheadOf(L) - 1 /\ AheadOf(L) = 1 - (IF "inactive" \in L THEN 1 ELSE 0)
        BY <1>4, <2>3, <2>8 DEF K
    <3>2. Cardinality(Active') = Cardinality(Active)
        BY <2>5, <2>8
    <3>3. CASE file.count > 0
        BY <1>12, <2>1, <2>5, <2>6, <2>8, <3>1, <3>2, <3>3
    <3>4. CASE file.count = 0
        BY <1>12, <2>1, <2>5, <2>6, <2>8, <3>1, <3>2, <3>4
    <3> QED BY <1>12, <3>3, <3>4
  <2> QED BY <1>4, <2>7, <2>8
<1>14. Counted(s) \in Nat /\ (op' = Idle \/ op' \in Operations)
    BY <1>1, <1>12
<1>15. q = Stored(pool[op.id], s)
    BY DEF q
<1> QED BY <1>1, <1>6, <1>8, <1>10, <1>11, <1>13, <1>14, <1>15, AfterStore

(* A store of a solution: what is listed has been paid for.                 *)
LEMMA VerifyStore ==
    ASSUME UserInv, NEW s, Store(s), Verifies
    PROVE  UserInv'
<1> DEFINE i == op.id
           r == pool[i]
           L == Left(op.stages)
           K == L \ {s}
           q == Stored(r, s)
           ch == op.what
           Sum(x) == Value((Listed(x) \cup {ch}) \ {NoHash})
<1>1. PICK C \in {ShortStages, LongStages} :
        /\ op \in Operations /\ s \in Head(op.stages) /\ Suffix(op.stages, C)
        /\ \/ op' = Idle /\ K = {}
           \/ /\ op' \in Operations /\ op' # Idle
              /\ op' = [op EXCEPT !.stages = After(op.stages, s)]
              /\ Suffix(op'.stages, C) /\ Left(op'.stages) = K
    BY StagesAreStaged, StoreStep DEF UserInv, Verifies
<1>2. /\ i \in Ids /\ r \in Records /\ ch \in Challenges /\ r.active
      /\ i \in Active /\ op.slot \in Nat
      /\ r.hashes \in [Places -> Challenges \cup {NoHash}] /\ r.points \in 0 .. MaxPoints
    BY <1>1 DEF UserInv, TypeInv, Operations, Verifies, Records, Active
<1>3. /\ pool'[i] = q /\ \A j \in Ids : j # i => pool'[j] = pool[j]
      /\ lives' = lives /\ nameOf' = nameOf /\ crashes' = crashes
    BY <1>1, StoreLeaves
<1>4. /\ s \in L /\ L \subseteq {"credit", "hash", "another"}
      /\ s # "credit" => "credit" \notin L
      /\ s = "credit" => K = {} \/ K = {"hash", "another"}
    BY <1>1, VerifyOrder
<1>5. /\ "credit" \in L => r.points + Worth[ch] <= MaxPoints
      /\ "credit" \notin L => r.points >= Sum(r)
      /\ {"hash", "another"} \cap L # {} =>
           /\ op.slot \in Places
           /\ r.count = IF "another" \in L THEN op.slot - 1 ELSE op.slot
           /\ "hash" \notin L => r.hashes[op.slot] = ch
           /\ \A k \in 1 .. (op.slot - 1) : r.hashes[k] # ch
    BY DEF Verifies
<1>6. /\ q \in Records /\ q.active /\ q.name = r.name /\ q.text = r.text /\ q.pass = r.pass
      /\ q.points >= Sum(q)
      /\ {"hash", "another"} \cap K # {} =>
           /\ op.slot \in Places
           /\ q.count = IF "another" \in K THEN op.slot - 1 ELSE op.slot
           /\ "hash" \notin K => q.hashes[op.slot] = ch
           /\ \A k \in 1 .. (op.slot - 1) : q.hashes[k] # ch
  <2>1. CASE s = "credit"
    <3>1. q = [r EXCEPT !.points = r.points + Worth[ch]]
        BY <2>1, StoredIs
    <3> HIDE DEF q
    <3>2. Worth[ch] \in Nat /\ r.points + Worth[ch] \in 0 .. MaxPoints
        BY <1>2, <1>4, <1>5, <2>1, ValueIs, UserDBAssumption
    <3>3. /\ q \in Records /\ q.points = r.points + Worth[ch] /\ q.active = r.active
          /\ q.name = r.name /\ q.text = r.text /\ q.pass = r.pass
          /\ q.count = r.count /\ q.hashes = r.hashes
        BY <1>2, <3>1, <3>2 DEF Records
    <3>4. q.points >= Sum(q)
      <4>1. Listed(q) = Listed(r) /\ Listed(r) \in SUBSET Challenges
          BY <1>2, <3>3 DEF Listed
      <4>2. r.points >= Value(Listed(r))
          BY <1>2 DEF UserInv, Whole
      <4>3. /\ Listed(r) \cup {ch} \in SUBSET Challenges
            /\ (Listed(r) \cup {ch}) \ {NoHash} \in SUBSET (Listed(r) \cup {ch})
          BY <1>2, <4>1
      <4>4. Sum(r) <= Value(Listed(r) \cup {ch}) /\ Sum(r) \in Nat
          BY <4>3, ValueIs
      <4>5. Value(Listed(r) \cup {ch}) <= Value(Listed(r)) + Worth[ch]
            /\ Value(Listed(r) \cup {ch}) \in Nat /\ Value(Listed(r)) \in Nat
          BY <1>2, <4>1, <4>3, ValueIs
      <4>6. Sum(q) = Sum(r)
          BY <4>1
      <4> HIDE DEF Sum
      <4> QED BY <1>2, <3>2, <3>3, <4>2, <4>4, <4>5, <4>6
    <3>5. {"hash", "another"} \cap K # {} => "hash" \in K /\ "another" \in K /\ "hash" \in L
                                             /\ "another" \in L
        BY <1>4, <2>1
    <3> QED BY <1>2, <1>5, <3>3, <3>4, <3>5
  <2>2. CASE s = "hash"
    <3>1. q = [r EXCEPT !.hashes[op.slot] = ch]
        BY <2>2, StoredIs
    <3> HIDE DEF q
    <3>2. /\ op.slot \in Places /\ "hash" \in L /\ "credit" \notin L /\ "hash" \notin K
          /\ "another" \in K <=> "another" \in L
        BY <1>4, <1>5, <2>2
    <3>3. q.hashes = [r.hashes EXCEPT ![op.slot] = ch]
        BY <1>2, <3>1 DEF Records
    <3>4. /\ q.hashes \in [Places -> Challenges \cup {NoHash}] /\ q.hashes[op.slot] = ch
          /\ \A k \in Places : k # op.slot => q.hashes[k] = r.hashes[k]
        BY <1>2, <3>2, <3>3
    <3>5. /\ q \in Records /\ q.points = r.points /\ q.active = r.active
          /\ q.name = r.name /\ q.text = r.text /\ q.pass = r.pass /\ q.count = r.count
        BY <1>2, <3>1, <3>4 DEF Records
    <3>6. q.points >= Sum(q)
      <4>1. Listed(q) \subseteq Listed(r) \cup {ch} /\ Listed(r) \in SUBSET Challenges
          BY <1>2, <3>2, <3>4 DEF Listed
      <4>2. (Listed(q) \cup {ch}) \ {NoHash} \in SUBSET ((Listed(r) \cup {ch}) \ {NoHash})
            /\ (Listed(r) \cup {ch}) \ {NoHash} \in SUBSET Challenges
          BY <1>2, <4>1
      <4>3. Sum(q) <= Sum(r) /\ Sum(r) \in Nat /\ Sum(q) \in Nat
          BY <4>2, ValueIs
      <4>4. r.points >= Sum(r)
          BY <1>5, <3>2
      <4> HIDE DEF Sum
      <4> QED BY <1>2, <3>5, <4>3, <4>4
    <3>7. \A k \in 1 .. (op.slot - 1) : q.hashes[k] # ch
      <4> TAKE k \in 1 .. (op.slot - 1)
      <4>1. k \in Places /\ k # op.slot
          BY <3>2, UserDBAssumption DEF Places
      <4> QED BY <1>5, <3>2, <3>4, <4>1
    <3> QED BY <1>2, <1>5, <3>2, <3>4, <3>5, <3>6, <3>7
  <2>3. CASE s = "another"
    <3>1. q = [r EXCEPT !.count = op.slot]
        BY <2>3, StoredIs
    <3> HIDE DEF q
    <3>2. /\ op.slot \in Places /\ "another" \in L /\ "credit" \notin L /\ "another" \notin K
          /\ "hash" \in K <=> "hash" \in L
        BY <1>4, <1>5, <2>3
    <3>3. op.slot \in 0 .. MaxDone
        BY <3>2, UserDBAssumption DEF Places
    <3>4. /\ q \in Records /\ q.points = r.points /\ q.active = r.active
          /\ q.name = r.name /\ q.text = r.text /\ q.pass = r.pass /\ q.count = op.slot
          /\ q.hashes = r.hashes
        BY <1>2, <3>1, <3>3 DEF Records
    <3>5. Listed(q) = Listed(r)
        BY <3>4 DEF Listed
    <3>6. q.points >= Sum(q)
        BY <1>5, <3>2, <3>4, <3>5
    <3> QED BY <1>2, <1>5, <3>2, <3>4, <3>6
  <2> HIDE DEF q, Sum, K
  <2> QED BY <1>4, <2>1, <2>2, <2>3
<1> HIDE DEF q, K
<1>7. Active' = Active
    BY <1>2, <1>3, <1>6 DEF Active
<1>8. op' # Idle => Verifies'
  <2> HAVE op' # Idle
  <2>1. op'.id = i /\ op'.what = ch /\ op'.slot = op.slot /\ Left(op'.stages) = K
        /\ Suffix(op'.stages, C)
      BY <1>1 DEF Operations
  <2>2. "credit" \notin K
      BY <1>4 DEF K
  <2> QED BY <1>1, <1>2, <1>3, <1>6, <2>1, <2>2 DEF Verifies
<1>9. /\ q.name \in 1 .. lives /\ q.text = q.name /\ q.pass = q.name
      /\ q.points >= Value(Listed(q))
  <2>1. r.name \in 1 .. lives /\ r.text = r.name /\ r.pass = r.name
      BY <1>2 DEF UserInv, Whole
  <2>2. Value(Listed(q)) <= Sum(q)
    <3>1. Listed(q) \in SUBSET Challenges
        BY <1>6 DEF Records, Listed
    <3>2. (Listed(q) \cup {ch}) \ {NoHash} \in SUBSET Challenges
          /\ Listed(q) \in SUBSET ((Listed(q) \cup {ch}) \ {NoHash})
        BY <1>2, <3>1 DEF Listed
    <3> QED BY <3>2, ValueIs
  <2>3. Value(Listed(q)) \in Nat /\ Sum(q) \in Nat /\ q.points \in Nat
    <3>1. Listed(q) \in SUBSET Challenges
        BY <1>6 DEF Records, Listed
    <3> QED BY <1>2, <1>6, <3>1, ValueIs DEF Records
  <2> HIDE DEF Sum
  <2> QED BY <1>6, <2>1, <2>2, <2>3
<1>10. \A j \in Active \ {op.id} : AskedApart(pool[j].name, q.name)
    BY <1>2, <1>6 DEF UserInv, Unique
<1>11. Counted(s) = file.count /\ file.count \in Nat /\ crashes \in Nat
    BY <1>4 DEF Counted, UserInv, TypeInv
<1>12. Counted(s) - Cardinality(Active') - Ahead' \in -crashes .. crashes
  <2>1. Ahead' = AheadOf(K) /\ AheadOf(K) = 0
    <3>1. Ahead' = AheadOf(K)
        BY <1>1, AheadAfter
    <3>2. AheadOf(K) = 0
        BY <1>4 DEF AheadOf, K
    <3> QED BY <3>1, <3>2
  <2>2. Ahead = 0
      BY <1>1, <1>4, OperationIsNotIdle DEF Ahead, AheadOf
  <2>3. Cardinality(Active) \in Nat
      BY ActiveIsFinite DEF Active
  <2> QED BY <1>7, <1>11, <2>1, <2>2, <2>3 DEF UserInv, Drift
<1>13. Counted(s) \in Nat /\ (op' = Idle \/ op' \in Operations)
    BY <1>1, <1>11
<1>14. q = Stored(pool[op.id], s)
    BY DEF q
<1> QED BY <1>1, <1>6, <1>8, <1>9, <1>10, <1>12, <1>13, <1>14, AfterStore

-----------------------------------------------------------------------------
(* Every step keeps the invariant, and so it always holds.                  *)
LEMMA UserStep == UserInv /\ [Next]_vars => UserInv'
<1> SUFFICES ASSUME UserInv, [Next]_vars PROVE UserInv'
    OBVIOUS
<1>1. CASE UNCHANGED vars
  <2>1. /\ UNCHANGED <<file, pool, sock, proc, op, nameOf, lives, crashes>>
      BY <1>1 DEF vars, fileVars, ghostVars
  <2>2. Active' = Active /\ Whole' /\ Unique' /\ UnderWay' /\ Ahead' = Ahead
      BY <2>1, RecordsLeft
  <2>3. TypeInv' /\ Started' /\ Drift'
      BY <2>1, <2>2 DEF UserInv, TypeInv, Started, Drift
  <2> QED BY <2>2, <2>3 DEF UserInv
<1>2. CASE StartUp
    BY <1>2, StartStep
<1>3. ASSUME NEW n \in Names, Create(n)
      PROVE  UserInv'
    BY <1>3, CreateStep
<1>4. ASSUME NEW i \in Ids, Delete(i)
      PROVE  UserInv'
    BY <1>4, DeleteStep
<1>5. ASSUME NEW i \in Ids, NEW ch \in Challenges, ChallengeVerify(i, ch)
      PROVE  UserInv'
    BY <1>5, VerifyStep
<1>6. CASE RequestWithoutDb \/ Crash
    BY <1>6, EndStep DEF RequestWithoutDb, Crash
<1>7. ASSUME NEW s \in Stores, Store(s)
      PROVE  UserInv'
  <2>1. Creates \/ Deletes \/ Verifies
      BY <1>7 DEF Store, UserInv, UnderWay
  <2> QED BY <1>7, <2>1, CreateStore, DeleteStore, VerifyStore
<1> QED BY <1>1, <1>2, <1>3, <1>4, <1>5, <1>6, <1>7 DEF Next, Request

(* The invariant holds of every behaviour.                                  *)
THEOREM UserSafe == Spec => []UserInv
<1> QED BY UserInit, UserStep, PTL DEF Spec

(* Counters and list positions of the file stay in range: the count is at   *)
(* most one ahead of the records in use for every kill                      *)
(* (cg_userdb.c:146-201).                                                   *)
THEOREM UserDBTyped == Spec => []TypeOK
<1>1. UserInv => TypeOK
  <2> HAVE UserInv
  <2>1. file.count <= UserPool + crashes
    <3>1. Active \in SUBSET Ids /\ Cardinality(Active) \in 0 .. UserPool
        BY ActiveIsFinite DEF Active
    <3>2. file.count <= crashes + Cardinality(Active) + Ahead /\ crashes \in Nat /\ file.count \in Nat
          /\ Ahead \in Int
        BY <3>1 DEF UserInv, TypeInv, Drift, Ahead, AheadOf
    <3>3. Cardinality(Active) + Ahead <= UserPool
      <4>1. CASE Ahead <= 0
          BY <3>1, <3>2, <4>1, UserDBAssumption
      <4>2. CASE Ahead > 0
        <5>1. op # Idle /\ AheadOf(Left(op.stages)) > 0 /\ Ahead = AheadOf(Left(op.stages))
            BY <4>2 DEF Ahead
        <5>2. op.id \in Ids
            BY <5>1 DEF UserInv, TypeInv, Operations
        <5>3. Ahead <= 1 /\ op.id \notin Active
          <6>1. CASE Creates
            <7>1. "inactive" \notin Left(op.stages) /\ "uncounted" \notin Left(op.stages)
                BY <6>1, LeftOf DEF Creates
            <7>2. "active" \in Left(op.stages) /\ Ahead <= 1
                BY <5>1, <7>1 DEF AheadOf
            <7> QED BY <6>1, <7>2 DEF Creates, Active
          <6>2. CASE Deletes
            <7>1. "active" \notin Left(op.stages) /\ "counted" \notin Left(op.stages)
                BY <6>2, LeftOf DEF Deletes
            <7>2. "inactive" \notin Left(op.stages) /\ Ahead <= 1
                BY <5>1, <7>1 DEF AheadOf
            <7> QED BY <6>2, <7>2 DEF Deletes, Active
          <6>3. CASE Verifies
            <7>1. Left(op.stages) \subseteq {"credit", "hash", "another"}
                BY <6>3, LeftOf DEF Verifies
            <7>2. AheadOf(Left(op.stages)) = 0
                BY <7>1 DEF AheadOf
            <7> QED BY <5>1, <7>2
          <6> QED BY <5>1, <6>1, <6>2, <6>3 DEF UserInv, UnderWay
        <5>4. Cardinality(Active) <= UserPool - 1
            BY <3>1, <5>2, <5>3, ActiveIsFinite
        <5> QED BY <3>1, <3>2, <5>3, <5>4, UserDBAssumption
      <4> QED BY <3>2, <4>1, <4>2
    <3> QED BY <3>1, <3>2, <3>3, UserDBAssumption
  <2>2. file.count \in 0 .. UserPool + MaxCrashes
      BY <2>1, UserDBAssumption DEF UserInv, TypeInv
  <2> QED BY <2>2 DEF UserInv, TypeInv, TypeOK, Records, Operations
<1> QED BY <1>1, UserSafe, PTL

(* Between any two stores, and after any kill, an active record is wholly   *)
(* the work of one registration, no challenge is listed that was not paid   *)
(* for, and the later of two records was not begun with the name of the     *)
(* earlier, though what was kept of its name may be the same                *)
(* (cg_userdb.c:155-170, cg_router.c:805-816).                              *)
THEOREM RecordsAreWhole == Spec => []ActiveIsWhole
<1>1. UserInv => ActiveIsWhole
  <2> HAVE UserInv
  <2>1. \A i, j \in Active : i # j => AskedApart(pool[i].name, pool[j].name)
      BY DEF UserInv, Unique
  <2>2. ASSUME NEW i \in Active
        PROVE  /\ pool[i].name \in Lives
               /\ pool[i].text = pool[i].name /\ pool[i].pass = pool[i].name
               /\ pool[i].points >= Value(Completed(pool[i]))
    <3>1. pool[i] \in Records
        BY DEF Active, UserInv, TypeInv
    <3>2. /\ pool[i].hashes \in [Places -> Challenges \cup {NoHash}]
          /\ pool[i].count \in 0 .. MaxDone /\ pool[i].points \in Nat
        BY <3>1 DEF Records
    <3>3. /\ Completed(pool[i]) \in SUBSET Listed(pool[i]) /\ Listed(pool[i]) \in SUBSET Challenges
          /\ Completed(pool[i]) \in SUBSET Challenges
        BY <3>2, UserDBAssumption DEF Completed, Recorded, Listed, Places
    <3>4. /\ Value(Completed(pool[i])) <= Value(Listed(pool[i]))
          /\ Value(Completed(pool[i])) \in Nat /\ Value(Listed(pool[i])) \in Nat
        BY <3>3, ValueIs
    <3>5. pool[i].points >= Value(Completed(pool[i]))
        BY <3>2, <3>4 DEF UserInv, Whole
    <3>6. pool[i].name \in Lives
        BY UserDBAssumption DEF UserInv, TypeInv, Whole, Lives
    <3> QED BY <3>5, <3>6 DEF UserInv, Whole
  <2> QED BY <2>1, <2>2 DEF ActiveIsWhole
<1> QED BY <1>1, UserSafe, PTL

(* The count of the header is off by no more than one for every kill, and   *)
(* by one more for the operation under way (cg_userdb.c:170-171, 188-191).  *)
THEOREM CountStaysClose == Spec => []CountDrifts
<1>1. UserInv => CountDrifts
  <2> HAVE UserInv
  <2>1. Cardinality(Active) \in Nat /\ file.count \in Nat /\ crashes \in Nat
      BY ActiveIsFinite DEF Active, UserInv, TypeInv
  <2>2. /\ -crashes <= file.count - Cardinality(Active) - Ahead
        /\ file.count - Cardinality(Active) - Ahead <= crashes
      BY DEF UserInv, Drift
  <2>3. Ahead \in -1 .. 1 /\ (op = Idle => Ahead = 0)
    <3>1. CASE op = Idle
        BY <3>1 DEF Ahead
    <3>2. CASE op # Idle
      <4>1. \/ "active" \notin Left(op.stages) /\ "counted" \notin Left(op.stages)
            \/ "inactive" \notin Left(op.stages) /\ "uncounted" \notin Left(op.stages)
          BY <3>2, LeftOf DEF UserInv, UnderWay, Creates, Deletes, Verifies
      <4> QED BY <3>2, <4>1 DEF Ahead, AheadOf
    <3> QED BY <3>1, <3>2
  <2> QED BY <2>1, <2>2, <2>3 DEF CountDrifts
<1> QED BY <1>1, UserSafe, PTL

-----------------------------------------------------------------------------
(* The file implements UserStore.  A record as UserStore sees it: a place   *)
(* of the list is not seen while its hash is still to be stored.            *)
AccountView == [i \in Ids |-> IF pool[i].active THEN pool[i].pass ELSE Nobody]
NameView    == [i \in Ids |-> IF pool[i].active THEN NameKept(pool[i].name) ELSE "no_name"]
PointsView  == [i \in Ids |-> IF pool[i].active THEN pool[i].points ELSE 0]
DoneView    == [i \in Ids |-> Settled(i)]

Hidden(i) == IF op # Idle /\ op.id = i /\ "hash" \in Left(op.stages) THEN {op.slot} ELSE {}

Seen(r, H) == IF r.active THEN {r.hashes[k] : k \in (1 .. r.count) \ H} \ {NoHash} ELSE {}

SameView(j) ==
    /\ pool'[j].active <=> pool[j].active
    /\ pool[j].active => /\ pool'[j].pass = pool[j].pass /\ pool'[j].points = pool[j].points
                         /\ nameOf'[pool'[j].name] = nameOf[pool[j].name]
    /\ Settled(j)' = Settled(j)

(* What UserStore sees of a list is what is not hidden of it.               *)
LEMMA SettledIs ==
    ASSUME NEW i
    PROVE  /\ Settled(i) = Seen(pool[i], Hidden(i))
           /\ Settled(i)' = Seen(pool'[i], Hidden(i)')
<1> DEFINE pending == op # Idle /\ op.id = i /\ \E k \in DOMAIN op.stages : "hash" \in op.stages[k]
<1>1. pending <=> op # Idle /\ op.id = i /\ "hash" \in Left(op.stages)
    BY DEF Left
<1>2. pending' <=> op' # Idle /\ op'.id = i /\ "hash" \in Left(op'.stages)
    BY DEF Left
<1>3. \A k : ~(pending /\ k = op.slot) <=> k \notin Hidden(i)
    BY <1>1 DEF Hidden
<1>4. \A k : ~(pending' /\ k = op'.slot) <=> k \notin Hidden(i)'
    BY <1>2 DEF Hidden
<1>5. Settled(i) = IF ~pool[i].active THEN {}
                   ELSE {pool[i].hashes[k] : k \in {k \in 1 .. pool[i].count :
                                                      ~(pending /\ k = op.slot)}} \ {NoHash}
    BY DEF Settled
<1>6. Settled(i)' = IF ~pool'[i].active THEN {}
                    ELSE {pool'[i].hashes[k] : k \in {k \in 1 .. pool'[i].count :
                                                        ~(pending' /\ k = op'.slot)}} \ {NoHash}
    BY DEF Settled
<1> HIDE DEF pending
<1>7. {k \in 1 .. pool[i].count : ~(pending /\ k = op.slot)} = (1 .. pool[i].count) \ Hidden(i)
    BY <1>3
<1>8. {k \in 1 .. pool'[i].count : ~(pending' /\ k = op'.slot)} = (1 .. pool'[i].count) \ Hidden(i)'
    BY <1>4
<1> QED BY <1>5, <1>6, <1>7, <1>8 DEF Seen

(* Nothing is seen of a step that leaves every record as it was seen, ...   *)
LEMMA NothingSeen ==
    ASSUME \A j \in Ids : SameView(j)
    PROVE  UNCHANGED <<AccountView, NameView, PointsView, DoneView>>
BY DEF SameView, AccountView, NameView, PointsView, DoneView, NameKept

(* ... and of one that changes a record only that record.                   *)
LEMMA OneSeen ==
    ASSUME NEW i \in Ids, \A j \in Ids \ {i} : SameView(j)
    PROVE  /\ AccountView' = [AccountView EXCEPT ![i] = AccountView'[i]]
           /\ NameView' = [NameView EXCEPT ![i] = NameView'[i]]
           /\ PointsView' = [PointsView EXCEPT ![i] = PointsView'[i]]
           /\ DoneView' = [DoneView EXCEPT ![i] = DoneView'[i]]
           /\ AccountView = [AccountView EXCEPT ![i] = AccountView[i]]
           /\ NameView = [NameView EXCEPT ![i] = NameView[i]]
           /\ PointsView = [PointsView EXCEPT ![i] = PointsView[i]]
           /\ DoneView = [DoneView EXCEPT ![i] = DoneView[i]]
<1>1. \A j \in Ids \ {i} : /\ AccountView'[j] = AccountView[j] /\ NameView'[j] = NameView[j]
                           /\ PointsView'[j] = PointsView[j] /\ DoneView'[j] = DoneView[j]
    BY DEF SameView, AccountView, NameView, PointsView, DoneView, NameKept
<1> QED BY <1>1 DEF AccountView, NameView, PointsView, DoneView

(* The records a store is not made in.                                      *)
LEMMA OthersSame ==
    ASSUME UserInv, NEW s, Store(s), op \in Operations, op' = Idle \/ op'.id = op.id,
           NEW j \in Ids \ {op.id}
    PROVE  SameView(j)
<1>1. pool'[j] = pool[j] /\ nameOf' = nameOf
    BY StoreLeaves
<1>2. Hidden(j) = {} /\ Hidden(j)' = {}
    BY DEF Hidden
<1>3. Settled(j)' = Settled(j)
    BY <1>1, <1>2, SettledIs
<1> QED BY <1>1, <1>3 DEF SameView

(* What UserStore allows of a step.                                         *)
StoreAllows == UserStoreView!Next \/ UNCHANGED <<AccountView, NameView, PointsView, DoneView>>

(* The steps of UserStore, on one record.                                   *)
LEMMA Registered ==
    ASSUME UserInv, NEW i \in Ids, \A j \in Ids \ {i} : SameView(j),
           ~pool[i].active, pool'[i].active, pool'[i].points = 0, Settled(i)' = {},
           NEW l \in Lives, NEW n \in Names, pool'[i].pass = l, nameOf'[pool'[i].name] = n,
           nameOf[l] = n, \A j \in Active : Earlier(pool[j].name, l)
    PROVE  UserStoreView!Register(i, l, n)
<1>1. \A j \in Ids : AccountView[j] # l /\ NameView[j] # n
  <2> TAKE j \in Ids
  <2>1. CASE pool[j].active
    <3>1. j \in Active /\ pool[j].pass = pool[j].name /\ pool[j].name \in Nat
        BY <2>1 DEF Active, UserInv, Whole
    <3>2. pool[j].pass < l /\ NameKept(pool[j].name) # n
        BY <3>1 DEF Earlier
    <3> QED BY <2>1, <3>1, <3>2 DEF AccountView, NameView, Lives
  <2>2. CASE ~pool[j].active
      BY <2>2, UserDBAssumption DEF AccountView, NameView, Nobody, Lives
  <2> QED BY <2>1, <2>2
<1>2. AccountView[i] = Nobody /\ PointsView[i] = 0 /\ DoneView[i] = {}
    BY SettledIs DEF AccountView, PointsView, DoneView, Seen
<1>3. AccountView'[i] = l /\ NameView'[i] = Cut[n] /\ PointsView'[i] = 0 /\ DoneView'[i] = {}
    BY DEF AccountView, NameView, PointsView, DoneView, NameKept
<1>4. /\ AccountView' = [AccountView EXCEPT ![i] = l]
      /\ NameView' = [NameView EXCEPT ![i] = Cut[n]]
      /\ PointsView' = PointsView /\ DoneView' = DoneView
  <2>1. PointsView' = [PointsView EXCEPT ![i] = 0] /\ DoneView' = [DoneView EXCEPT ![i] = {}]
      BY <1>3, OneSeen
  <2>2. PointsView' = PointsView /\ DoneView' = DoneView
      BY <1>2, <2>1 DEF PointsView, DoneView
  <2> QED BY <1>3, <2>2, OneSeen
<1> QED BY <1>1, <1>2, <1>4
    DEF UserStoreView!Register, UserStoreView!Nobody, Nobody, AccountView, NameView, PointsView,
        DoneView

(* A record that stops being active.                                        *)
LEMMA Unregistered ==
    ASSUME NEW i \in Ids, \A j \in Ids \ {i} : SameView(j), pool[i].active, ~pool'[i].active,
           pool[i].pass \in Lives
    PROVE  UserStoreView!Unregister(i)
<1>1. AccountView[i] # Nobody
    BY UserDBAssumption DEF AccountView, Nobody, Lives
<1>2. Settled(i)' = {}
    BY SettledIs DEF Seen
<1>3. /\ AccountView'[i] = Nobody /\ NameView'[i] = "no_name" /\ PointsView'[i] = 0
      /\ DoneView'[i] = {}
    BY <1>2 DEF AccountView, NameView, PointsView, DoneView
<1>4. /\ AccountView' = [AccountView EXCEPT ![i] = Nobody]
      /\ NameView' = [NameView EXCEPT ![i] = "no_name"]
      /\ PointsView' = [PointsView EXCEPT ![i] = 0] /\ DoneView' = [DoneView EXCEPT ![i] = {}]
    BY <1>3, OneSeen
<1> QED BY <1>1, <1>4
    DEF UserStoreView!Unregister, UserStoreView!Nobody, UserStoreView!NoName, Nobody,
        AccountView, NameView, PointsView, DoneView

(* One whose points grow by what a challenge is worth.                      *)
LEMMA Credited ==
    ASSUME NEW i \in Ids, \A j \in Ids \ {i} : SameView(j), pool[i].active, pool'[i].active,
           pool[i].pass \in Lives, pool'[i].pass = pool[i].pass,
           nameOf'[pool'[i].name] = nameOf[pool[i].name], Settled(i)' = Settled(i),
           NEW ch \in Challenges, pool'[i].points = pool[i].points + Worth[ch]
    PROVE  UserStoreView!Credit(i, ch)
<1>1. AccountView[i] # Nobody
    BY UserDBAssumption DEF AccountView, Nobody, Lives
<1>2. /\ AccountView'[i] = AccountView[i] /\ NameView'[i] = NameView[i]
      /\ PointsView'[i] = PointsView[i] + Worth[ch] /\ DoneView'[i] = DoneView[i]
    BY DEF AccountView, NameView, PointsView, DoneView, NameKept
<1>3. /\ AccountView' = AccountView /\ NameView' = NameView /\ DoneView' = DoneView
      /\ PointsView' = [PointsView EXCEPT ![i] = PointsView[i] + Worth[ch]]
    BY <1>2, OneSeen
<1> QED BY <1>1, <1>3
    DEF UserStoreView!Credit, UserStoreView!Nobody, Nobody, AccountView, NameView, PointsView,
        DoneView

(* One that is seen to list one challenge more: UserStore allows it, as the *)
(* points are there.                                                        *)
LEMMA Completes ==
    ASSUME NEW i \in Ids, \A j \in Ids \ {i} : SameView(j), pool[i].active, pool'[i].active,
           pool[i].pass \in Lives, pool'[i].pass = pool[i].pass, pool'[i].points = pool[i].points,
           nameOf'[pool'[i].name] = nameOf[pool[i].name],
           NEW ch \in Challenges, Settled(i)' = Settled(i) \cup {ch},
           pool[i].points >= Value(Settled(i) \cup {ch})
    PROVE  StoreAllows
<1>1. AccountView[i] # Nobody
    BY UserDBAssumption DEF AccountView, Nobody, Lives
<1>2. /\ AccountView'[i] = AccountView[i] /\ NameView'[i] = NameView[i]
      /\ PointsView'[i] = PointsView[i] /\ DoneView'[i] = DoneView[i] \cup {ch}
    BY DEF AccountView, NameView, PointsView, DoneView, NameKept
<1>3. /\ AccountView' = AccountView /\ NameView' = NameView /\ PointsView' = PointsView
      /\ DoneView' = [DoneView EXCEPT ![i] = DoneView[i] \cup {ch}]
    BY <1>2, OneSeen
<1>4. CASE ch \in DoneView[i]
  <2>1. DoneView' = DoneView
    <3>1. DoneView[i] \cup {ch} = DoneView[i]
        BY <1>4
    <3> QED BY <1>3, <3>1, OneSeen
  <2> QED BY <1>3, <2>1 DEF StoreAllows
<1>5. CASE ch \notin DoneView[i]
  <2>1. PointsView[i] = pool[i].points /\ DoneView[i] = Settled(i)
      BY DEF PointsView, DoneView
  <2>2. \A S : UserStoreView!Value(S) = Value(S)
      BY DEF UserStoreView!Value, Value, UserStoreView!MapThenSumSet, MapThenSumSet,
             UserStoreView!MapThenFoldSet, MapThenFoldSet
  <2>3. PointsView[i] >= UserStoreView!Value(DoneView[i] \cup {ch})
      BY <2>1, <2>2
  <2>4. UserStoreView!Complete(i, ch)
      BY <1>1, <1>3, <1>5, <2>3
         DEF UserStoreView!Complete, UserStoreView!Nobody, Nobody, AccountView, NameView,
             PointsView, DoneView
  <2> QED BY <2>4 DEF StoreAllows, UserStoreView!Next
<1> QED BY <1>4, <1>5

(* What is seen of a list with and without its last place.                  *)
LEMMA SeenIs ==
    ASSUME NEW r \in Records, NEW slot \in Nat
    PROVE  /\ r.count < slot => Seen(r, {slot}) = Seen(r, {})
           /\ r.active /\ slot \in Places /\ r.count = slot =>
                Seen(r, {}) = (Seen(r, {slot}) \cup {r.hashes[slot]}) \ {NoHash}
           /\ \A H : NoHash \notin Seen(r, H) /\ Seen(r, H) \in SUBSET Listed(r)
           /\ Listed(r) \in SUBSET Challenges
<1>1. r.count \in Nat /\ r.count <= MaxDone /\ r.hashes \in [Places -> Challenges \cup {NoHash}]
    BY UserDBAssumption DEF Records
<1>2. r.count < slot => Seen(r, {slot}) = Seen(r, {})
  <2> HAVE r.count < slot
  <2>1. (1 .. r.count) \ {slot} = (1 .. r.count) \ {}
      BY <1>1
  <2> QED BY <2>1 DEF Seen
<1>3. r.active /\ slot \in Places /\ r.count = slot =>
        Seen(r, {}) = (Seen(r, {slot}) \cup {r.hashes[slot]}) \ {NoHash}
  <2> HAVE r.active /\ slot \in Places /\ r.count = slot
  <2>1. slot \in 1 .. r.count
      BY UserDBAssumption DEF Places
  <2> QED BY <2>1 DEF Seen
<1>4. \A H : NoHash \notin Seen(r, H) /\ Seen(r, H) \in SUBSET Listed(r)
    BY <1>1, UserDBAssumption DEF Seen, Listed, Places
<1>5. Listed(r) \in SUBSET Challenges
    BY <1>1 DEF Listed
<1> QED BY <1>2, <1>3, <1>4, <1>5

(* A step that makes a record show the last place of its list.              *)
LEMMA PlaceSeen ==
    ASSUME UserInv, NEW i \in Ids, \A j \in Ids \ {i} : SameView(j),
           pool[i].active, pool'[i].active, pool'[i].pass = pool[i].pass,
           pool'[i].points = pool[i].points, pool'[i].name = pool[i].name, nameOf' = nameOf,
           NEW h \in Challenges \cup {NoHash}, NEW S, Settled(i) = S, NoHash \notin S,
           Settled(i)' = (S \cup {h}) \ {NoHash},
           pool[i].points >= Value((S \cup {h}) \ {NoHash})
    PROVE  StoreAllows
<1>1. CASE h = NoHash
  <2>1. Settled(i)' = Settled(i)
      BY <1>1
  <2>2. \A j \in Ids : SameView(j)
      BY <2>1 DEF SameView
  <2> QED BY <2>2, NothingSeen DEF StoreAllows
<1>2. CASE h # NoHash
  <2>1. (S \cup {h}) \ {NoHash} = S \cup {h}
      BY <1>2
  <2>2. pool[i].pass \in Lives
      BY UserDBAssumption DEF UserInv, TypeInv, Whole, Active, Lives
  <2> QED BY <1>2, <2>1, <2>2, Completes
<1> QED BY <1>1, <1>2

(* What UserStore sees of a store of a registration: the one that marks the *)
(* record active;                                                           *)
LEMMA CreateSeen ==
    ASSUME UserInv, NEW s, Store(s), Creates
    PROVE  StoreAllows
<1> PICK i : i = op.id
    OBVIOUS
<1> DEFINE r == pool[i]
           L == Left(op.stages)
           q == Stored(r, s)
<1>1. /\ op \in Operations /\ s \in Head(op.stages) /\ Suffix(op.stages, CreateStages)
      /\ \/ op' = Idle
         \/ op'.id = i /\ Left(op'.stages) = L \ {s}
    BY StagesAreStaged, StoreStep DEF UserInv, Creates, Operations
<1>2. i \in Ids /\ r \in Records
    BY <1>1 DEF UserInv, TypeInv, Operations
<1>3. pool'[i] = q /\ nameOf' = nameOf
    BY <1>1, StoreLeaves
<1>4. /\ s \in L /\ "hash" \notin L
      /\ s \in {"name", "end_of_name", "text", "pass", "points", "count", "hashes", "active",
                "counted"}
      /\ s = "active" => L \subseteq {"active", "counted"}
      /\ s \notin {"active", "counted"} => "active" \in L
    BY <1>1, CreateOrder
<1>5. \A j \in Ids \ {i} : SameView(j)
    BY <1>1, OthersSame
<1>6. Hidden(i) = {} /\ Hidden(i)' = {}
    BY <1>1, <1>4 DEF Hidden
<1>7. CASE s = "active"
  <2>1. /\ ~r.active /\ r.name = op.what /\ r.pass = op.what /\ r.points = 0 /\ r.count = 0
        /\ op.what \in 1 .. lives /\ nameOf[op.what] \in Names
        /\ \A j \in Active : Earlier(pool[j].name, op.what)
      BY <1>4, <1>7 DEF Creates
  <2>2. q = [r EXCEPT !.active = TRUE]
      BY <1>7, StoredIs
  <2>3. q.active /\ q.name = op.what /\ q.pass = op.what /\ q.points = 0 /\ q.count = 0
      BY <1>2, <2>1, <2>2 DEF Records
  <2>4. Settled(i)' = {}
    <3>1. Settled(i)' = Seen(pool'[i], Hidden(i)')
        BY SettledIs
    <3>2. pool'[i].count = 0
        BY <1>3, <2>3
    <3> QED BY <3>1, <3>2 DEF Seen
  <2>5. op.what \in Lives
      BY <2>1, UserDBAssumption DEF UserInv, TypeInv, Lives
  <2>6. PICK l \in Lives, n \in Names : l = op.what /\ n = nameOf[op.what]
      BY <2>1, <2>5
  <2>7. UserStoreView!Register(i, l, n)
    <3> HIDE DEF q
    <3> QED BY <1>2, <1>3, <1>5, <2>1, <2>3, <2>4, <2>6, Registered
  <2> QED BY <1>2, <2>7 DEF StoreAllows, UserStoreView!Next
<1>8. CASE s = "counted"
  <2>1. q = r
      BY <1>8, StoredIs
  <2>2. Settled(i)' = Settled(i)
      BY <1>3, <1>6, <2>1, SettledIs
  <2>3. \A j \in Ids : SameView(j)
      BY <1>3, <1>5, <2>1, <2>2 DEF SameView
  <2> QED BY <2>3, NothingSeen DEF StoreAllows
<1>9. CASE s \notin {"active", "counted"}
  <2>1. ~r.active
      BY <1>4, <1>9 DEF Creates
  <2>2. ~q.active
    <3>1. r \in Records /\ r.active = FALSE
        BY <1>2, <2>1 DEF Records
    <3>2. CASE s = "name"
      <4>1. q = [r EXCEPT !.name = Torn]
          BY <3>2, StoredIs
      <4> QED BY <3>1, <4>1 DEF Records
    <3>3. CASE s = "end_of_name"
      <4>1. q = [r EXCEPT !.name = op.what]
          BY <3>3, StoredIs
      <4> QED BY <3>1, <4>1 DEF Records
    <3>4. CASE s = "text"
      <4>1. q = [r EXCEPT !.text = op.what]
          BY <3>4, StoredIs
      <4> QED BY <3>1, <4>1 DEF Records
    <3>5. CASE s = "pass"
      <4>1. q = [r EXCEPT !.pass = op.what]
          BY <3>5, StoredIs
      <4> QED BY <3>1, <4>1 DEF Records
    <3>6. CASE s = "points"
      <4>1. q = [r EXCEPT !.points = 0]
          BY <3>6, StoredIs
      <4> QED BY <3>1, <4>1 DEF Records
    <3>7. CASE s = "count"
      <4>1. q = [r EXCEPT !.count = 0]
          BY <3>7, StoredIs
      <4> QED BY <3>1, <4>1 DEF Records
    <3>8. CASE s = "hashes"
      <4>1. q = [r EXCEPT !.hashes = [k \in DOMAIN r.hashes |-> NoHash]]
          BY <3>8, StoredIs
      <4> QED BY <3>1, <4>1 DEF Records
    <3> HIDE DEF q
    <3> QED BY <1>4, <1>9, <3>2, <3>3, <3>4, <3>5, <3>6, <3>7, <3>8
  <2>3. SameView(i)
      BY <1>3, <2>1, <2>2, SettledIs DEF SameView, Seen
  <2>4. \A j \in Ids : SameView(j)
      BY <1>5, <2>3
  <2> QED BY <2>4, NothingSeen DEF StoreAllows
<1> QED BY <1>4, <1>7, <1>8, <1>9

(* of a deletion: the one that marks it inactive;                           *)
LEMMA DeleteSeen ==
    ASSUME UserInv, NEW s, Store(s), Deletes
    PROVE  StoreAllows
<1> PICK i : i = op.id
    OBVIOUS
<1> DEFINE r == pool[i]
           L == Left(op.stages)
           q == Stored(r, s)
<1>1. /\ op \in Operations /\ s \in Head(op.stages) /\ Suffix(op.stages, DeleteStages)
      /\ \/ op' = Idle
         \/ op'.id = i /\ Left(op'.stages) = L \ {s}
    BY StagesAreStaged, StoreStep DEF UserInv, Deletes, Operations
<1>2. i \in Ids /\ r \in Records
    BY <1>1 DEF UserInv, TypeInv, Operations
<1>3. pool'[i] = q /\ nameOf' = nameOf
    BY <1>1, StoreLeaves
<1>4. s \in L /\ L \subseteq {"inactive", "uncounted"}
    BY <1>1, DeleteOrder
<1>5. \A j \in Ids \ {i} : SameView(j)
    BY <1>1, OthersSame
<1>6. Hidden(i) = {} /\ Hidden(i)' = {}
    BY <1>1, <1>4 DEF Hidden
<1>7. CASE s = "inactive"
  <2>1. q = [r EXCEPT !.active = FALSE]
      BY <1>7, StoredIs
  <2>2. ~q.active
      BY <1>2, <2>1 DEF Records
  <2>3. r.active /\ i \in Active
      BY <1>2, <1>4, <1>7 DEF Deletes, Active
  <2>4. r.pass \in Lives
      BY <2>3, UserDBAssumption DEF UserInv, TypeInv, Whole, Lives
  <2>5. UserStoreView!Unregister(i)
    <3> HIDE DEF q
    <3> QED BY <1>2, <1>3, <1>5, <2>2, <2>3, <2>4, Unregistered
  <2> QED BY <1>2, <2>5 DEF StoreAllows, UserStoreView!Next
<1>8. CASE s = "uncounted"
  <2>1. q = r
      BY <1>8, StoredIs
  <2>2. Settled(i)' = Settled(i)
      BY <1>3, <1>6, <2>1, SettledIs
  <2>3. \A j \in Ids : SameView(j)
      BY <1>3, <1>5, <2>1, <2>2 DEF SameView
  <2> QED BY <2>3, NothingSeen DEF StoreAllows
<1> QED BY <1>4, <1>7, <1>8

(* of a solution: the one of the points, and the one after which the place  *)
(* is both counted and written.                                             *)
LEMMA VerifySeen ==
    ASSUME UserInv, NEW s, Store(s), Verifies
    PROVE  StoreAllows
<1> PICK i : i = op.id
    OBVIOUS
<1> PICK ch : ch = op.what
    OBVIOUS
<1> PICK slot : slot = op.slot
    OBVIOUS
<1> DEFINE r == pool[i]
           L == Left(op.stages)
           K == L \ {s}
           q == Stored(r, s)
<1>1. PICK C \in {ShortStages, LongStages} :
        /\ op \in Operations /\ op # Idle /\ s \in Head(op.stages) /\ Suffix(op.stages, C)
        /\ \/ op' = Idle /\ K = {}
           \/ op' # Idle /\ op'.id = i /\ op'.slot = slot /\ Left(op'.stages) = K
    BY StagesAreStaged, StoreStep, OperationIsNotIdle DEF UserInv, Verifies, Operations
<1>2. /\ i \in Ids /\ r \in Records /\ ch \in Challenges /\ r.active /\ i \in Active
      /\ slot \in Nat /\ r.pass \in Lives /\ r.points \in Nat
      /\ r.hashes \in [Places -> Challenges \cup {NoHash}] /\ r.count \in 0 .. MaxDone
  <2>1. /\ i \in Ids /\ r \in Records /\ ch \in Challenges /\ r.active /\ i \in Active
        /\ slot \in Nat
      BY <1>1 DEF UserInv, TypeInv, Operations, Verifies, Active
  <2>2. r.pass \in Lives
    <3>1. pool[i].pass = pool[i].name /\ pool[i].name \in 1 .. lives
        BY <2>1 DEF UserInv, Whole
    <3>2. lives \in 0 .. MaxLives /\ MaxLives \in Nat
        BY UserDBAssumption DEF UserInv, TypeInv
    <3> QED BY <3>1, <3>2 DEF Lives
  <2> QED BY <2>1, <2>2 DEF Records
<1>3. pool'[i] = q /\ nameOf' = nameOf
    BY <1>1, StoreLeaves
<1>4. /\ s \in L /\ L \subseteq {"credit", "hash", "another"}
      /\ s # "credit" => "credit" \notin L
    BY <1>1, VerifyOrder
<1>5. \A j \in Ids \ {i} : SameView(j)
    BY <1>1, OthersSame
<1>6. /\ Hidden(i) = IF "hash" \in L THEN {slot} ELSE {}
      /\ Hidden(i)' = IF "hash" \in K THEN {slot} ELSE {}
    BY <1>1 DEF Hidden
<1>7. /\ "credit" \notin L => r.points >= Value((Listed(r) \cup {ch}) \ {NoHash})
      /\ {"hash", "another"} \cap L # {} =>
           /\ slot \in Places /\ r.count = IF "another" \in L THEN slot - 1 ELSE slot
           /\ "hash" \notin L => r.hashes[slot] = ch
    BY DEF Verifies
<1> HIDE DEF q
<1>8. ASSUME q \in Records, q.active, q.name = r.name, q.pass = r.pass, q.points = r.points,
             s \in {"hash", "another"}, q.count = slot, q.hashes[slot] = ch,
             Hidden(i)' = {}, Seen(q, {slot}) = Seen(r, Hidden(i))
      PROVE  StoreAllows
  <2>1. slot \in Places /\ "credit" \notin L
      BY <1>4, <1>7, <1>8
  <2>2. Seen(q, {}) = (Seen(q, {slot}) \cup {ch}) \ {NoHash}
      BY <1>2, <1>8, <2>1, SeenIs
  <2>3. PICK S : S = Settled(i)
      OBVIOUS
  <2>4. /\ S = Seen(r, Hidden(i)) /\ Settled(i)' = (S \cup {ch}) \ {NoHash}
        /\ NoHash \notin S /\ S \in SUBSET Listed(r) /\ Listed(r) \in SUBSET Challenges
    <3>1. S = Seen(r, Hidden(i)) /\ Settled(i)' = Seen(q, {})
        BY <1>3, <1>8, <2>3, SettledIs
    <3>2. \A H : NoHash \notin Seen(r, H) /\ Seen(r, H) \in SUBSET Listed(r)
        BY <1>2, SeenIs
    <3>3. Listed(r) \in SUBSET Challenges
        BY <1>2, SeenIs
    <3> QED BY <1>8, <2>2, <3>1, <3>2, <3>3
  <2>5. r.points >= Value((S \cup {ch}) \ {NoHash})
    <3>1. /\ (S \cup {ch}) \ {NoHash} \in SUBSET ((Listed(r) \cup {ch}) \ {NoHash})
          /\ (Listed(r) \cup {ch}) \ {NoHash} \in SUBSET Challenges
          /\ (S \cup {ch}) \ {NoHash} \in SUBSET Challenges
        BY <1>2, <2>4
    <3>2. /\ Value((S \cup {ch}) \ {NoHash}) <= Value((Listed(r) \cup {ch}) \ {NoHash})
          /\ Value((S \cup {ch}) \ {NoHash}) \in Nat
          /\ Value((Listed(r) \cup {ch}) \ {NoHash}) \in Nat
        BY <3>1, ValueIs
    <3> QED BY <1>2, <1>7, <2>1, <3>2
  <2>6. /\ pool'[i].active /\ pool'[i].pass = pool[i].pass
        /\ pool'[i].points = pool[i].points /\ pool'[i].name = pool[i].name
      BY <1>3, <1>8
  <2>7. ch \in Challenges \cup {NoHash}
      BY <1>2
  <2> QED BY <1>2, <1>3, <1>5, <2>3, <2>4, <2>5, <2>6, <2>7, PlaceSeen
<1>9. CASE s = "credit"
  <2>1. q = [r EXCEPT !.points = r.points + Worth[ch]]
      BY <1>9, StoredIs DEF q
  <2>2. /\ q.active /\ q.pass = r.pass /\ q.name = r.name /\ q.points = r.points + Worth[ch]
        /\ q.count = r.count /\ q.hashes = r.hashes
      BY <1>2, <2>1 DEF Records
  <2>3. Hidden(i)' = Hidden(i)
      BY <1>6, <1>9
  <2>4. \A H : Seen(q, H) = Seen(r, H)
      BY <1>2, <2>2 DEF Seen
  <2>5. Settled(i)' = Settled(i)
      BY <1>3, <2>3, <2>4, SettledIs
  <2>6. UserStoreView!Credit(i, ch)
      BY <1>2, <1>3, <1>5, <2>2, <2>5, Credited
  <2> QED BY <1>2, <2>6 DEF StoreAllows, UserStoreView!Next
<1>10. CASE s = "hash"
  <2>1. q = [r EXCEPT !.hashes[slot] = ch]
      BY <1>10, StoredIs DEF q
  <2>2. slot \in Places /\ Hidden(i) = {slot} /\ Hidden(i)' = {}
      BY <1>4, <1>6, <1>7, <1>10
  <2>3. q.hashes = [r.hashes EXCEPT ![slot] = ch]
      BY <1>2, <2>1 DEF Records
  <2>4. /\ q.hashes \in [Places -> Challenges \cup {NoHash}] /\ q.hashes[slot] = ch
        /\ \A k \in Places : k # slot => q.hashes[k] = r.hashes[k]
      BY <1>2, <2>2, <2>3
  <2>5. /\ q \in Records /\ q.active /\ q.name = r.name /\ q.pass = r.pass
        /\ q.points = r.points /\ q.count = r.count
      BY <1>2, <2>1, <2>4 DEF Records
  <2>6. Seen(q, {slot}) = Seen(r, {slot})
    <3>1. \A k \in (1 .. r.count) \ {slot} : q.hashes[k] = r.hashes[k]
        BY <1>2, <2>4, UserDBAssumption DEF Places
    <3> QED BY <1>2, <2>5, <3>1 DEF Seen
  <2>7. CASE "another" \in L
    <3>1. r.count < slot
        BY <1>2, <1>7, <2>7
    <3>2. Seen(q, {}) = Seen(q, {slot})
        BY <1>2, <2>5, <3>1, SeenIs
    <3>3. Settled(i)' = Settled(i)
        BY <1>3, <2>2, <2>6, <3>2, SettledIs
    <3>4. \A j \in Ids : SameView(j)
        BY <1>2, <1>3, <1>5, <2>5, <3>3 DEF SameView
    <3> QED BY <3>4, NothingSeen DEF StoreAllows
  <2>8. CASE "another" \notin L
    <3>1. r.count = slot
        BY <1>4, <1>7, <1>10, <2>8
    <3> QED BY <1>8, <1>10, <2>2, <2>4, <2>5, <2>6, <3>1
  <2> QED BY <2>7, <2>8
<1>11. CASE s = "another"
  <2>1. q = [r EXCEPT !.count = slot]
      BY <1>11, StoredIs DEF q
  <2>2. slot \in Places /\ r.count = slot - 1 /\ slot \in 0 .. MaxDone
      BY <1>4, <1>7, <1>11, UserDBAssumption DEF Places
  <2>3. /\ q \in Records /\ q.active /\ q.name = r.name /\ q.pass = r.pass
        /\ q.points = r.points /\ q.count = slot /\ q.hashes = r.hashes
      BY <1>2, <2>1, <2>2 DEF Records
  <2>4. Seen(q, {slot}) = Seen(r, {slot}) /\ Seen(r, {slot}) = Seen(r, {})
    <3>1. (1 .. q.count) \ {slot} = (1 .. r.count) \ {slot} /\ (1 .. r.count) \ {slot} = (1 .. r.count) \ {}
        BY <1>2, <2>2, <2>3
    <3> QED BY <1>2, <2>3, <3>1 DEF Seen
  <2>5. CASE "hash" \in L
    <3>1. Hidden(i) = {slot} /\ Hidden(i)' = {slot}
        BY <1>6, <1>11, <2>5
    <3>2. Settled(i)' = Settled(i)
        BY <1>3, <2>4, <3>1, SettledIs
    <3>3. \A j \in Ids : SameView(j)
        BY <1>2, <1>3, <1>5, <2>3, <3>2 DEF SameView
    <3> QED BY <3>3, NothingSeen DEF StoreAllows
  <2>6. CASE "hash" \notin L
    <3>1. Hidden(i) = {} /\ Hidden(i)' = {}
        BY <1>6, <2>6
    <3>2. r.hashes[slot] = ch
        BY <1>4, <1>7, <1>11, <2>6
    <3> QED BY <1>8, <1>11, <2>3, <2>4, <3>1, <3>2
  <2> QED BY <2>5, <2>6
<1> QED BY <1>4, <1>9, <1>10, <1>11

(* A kill shows a place counted whose hash was not stored yet: what an      *)
(* earlier kill left there, which was paid for.                             *)
LEMMA KillSeen ==
    ASSUME UserInv, Killed
    PROVE  StoreAllows
<1>1. pool' = pool /\ op' = Idle /\ nameOf' = nameOf
    BY DEF Killed, fileVars
<1>2. \A j \in Ids : Hidden(j) = {} => SameView(j)
  <2> SUFFICES ASSUME NEW j \in Ids, Hidden(j) = {} PROVE SameView(j)
      OBVIOUS
  <2>1. Hidden(j)' = {}
      BY <1>1 DEF Hidden
  <2>2. Settled(j)' = Settled(j)
      BY <1>1, <2>1, SettledIs
  <2> QED BY <1>1, <2>2 DEF SameView
<1>3. CASE op = Idle \/ "hash" \notin Left(op.stages)
  <2>1. \A j \in Ids : SameView(j)
      BY <1>2, <1>3 DEF Hidden
  <2> QED BY <2>1, NothingSeen DEF StoreAllows
<1>4. CASE op # Idle /\ "hash" \in Left(op.stages)
  <2> PICK i : i = op.id
      OBVIOUS
  <2> PICK slot : slot = op.slot
      OBVIOUS
  <2> DEFINE r == pool[i]
             L == Left(op.stages)
  <2>1. Verifies
      BY <1>4, LeftOf DEF UserInv, UnderWay, Creates, Deletes
  <2>2. /\ i \in Ids /\ r \in Records /\ r.active /\ i \in Active /\ slot \in Nat
        /\ slot \in Places /\ r.count = IF "another" \in L THEN slot - 1 ELSE slot
      BY <1>4, <2>1 DEF UserInv, TypeInv, Operations, Verifies, Active
  <2>3. r.points \in Nat /\ r.hashes \in [Places -> Challenges \cup {NoHash}]
      BY <2>2 DEF Records
  <2>4. \A j \in Ids \ {i} : SameView(j)
      BY <1>2 DEF Hidden
  <2>5. Hidden(i) = {slot} /\ Hidden(i)' = {}
      BY <1>1, <1>4 DEF Hidden
  <2>6. PICK S : S = Settled(i)
      OBVIOUS
  <2>7. S = Seen(r, {slot}) /\ Settled(i)' = Seen(r, {})
      BY <1>1, <2>5, <2>6, SettledIs
  <2>8. CASE "another" \in L
    <3>1. Settled(i)' = Settled(i)
      <4>1. r.count < slot
          BY <2>2, <2>8
      <4> QED BY <2>2, <2>6, <2>7, <4>1, SeenIs
    <3>2. \A j \in Ids : SameView(j)
        BY <1>1, <2>4, <3>1 DEF SameView
    <3> QED BY <3>2, NothingSeen DEF StoreAllows
  <2>9. CASE "another" \notin L
    <3>1. PICK h \in Challenges \cup {NoHash} : h = r.hashes[slot]
        BY <2>2, <2>3
    <3>2. /\ Settled(i)' = (S \cup {h}) \ {NoHash} /\ NoHash \notin S
          /\ S \in SUBSET Listed(r) /\ Listed(r) \in SUBSET Challenges
      <4>1. r.count = slot
          BY <2>2, <2>9
      <4> QED BY <2>2, <2>7, <3>1, <4>1, SeenIs
    <3>3. r.points >= Value((S \cup {h}) \ {NoHash})
      <4>1. /\ (S \cup {h}) \ {NoHash} \in SUBSET Listed(r)
            /\ (S \cup {h}) \ {NoHash} \in SUBSET Challenges
          BY <2>2, <3>1, <3>2 DEF Listed
      <4>2. /\ Value((S \cup {h}) \ {NoHash}) <= Value(Listed(r))
            /\ Value((S \cup {h}) \ {NoHash}) \in Nat /\ Value(Listed(r)) \in Nat
          BY <3>2, <4>1, ValueIs
      <4>3. r.points >= Value(Listed(r))
          BY <2>2 DEF UserInv, Whole
      <4> QED BY <2>3, <4>2, <4>3
    <3> QED BY <1>1, <2>2, <2>4, <2>6, <3>1, <3>2, <3>3, PlaceSeen
  <2> QED BY <2>8, <2>9
<1> QED BY <1>3, <1>4

(* Every step is one that UserStore allows.                                 *)
LEMMA StepsSeen == UserInv /\ [Next]_vars => StoreAllows
<1> SUFFICES ASSUME UserInv, [Next]_vars PROVE StoreAllows
    OBVIOUS
<1>1. ASSUME pool' = pool, op' = op, nameOf' = nameOf
      PROVE  StoreAllows
  <2>1. \A j \in Ids : SameView(j)
      BY <1>1, SettledIs DEF SameView, Hidden
  <2> QED BY <2>1, NothingSeen DEF StoreAllows
<1>2. CASE InitZeroes
  <2>1. ~file.magic /\ Active = {}
      BY <1>2 DEF UserInv, Started, InitZeroes, At
  <2>2. \A j \in Ids : ~pool[j].active /\ ~pool'[j].active
      BY <1>2, <2>1 DEF Active, InitZeroes, ZeroRecord
  <2>3. \A j \in Ids : SameView(j)
      BY <2>2, SettledIs DEF SameView, Seen
  <2> QED BY <2>3, NothingSeen DEF StoreAllows
<1>3. ASSUME op = Idle, pool' = pool, op'.slot = pool[op'.id].count + 1,
             \A l \in 1 .. lives : nameOf'[l] = nameOf[l]
      PROVE  StoreAllows
  <2>1. ASSUME NEW j \in Ids
        PROVE  SameView(j)
    <3>1. pool[j].active => nameOf'[pool'[j].name] = nameOf[pool[j].name]
        BY <1>3 DEF UserInv, Whole, Active
    <3>2. pool[j] \in Records /\ pool[j].count \in Nat
        BY DEF UserInv, TypeInv, Records
    <3>3. Hidden(j) = {} /\ (Hidden(j)' = {} \/ Hidden(j)' = {pool[j].count + 1})
        BY <1>3 DEF Hidden
    <3>4. Settled(j)' = Settled(j)
      <4>1. Seen(pool[j], {pool[j].count + 1}) = Seen(pool[j], {})
          BY <3>2, SeenIs
      <4> QED BY <1>3, <3>3, <4>1, SettledIs
    <3> QED BY <1>3, <3>1, <3>4 DEF SameView
  <2> QED BY <2>1, NothingSeen DEF StoreAllows
<1>4. CASE StartUp /\ ~InitZeroes
  <2>1. pool' = pool /\ op' = op /\ nameOf' = nameOf
      BY <1>4 DEF StartUp, InitOpens, InitTruncates, InitWritesHeader, SetupUnlinks, SetupBinds,
                  fileVars, ghostVars
  <2> QED BY <1>1, <2>1
<1>5. ASSUME NEW n \in Names, Create(n)
      PROVE  StoreAllows
  <2>1. /\ op = Idle /\ pool' = pool /\ op'.slot = pool[op'.id].count + 1
        /\ nameOf' = [nameOf EXCEPT ![lives + 1] = n]
      BY <1>5 DEF Create, Perform, fileVars
  <2>2. \A l \in 1 .. lives : nameOf'[l] = nameOf[l]
    <3> TAKE l \in 1 .. lives
    <3>1. l \in Lives /\ l # lives + 1
        BY UserDBAssumption DEF UserInv, TypeInv, Lives
    <3> QED BY <2>1, <3>1 DEF UserInv, TypeInv
  <2> QED BY <1>3, <2>1, <2>2
<1>6. ASSUME NEW i \in Ids, NEW ch \in Challenges, ChallengeVerify(i, ch)
      PROVE  StoreAllows
  <2>1. op = Idle /\ pool' = pool /\ op'.slot = pool[op'.id].count + 1 /\ nameOf' = nameOf
      BY <1>6 DEF ChallengeVerify, Perform, fileVars, ghostVars
  <2> QED BY <1>3, <2>1
<1>7. ASSUME NEW i \in Ids, Delete(i)
      PROVE  StoreAllows
  <2>1. op = Idle /\ pool' = pool /\ op'.slot = pool[op'.id].count + 1 /\ nameOf' = nameOf
      BY <1>7 DEF Delete, Perform, fileVars, ghostVars
  <2> QED BY <1>3, <2>1
<1>8. CASE RequestWithoutDb \/ Crash
    BY <1>8, KillSeen DEF RequestWithoutDb, Crash
<1>9. ASSUME NEW s \in Stores, Store(s)
      PROVE  StoreAllows
  <2>1. Creates \/ Deletes \/ Verifies
      BY <1>9 DEF Store, UserInv, UnderWay
  <2> QED BY <1>9, <2>1, CreateSeen, DeleteSeen, VerifySeen
<1>10. CASE UNCHANGED vars
    BY <1>1, <1>10 DEF vars, fileVars, ghostVars
<1> QED BY <1>2, <1>4, <1>5, <1>6, <1>7, <1>8, <1>9, <1>10 DEF Next, Request

(* The user database implements UserStore over every kill and restart: an   *)
(* account appears whole with its last store, goes only by a deletion, and  *)
(* is credited before the challenge counts as done (cg_userdb.c:146-201,    *)
(* cg_router.c:805-816).                                                    *)
THEOREM AccountsSurvive == Spec => ImplementsUserStore
<1>1. Init => UserStoreView!Init
  <2> SUFFICES ASSUME Init PROVE UserStoreView!Init
      OBVIOUS
  <2>1. \A i \in Ids : ~pool[i].active /\ Settled(i) = {}
      BY SettledIs DEF Init, ZeroRecord, Seen
  <2> QED BY <2>1 DEF UserStoreView!Init, UserStoreView!Nobody, UserStoreView!NoName, Nobody
<1>2. UserInv /\ [Next]_vars => [UserStoreView!Next]_(UserStoreView!storeVars)
    BY StepsSeen DEF StoreAllows, UserStoreView!storeVars, AccountView, NameView, PointsView,
                     DoneView
<1> QED BY <1>1, <1>2, UserSafe, PTL DEF Spec, ImplementsUserStore, UserStoreView!Spec
=============================================================================
