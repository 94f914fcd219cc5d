-------------------------- MODULE SmtSending_proofs --------------------------
(***************************************************************************)
(* Theorems about the way of a message, for every set of messages whose    *)
(* fields are values, strings and data of any number in any order, for     *)
(* every argument and every width of the sizes.                            *)
(*                                                                         *)
(* What get_ returns is what put_ was given because the two move in step:   *)
(* when get_ has read i fields, it stands where put_ stood after writing   *)
(* as many, and what put_ wrote later left what was there alone.  The      *)
(* functions Packing and Unpacking are defined by recursion over the       *)
(* fields; what they are is shown by induction over a set of numbers.       *)
(***************************************************************************)
EXTENDS SmtSending, SmtLists_proofs, SequenceTheorems

-----------------------------------------------------------------------------
(* Induction up to a bound, over a set of numbers.                          *)
LEMMA UpTo ==
  ASSUME NEW n \in Nat, NEW S, 0 \in S,
         \A i \in 0 .. n - 1 : i \in S => i + 1 \in S
  PROVE  0 .. n \subseteq S
<1> DEFINE Missed == {i \in 0 .. n : i \notin S}
<1>1. SUFFICES ASSUME Missed # {} PROVE FALSE
  OBVIOUS
<1>2. PICK k \in Missed : \A j \in Missed : k <= j
  <2>1. Missed \in SUBSET Nat
    OBVIOUS
  <2> HIDE DEF Missed
  <2> QED BY <1>1, <2>1, SmallestNumber
<1>3. k # 0 /\ k - 1 \in 0 .. n - 1 /\ k - 1 \notin Missed
  BY <1>2
<1>4. k - 1 \in S
  BY <1>3
<1> QED BY <1>2, <1>3, <1>4

-----------------------------------------------------------------------------
(* Blocks as put_ makes them, after any number of fields.                   *)

(* A field after another: the recursion of Packing is well-founded.         *)
LEMMA PackingIs ==
  ASSUME NEW body, NEW vals, Len(body) \in Nat
  PROVE  /\ Packing(body, vals)[0] = [held |-> << >>, bytes |-> << >>]
         /\ \A i \in 1 .. Len(body) :
              Packing(body, vals)[i] = PutField(body[i], vals[i], Packing(body, vals)[i - 1])
<1> DEFINE First == [held |-> << >>, bytes |-> << >>]
           n == Len(body)
           Next1(b, i) == IF i = 0 THEN First ELSE PutField(body[i], vals[i], b[i - 1])
           Are(b, m) == b = [i \in 0 .. m |-> Next1(b, i)]
           Some == {m \in Nat : \E b : Are(b, m)}
<1>1. 0 \in Some
  <2> DEFINE b0 == [i \in 0 .. 0 |-> First]
  <2>1. Are(b0, 0)
    OBVIOUS
  <2> QED BY <2>1
<1>2. ASSUME NEW m \in 0 .. n - 1, m \in Some PROVE m + 1 \in Some
  <2>1. PICK b : Are(b, m)
    BY <1>2
  <2> DEFINE c == [i \in 0 .. m + 1 |-> IF i = m + 1 THEN PutField(body[i], vals[i], b[m]) ELSE b[i]]
  <2>2. \A i \in 0 .. m + 1 : c[i] = Next1(c, i)
    <3>1. ASSUME NEW i \in 0 .. m PROVE c[i] = Next1(c, i)
      <4>1. c[i] = Next1(b, i)
        BY <2>1
      <4>2. i # 0 => c[i - 1] = b[i - 1]
        OBVIOUS
      <4> QED BY <4>1, <4>2
    <3>2. c[m + 1] = Next1(c, m + 1)
      OBVIOUS
    <3>3. \A i \in 0 .. m + 1 : i \in 0 .. m \/ i = m + 1
      OBVIOUS
    <3> HIDE DEF c, Next1
    <3> QED BY <3>1, <3>2, <3>3
  <2>3. Are(c, m + 1)
    <3>1. c = [i \in 0 .. m + 1 |-> c[i]]
      OBVIOUS
    <3> HIDE DEF c, Next1
    <3> QED BY <2>2, <3>1
  <2>4. m + 1 \in Nat
    OBVIOUS
  <2> HIDE DEF Are, c
  <2> QED BY <2>3, <2>4
<1>3. n \in Some
  <2>1. n \in Nat /\ n \in 0 .. n
    OBVIOUS
  <2> HIDE DEF Some, n
  <2> QED BY <1>1, <1>2, <2>1, UpTo
<1>4. Are(Packing(body, vals), n)
  <2>1. PICK b : Are(b, n)
    BY <1>3
  <2>2. Packing(body, vals) = CHOOSE b1 : Are(b1, n)
    BY DEF Packing
  <2> HIDE DEF Are
  <2> QED BY <2>1, <2>2
<1> QED BY <1>4

(* And what get_ has of them, likewise.                                     *)
LEMMA UnpackingIs ==
  ASSUME NEW body, NEW made, Len(body) \in Nat
  PROVE  /\ Unpacking(body, made)[0] = [got |-> << >>, at |-> 1]
         /\ \A i \in 1 .. Len(body) :
              Unpacking(body, made)[i] = GetField(body[i], made.held[i], made.bytes, Unpacking(body, made)[i - 1])
<1> DEFINE First == [got |-> << >>, at |-> 1]
           n == Len(body)
           Next1(b, i) == IF i = 0 THEN First ELSE GetField(body[i], made.held[i], made.bytes, b[i - 1])
           Are(b, m) == b = [i \in 0 .. m |-> Next1(b, i)]
           Some == {m \in Nat : \E b : Are(b, m)}
<1>1. 0 \in Some
  <2> DEFINE b0 == [i \in 0 .. 0 |-> First]
  <2>1. Are(b0, 0)
    OBVIOUS
  <2> QED BY <2>1
<1>2. ASSUME NEW m \in 0 .. n - 1, m \in Some PROVE m + 1 \in Some
  <2>1. PICK b : Are(b, m)
    BY <1>2
  <2> DEFINE c == [i \in 0 .. m + 1 |-> IF i = m + 1 THEN GetField(body[i], made.held[i], made.bytes, b[m]) ELSE b[i]]
  <2>2. \A i \in 0 .. m + 1 : c[i] = Next1(c, i)
    <3>1. ASSUME NEW i \in 0 .. m PROVE c[i] = Next1(c, i)
      <4>1. c[i] = Next1(b, i)
        BY <2>1
      <4>2. i # 0 => c[i - 1] = b[i - 1]
        OBVIOUS
      <4> QED BY <4>1, <4>2
    <3>2. c[m + 1] = Next1(c, m + 1)
      OBVIOUS
    <3>3. \A i \in 0 .. m + 1 : i \in 0 .. m \/ i = m + 1
      OBVIOUS
    <3> HIDE DEF c, Next1
    <3> QED BY <3>1, <3>2, <3>3
  <2>3. Are(c, m + 1)
    <3>1. c = [i \in 0 .. m + 1 |-> c[i]]
      OBVIOUS
    <3> HIDE DEF c, Next1
    <3> QED BY <2>2, <3>1
  <2>4. m + 1 \in Nat
    OBVIOUS
  <2> HIDE DEF Are, c
  <2> QED BY <2>3, <2>4
<1>3. n \in Some
  <2>1. n \in Nat /\ n \in 0 .. n
    OBVIOUS
  <2> HIDE DEF Some, n
  <2> QED BY <1>1, <1>2, <2>1, UpTo
<1>4. Are(Unpacking(body, made), n)
  <2>1. PICK b : Are(b, n)
    BY <1>3
  <2>2. Unpacking(body, made) = CHOOSE b1 : Are(b1, n)
    BY DEF Unpacking
  <2> HIDE DEF Are
  <2> QED BY <2>1, <2>2
<1> QED BY <1>4


-----------------------------------------------------------------------------
(* One field.                                                               *)

(* A size that is cut to its type.                                          *)
LEMMA Modulo ==
  ASSUME NEW a \in Nat, NEW m \in Nat \ {0}
  PROVE  a % m \in 0 .. a /\ a % m < m /\ (a < m => a % m = a)
<1>1. a % m \in 0 .. m - 1
  OBVIOUS
<1>2. a = m * (a \div m) + (a % m) /\ a \div m \in Nat
  OBVIOUS
<1> QED BY <1>1, <1>2

(* The bytes of a field are bytes.                                          *)
LEMMA TakenIs ==
  ASSUME NEW f \in Fields, NEW x, Carries(f, x)
  PROVE  Taken(f, x) \in Seq(Nat)
<1>1. CASE f.kind = "value" \/ x = NULL
  BY <1>1 DEF Taken
<1>2. CASE f.kind = "text" /\ x # NULL
  <2>1. x \in Seq(Nat)
    BY <1>2 DEF Carries
  <2>2. Append(x, 0) \in Seq(Nat)
    BY <2>1
  <2> QED BY <1>2, <2>2 DEF Taken
<1>3. CASE f.kind = "data" /\ x # NULL
  <2>1. x \in Seq(Nat) /\ Len(x) \in Nat /\ f.range \in Nat \ {0}
    BY <1>3 DEF Carries, Fields
  <2>2. Len(x) % f.range \in 0 .. Len(x)
    BY <2>1
  <2>3. SubSeq(x, 1, Len(x) % f.range) \in Seq(Nat)
    BY <2>1, <2>2
  <2> QED BY <1>3, <2>3 DEF Taken
<1> QED BY <1>1, <1>2, <1>3 DEF Fields

(* strlen and strcpy find the string that ends before the first zero.       *)
LEMMA StringRead ==
  ASSUME NEW x \in Seq(Nat \ {0}), NEW bytes \in Seq(Nat), NEW at \in Nat \ {0},
         at + Len(x) <= Len(bytes),
         \A k \in 1 .. Len(x) : bytes[at + k - 1] = x[k],
         bytes[at + Len(x)] = 0
  PROVE  StringAt(bytes, at) = x
<1> DEFINE Zeros == {k \in at .. Len(bytes) : bytes[k] = 0}
           end == at + Len(x)
<1>1. Len(x) \in Nat /\ Len(bytes) \in Nat /\ x \in [1 .. Len(x) -> Nat \ {0}]
  OBVIOUS
<1>2. end \in Zeros
  BY <1>1
<1>3. ASSUME NEW k \in Zeros PROVE end <= k
  <2>1. SUFFICES ASSUME k < end PROVE FALSE
    BY <1>1
  <2>2. k - at + 1 \in 1 .. Len(x) /\ at + (k - at + 1) - 1 = k
    BY <1>1, <2>1
  <2>3. bytes[k] = x[k - at + 1]
    BY <2>2
  <2>4. bytes[k] # 0
    BY <1>1, <2>2, <2>3
  <2> QED BY <2>4
<1>4. Min(Zeros) = end
  <2>1. \A m \in Zeros : (\A y \in Zeros : m <= y) => m = end
    BY <1>1, <1>2, <1>3
  <2> HIDE DEF Zeros, end
  <2> QED BY <1>2, <1>3, <2>1 DEF Min
<1>5. SubSeq(bytes, at, end - 1) = x
  <2>1. SubSeq(bytes, at, end - 1) = [i \in 1 .. Len(x) |-> bytes[at + i - 1]]
    BY <1>1
  <2>2. x = [i \in 1 .. Len(x) |-> x[i]]
    BY <1>1
  <2> QED BY <2>1, <2>2
<1> QED BY <1>4, <1>5 DEF StringAt

(* get_ reads a field as it was sent, and moves on by what put_ wrote, where *)
(* the block holds what put_ wrote.                                         *)
LEMMA FieldRead ==
  ASSUME NULL \notin Nat, NULL \notin Seq(Nat),
         NEW f \in Fields, NEW x, Carries(f, x),
         NEW bytes \in Seq(Nat), NEW at \in Nat \ {0},
         at + Len(Taken(f, x)) - 1 <= Len(bytes),
         \A k \in 1 .. Len(Taken(f, x)) : bytes[at + k - 1] = Taken(f, x)[k]
  PROVE  /\ Field(f, Held(f, x, at), bytes, at) = Sent(f, x)
         /\ Len(Taken(f, Sent(f, x))) = Len(Taken(f, x))
<1>1. CASE f.kind = "value"
  BY <1>1 DEF Field, Held, Sent, Taken
<1>2. CASE f.kind = "text" /\ x = NULL
  BY <1>2 DEF Field, Held, Sent, Taken
<1>3. CASE f.kind = "text" /\ x # NULL
  <2>1. x \in Seq(Nat \ {0})
    BY <1>3 DEF Carries
  <2>2. Taken(f, x) = Append(x, 0) /\ Sent(f, x) = x
    BY <1>3 DEF Taken, Sent
  <2>3. Len(x) \in Nat /\ Len(Append(x, 0)) = Len(x) + 1 /\ Append(x, 0)[Len(x) + 1] = 0
    BY <2>1
  <2>4. \A k \in 1 .. Len(x) : Append(x, 0)[k] = x[k]
    BY <2>1
  <2>5. \A k \in 1 .. Len(x) : bytes[at + k - 1] = x[k]
    BY <2>2, <2>3, <2>4
  <2>6. bytes[at + Len(x)] = 0
    <3>1. Len(x) + 1 \in 1 .. Len(Taken(f, x)) /\ at + (Len(x) + 1) - 1 = at + Len(x)
      BY <2>2, <2>3
    <3> QED BY <2>2, <2>3, <3>1
  <2>7. at + Len(x) <= Len(bytes)
    BY <2>2, <2>3
  <2>8. StringAt(bytes, at) = x
    BY <2>1, <2>5, <2>6, <2>7, StringRead
  <2>9. Held(f, x, at) = at /\ at # NULL
    BY <1>3 DEF Held
  <2> QED BY <1>3, <2>2, <2>8, <2>9 DEF Field
<1>4. CASE f.kind = "data"
  <2> DEFINE t == Taken(f, x)
  <2>1. t \in Seq(Nat) /\ Len(t) \in Nat
    BY TakenIs
  <2>2. Sent(f, x) = t
    BY <1>4 DEF Sent, Taken
  <2>3. Held(f, x, at) = Len(t)
    BY <1>4 DEF Held
  <2>4. SubSeq(bytes, at, at + Len(t) - 1) = t
    <3>1. Len(bytes) \in Nat
      OBVIOUS
    <3> HIDE DEF t
    <3>2. SubSeq(bytes, at, at + Len(t) - 1) = [i \in 1 .. Len(t) |-> bytes[at + i - 1]]
      BY <2>1, <3>1
    <3>3. t = [i \in 1 .. Len(t) |-> t[i]]
      BY <2>1
    <3> QED BY <3>2, <3>3 DEF t
  <2>5. Field(f, Held(f, x, at), bytes, at) = t
    BY <1>4, <2>3, <2>4 DEF Field
  <2>6. f.range \in Nat \ {0}
    BY DEF Fields
  <2>7. Len(t) < f.range
    <3>1. CASE x = NULL
      BY <3>1, <2>6 DEF Taken
    <3>2. CASE x # NULL
      <4>1. x \in Seq(Nat) /\ Len(x) \in Nat
        BY <1>4, <3>2 DEF Carries
      <4>2. Len(x) % f.range \in 0 .. Len(x) /\ Len(x) % f.range < f.range
        BY <2>6, <4>1, Modulo
      <4>3. t = SubSeq(x, 1, Len(x) % f.range)
        BY <1>4, <3>2 DEF Taken
      <4>4. Len(SubSeq(x, 1, Len(x) % f.range)) = Len(x) % f.range
        BY <4>1, <4>2
      <4> QED BY <4>2, <4>3, <4>4
    <3> QED BY <3>1, <3>2
  <2>8. Len(t) % f.range = Len(t)
    BY <2>1, <2>6, <2>7, Modulo
  <2>9. Taken(f, t) = SubSeq(t, 1, Len(t))
    <3>1. t # NULL
      BY <2>1
    <3> HIDE DEF t
    <3> QED BY <1>4, <2>8, <3>1 DEF Taken
  <2>10. Len(SubSeq(t, 1, Len(t))) = Len(t)
    <3> HIDE DEF t
    <3> QED BY <2>1
  <2> QED BY <2>2, <2>5, <2>9, <2>10
<1> QED BY <1>1, <1>2, <1>3, <1>4 DEF Fields

-----------------------------------------------------------------------------
(* The whole block.                                                         *)

Message(body, vals) ==
  /\ body \in Seq(Fields)
  /\ \A i \in DOMAIN body : Carries(body[i], vals[i])

(* Everything a block may hold for its fields.                              *)
HeldFor(body, vals) ==
  {Held(body[p[1]], vals[p[1]], p[2]) : p \in (1 .. Len(body)) \X Nat}

(* What the i-th field adds.                                                *)
Adds(before, after, f, x) ==
  /\ after.held = Append(before.held, Held(f, x, Len(before.bytes) + 1))
  /\ after.bytes = before.bytes \o Taken(f, x)

LEMMA FieldAdds ==
  ASSUME NEW f, NEW x, NEW before
  PROVE  Adds(before, PutField(f, x, before), f, x)
<1> DEFINE more == Append(before.held, Held(f, x, Len(before.bytes) + 1))
           behind == before.bytes \o Taken(f, x)
<1>1. PutField(f, x, before) = [held |-> more, bytes |-> behind]
  BY DEF PutField
<1> HIDE DEF more, behind
<1>2. PutField(f, x, before).held = more /\ PutField(f, x, before).bytes = behind
  BY <1>1
<1> QED BY <1>2 DEF more, behind, Adds

LEMMA PackingStep ==
  ASSUME NEW body, NEW vals, Len(body) \in Nat, NEW i \in 1 .. Len(body)
  PROVE  Adds(Packing(body, vals)[i - 1], Packing(body, vals)[i], body[i], vals[i])
<1>1. Packing(body, vals)[i] = PutField(body[i], vals[i], Packing(body, vals)[i - 1])
  BY PackingIs
<1> QED BY <1>1, FieldAdds

(* After i fields, the structure has i of them.                             *)
LEMMA PackingHas ==
  ASSUME NEW body, NEW vals, Message(body, vals), NEW i \in 0 .. Len(body)
  PROVE  /\ Packing(body, vals)[i].held \in Seq(HeldFor(body, vals))
         /\ Len(Packing(body, vals)[i].held) = i
         /\ Packing(body, vals)[i].bytes \in Seq(Nat)
<1> DEFINE b == Packing(body, vals)
           n == Len(body)
           H == HeldFor(body, vals)
           Has(j) == b[j].held \in Seq(H) /\ Len(b[j].held) = j /\ b[j].bytes \in Seq(Nat)
           Some == {j \in 0 .. n : Has(j)}
<1>1. n \in Nat /\ DOMAIN body = 1 .. n
  BY DEF Message
<1>2. b[0] = [held |-> << >>, bytes |-> << >>]
  BY <1>1, PackingIs
<1>3. 0 \in Some
  <2>1. b[0].held = << >> /\ b[0].bytes = << >>
    BY <1>2
  <2>2. << >> \in Seq(H) /\ << >> \in Seq(Nat) /\ Len(<< >>) = 0
    BY EmptySeq
  <2>3. Has(0) /\ 0 \in 0 .. n
    <3> HIDE DEF b, H
    <3> QED BY <1>1, <2>1, <2>2
  <2> HIDE DEF Has
  <2> QED BY <2>3
<1>4. ASSUME NEW j \in 0 .. n - 1, j \in Some PROVE j + 1 \in Some
  <2> DEFINE h == Held(body[j + 1], vals[j + 1], Len(b[j].bytes) + 1)
             t == Taken(body[j + 1], vals[j + 1])
  <2>1. j + 1 \in 1 .. n /\ (j + 1) - 1 = j
    BY <1>1
  <2>2. Adds(b[(j + 1) - 1], b[j + 1], body[j + 1], vals[j + 1])
    BY <1>1, <2>1, PackingStep
  <2>3. b[j + 1].held = Append(b[j].held, h) /\ b[j + 1].bytes = b[j].bytes \o t
    <3> HIDE DEF b
    <3> QED BY <2>1, <2>2 DEF Adds
  <2>4. Has(j)
    BY <1>4
  <2>5. h \in H
    <3>1. <<j + 1, Len(b[j].bytes) + 1>> \in (1 .. Len(body)) \X Nat
      <4> HIDE DEF b
      <4> QED BY <2>1, <2>4
    <3> DEFINE p == <<j + 1, Len(b[j].bytes) + 1>>
    <3>2. h = Held(body[p[1]], vals[p[1]], p[2])
      OBVIOUS
    <3> HIDE DEF p, h
    <3> QED BY <3>1, <3>2 DEF HeldFor, p
  <2>6. t \in Seq(Nat)
    BY <1>1, <2>1, TakenIs DEF Message
  <2> HIDE DEF b, H, h, t
  <2>7. Append(b[j].held, h) \in Seq(H) /\ Len(Append(b[j].held, h)) = j + 1
    BY <2>4, <2>5
  <2>8. b[j].bytes \o t \in Seq(Nat)
    BY <2>4, <2>6
  <2>9. Has(j + 1)
    BY <2>3, <2>7, <2>8
  <2>10. j + 1 \in 0 .. n
    BY <1>1, <2>1
  <2> HIDE DEF Has
  <2> QED BY <2>9, <2>10
<1>5. i \in Some
  <2> HIDE DEF Some, n
  <2> QED BY <1>1, <1>3, <1>4, UpTo DEF n
<1> QED BY <1>5

(* What put_ writes later leaves alone what is there.                       *)
Grown(before, after, i) ==
  /\ Len(before.bytes) <= Len(after.bytes)
  /\ \A k \in 1 .. Len(before.bytes) : after.bytes[k] = before.bytes[k]
  /\ \A k \in 1 .. i : after.held[k] = before.held[k]

LEMMA PackingGrows ==
  ASSUME NEW body, NEW vals, Message(body, vals),
         NEW j \in 0 .. Len(body), NEW i \in 0 .. j
  PROVE  Grown(Packing(body, vals)[i], Packing(body, vals)[j], i)
<1> DEFINE b == Packing(body, vals)
           n == Len(body)
           H == HeldFor(body, vals)
           Keeps(m) == Grown(b[i], b[m], i)
           Some == {m \in 0 .. n : i <= m => Keeps(m)}
<1>1. n \in Nat /\ DOMAIN body = 1 .. n /\ i \in 0 .. n
  BY DEF Message
<1>2. \A m \in 0 .. n : b[m].held \in Seq(H) /\ Len(b[m].held) = m /\ b[m].bytes \in Seq(Nat)
  BY PackingHas
<1>3. i \in Some
  <2> HIDE DEF b
  <2> QED BY <1>1, <1>2 DEF Grown
<1>4. 0 \in Some
  <2>1. i <= 0 => i = 0
    BY <1>1
  <2> HIDE DEF Keeps
  <2> QED BY <1>1, <1>3, <2>1
<1>5. ASSUME NEW m \in 0 .. n - 1, m \in Some PROVE m + 1 \in Some
  <2> DEFINE h == Held(body[m + 1], vals[m + 1], Len(b[m].bytes) + 1)
             t == Taken(body[m + 1], vals[m + 1])
  <2>1. m + 1 \in 1 .. n /\ (m + 1) - 1 = m /\ m \in 0 .. n
    BY <1>1
  <2>2. Adds(b[(m + 1) - 1], b[m + 1], body[m + 1], vals[m + 1])
    BY <1>1, <2>1, PackingStep
  <2>3. b[m + 1].held = Append(b[m].held, h) /\ b[m + 1].bytes = b[m].bytes \o t
    <3> HIDE DEF b
    <3> QED BY <2>1, <2>2 DEF Adds
  <2>4. t \in Seq(Nat)
    BY <1>1, <2>1, TakenIs DEF Message
  <2>5. CASE i = m + 1
    BY <1>3, <2>5
  <2>6. CASE i > m + 1
    BY <1>1, <2>1, <2>6
  <2>7. CASE i <= m
    <3>1. Keeps(m)
      BY <1>5, <2>7
    <3> HIDE DEF b, H, h, t
    <3>2. Len(b[i].bytes) \in Nat /\ Len(b[m].bytes) \in Nat /\ Len(t) \in Nat
      BY <1>1, <1>2, <2>1, <2>4
    <3>3. Len(b[m + 1].bytes) = Len(b[m].bytes) + Len(t)
      BY <1>2, <2>1, <2>3, <2>4
    <3>4. \A k \in 1 .. Len(b[m].bytes) : b[m + 1].bytes[k] = b[m].bytes[k]
      BY <1>2, <2>1, <2>3, <2>4
    <3>5. \A k \in 1 .. m : b[m + 1].held[k] = b[m].held[k]
      BY <1>2, <2>1, <2>3
    <3>6. Keeps(m + 1)
      <4>1. Len(b[i].bytes) <= Len(b[m + 1].bytes)
        BY <3>1, <3>2, <3>3 DEF Grown
      <4>2. \A k \in 1 .. Len(b[i].bytes) : k \in 1 .. Len(b[m].bytes)
        BY <3>1, <3>2 DEF Grown
      <4>3. \A k \in 1 .. Len(b[i].bytes) : b[m + 1].bytes[k] = b[i].bytes[k]
        BY <3>1, <3>4, <4>2 DEF Grown
      <4>4. \A k \in 1 .. i : k \in 1 .. m
        BY <1>1, <2>7
      <4>5. \A k \in 1 .. i : b[m + 1].held[k] = b[i].held[k]
        BY <3>1, <3>5, <4>4 DEF Grown
      <4> QED BY <4>1, <4>3, <4>5 DEF Grown
    <3> QED BY <2>1, <3>6
  <2> QED BY <1>1, <2>1, <2>5, <2>6, <2>7
<1>6. j \in Some
  <2> HIDE DEF Some, n
  <2> QED BY <1>1, <1>4, <1>5, UpTo DEF n
<1> QED BY <1>6

(* The i-th field is in the block that is sent where it was written.        *)
Fits(f, x, before, after, held, bytes) ==
  /\ Len(after.bytes) + 1 = (Len(before.bytes) + 1) + Len(Taken(f, x))
  /\ Field(f, held, bytes, Len(before.bytes) + 1) = Sent(f, x)
  /\ Len(Taken(f, Sent(f, x))) = Len(Taken(f, x))

LEMMA FieldThere ==
  ASSUME NULL \notin Nat, NULL \notin Seq(Nat),
         NEW body, NEW vals, Message(body, vals), NEW i \in 1 .. Len(body)
  PROVE  Fits(body[i], vals[i], Packing(body, vals)[i - 1], Packing(body, vals)[i],
              Put(body, vals).held[i], Put(body, vals).bytes)
<1> DEFINE b == Packing(body, vals)
           n == Len(body)
           H == HeldFor(body, vals)
           at == Len(b[i - 1].bytes) + 1
           t == Taken(body[i], vals[i])
           h == Held(body[i], vals[i], at)
<1>1. n \in Nat /\ DOMAIN body = 1 .. n /\ i - 1 \in 0 .. n /\ i \in 0 .. n /\ n \in 0 .. n
  BY DEF Message
<1>2. body[i] \in Fields /\ Carries(body[i], vals[i])
  BY <1>1 DEF Message
<1>3. t \in Seq(Nat) /\ Len(t) \in Nat
  BY <1>2, TakenIs
<1>4. \A m \in 0 .. n : b[m].held \in Seq(H) /\ Len(b[m].held) = m /\ b[m].bytes \in Seq(Nat)
  BY PackingHas
<1>5. at \in Nat \ {0} /\ Len(b[i].bytes) \in Nat /\ Len(b[n].bytes) \in Nat
  <2> HIDE DEF b
  <2> QED BY <1>1, <1>4
<1>6. b[i].held = Append(b[i - 1].held, h) /\ b[i].bytes = b[i - 1].bytes \o t
  <2>1. Adds(b[i - 1], b[i], body[i], vals[i])
    BY <1>1, PackingStep
  <2> HIDE DEF b
  <2> QED BY <2>1 DEF Adds
<1>7. /\ Len(b[i].bytes) <= Len(b[n].bytes)
      /\ \A k \in 1 .. Len(b[i].bytes) : b[n].bytes[k] = b[i].bytes[k]
      /\ \A k \in 1 .. i : b[n].held[k] = b[i].held[k]
  <2>1. i \in 0 .. n /\ n \in 0 .. Len(body)
    BY <1>1
  <2>2. Grown(b[i], b[n], i)
    BY <2>1, PackingGrows
  <2> HIDE DEF b
  <2> QED BY <2>2 DEF Grown
<1> HIDE DEF b, H, t, h
<1>8. b[i].held[i] = h /\ Len(b[i].bytes) = at - 1 + Len(t)
  BY <1>1, <1>3, <1>4, <1>6
<1>9. \A k \in 1 .. Len(t) : b[i].bytes[at + k - 1] = t[k]
  <2> HIDE DEF at
  <2>1. at = Len(b[i - 1].bytes) + 1 /\ Len(b[i - 1].bytes) \in Nat
    BY <1>1, <1>4 DEF at
  <2> TAKE k \in 1 .. Len(t)
  <2>2. at + k - 1 = Len(b[i - 1].bytes) + k
    BY <2>1
  <2>3. (b[i - 1].bytes \o t)[Len(b[i - 1].bytes) + k] = t[k]
    BY <1>1, <1>3, <1>4
  <2> QED BY <1>6, <2>2, <2>3
<1> HIDE DEF at
<1>10. b[n].held[i] = h
  BY <1>1, <1>7, <1>8
<1>11. \A k \in 1 .. Len(t) : b[n].bytes[at + k - 1] = t[k]
  <2> TAKE k \in 1 .. Len(t)
  <2>1. at + k - 1 \in 1 .. Len(b[i].bytes)
    BY <1>3, <1>5, <1>8
  <2> QED BY <1>7, <1>9, <2>1
<1>12. at + Len(t) - 1 <= Len(b[n].bytes)
  BY <1>3, <1>5, <1>7, <1>8
<1>13. b[n].bytes \in Seq(Nat)
  BY <1>1, <1>4
<1>14. /\ Field(body[i], h, b[n].bytes, at) = Sent(body[i], vals[i])
       /\ Len(Taken(body[i], Sent(body[i], vals[i]))) = Len(t)
  BY <1>2, <1>5, <1>11, <1>12, <1>13, FieldRead DEF t, h
<1>15. Len(b[i].bytes) + 1 = at + Len(t)
  BY <1>3, <1>5, <1>8
<1>16. Put(body, vals) = b[n]
  BY DEF Put, b
<1> QED BY <1>5, <1>10, <1>13, <1>14, <1>15, <1>16 DEF b, at, t, Fits

(* get_ returns what was sent, for every body and everything it carries.    *)
LEMMA GetReturnsPut ==
  ASSUME NULL \notin Nat, NULL \notin Seq(Nat), NEW body, NEW vals, Message(body, vals)
  PROVE  Get(body, Put(body, vals)) = [i \in DOMAIN body |-> Sent(body[i], vals[i])]
<1> DEFINE b == Packing(body, vals)
           n == Len(body)
           block1 == Put(body, vals)
           u == Unpacking(body, block1)
           Got(i) == [k \in 1 .. i |-> Sent(body[k], vals[k])]
           InStep(i) == u[i].got = Got(i) /\ u[i].at = Len(b[i].bytes) + 1
           Some == {i \in 0 .. n : InStep(i)}
<1>1. n \in Nat /\ DOMAIN body = 1 .. n
  BY DEF Message
<1>2. 0 \in Some
  <2>1. u[0].got = << >> /\ u[0].at = 1
    <3>1. u[0] = [got |-> << >>, at |-> 1]
      BY <1>1, UnpackingIs
    <3> HIDE DEF u
    <3> QED BY <3>1
  <2>2. b[0].bytes = << >>
    <3>1. b[0] = [held |-> << >>, bytes |-> << >>]
      BY <1>1, PackingIs
    <3> HIDE DEF b
    <3> QED BY <3>1
  <2>3. Got(0) = << >>
    OBVIOUS
  <2>4. InStep(0)
    <3> HIDE DEF u, b, Got
    <3> QED BY <2>1, <2>2, <2>3
  <2> HIDE DEF InStep
  <2> QED BY <1>1, <2>4
<1>3. ASSUME NEW j \in 0 .. n - 1, j \in Some PROVE j + 1 \in Some
  <2> DEFINE i == j + 1
             x == Sent(body[i], vals[i])
             at == Len(b[i - 1].bytes) + 1
  <2>1. i \in 1 .. n /\ i - 1 = j /\ i \in 0 .. n /\ j \in Nat
    BY <1>1
  <2>2. /\ Len(b[i].bytes) + 1 = at + Len(Taken(body[i], vals[i]))
        /\ Field(body[i], block1.held[i], block1.bytes, at) = x
        /\ Len(Taken(body[i], x)) = Len(Taken(body[i], vals[i]))
    <3>1. Fits(body[i], vals[i], b[i - 1], b[i], block1.held[i], block1.bytes)
      <4> HIDE DEF i
      <4> QED BY <2>1, FieldThere
    <3> HIDE DEF b, block1, i
    <3> QED BY <3>1 DEF Fits
  <2>3. u[j].got = Got(j) /\ u[j].at = at
    <3>1. InStep(j)
      BY <1>3
    <3> HIDE DEF b, u, Got
    <3> QED BY <2>1, <3>1
  <2>4. u[i] = GetField(body[i], block1.held[i], block1.bytes, u[j])
    <3>1. u[i] = GetField(body[i], block1.held[i], block1.bytes, u[i - 1])
      <4> HIDE DEF i, block1
      <4> QED BY <1>1, <2>1, UnpackingIs
    <3> HIDE DEF u, i, block1
    <3> QED BY <2>1, <3>1
  <2>5. u[i] = [got |-> Append(Got(j), x), at |-> at + Len(Taken(body[i], x))]
    <3> HIDE DEF u, b, i, x, at, block1, Got
    <3> QED BY <2>2, <2>3, <2>4 DEF GetField
  <2>6. Append(Got(j), x) = Got(i)
    <3> DEFINE All == {Sent(body[k], vals[k]) : k \in 1 .. j}
    <3>1. Len(Got(j)) = j /\ Got(j) \in Seq(All)
      <4>1. Got(j) \in [1 .. j -> All]
        OBVIOUS
      <4> HIDE DEF Got, All
      <4> QED BY <2>1, <4>1
    <3>2. Append(Got(j), x) = [k \in 1 .. j + 1 |-> IF k = j + 1 THEN x ELSE Got(j)[k]]
      BY <2>1, <3>1
    <3>3. \A k \in 1 .. j + 1 : (IF k = j + 1 THEN x ELSE Got(j)[k]) = Sent(body[k], vals[k])
      BY <2>1
    <3> QED BY <3>2, <3>3
  <2>7. InStep(i)
    <3> HIDE DEF u, b, i, x, at, Got
    <3>1. u[i].got = Append(Got(j), x) /\ u[i].at = at + Len(Taken(body[i], x))
      BY <2>5
    <3> QED BY <2>2, <2>6, <3>1
  <2> HIDE DEF InStep
  <2> QED BY <2>1, <2>7
<1>4. InStep(n)
  <2>1. n \in Some
    <3> HIDE DEF Some, n
    <3> QED BY <1>1, <1>2, <1>3, UpTo
  <2> QED BY <2>1
<1> QED BY <1>1, <1>4 DEF Get

(* What get_ allocates is not the sender's block.                           *)
LEMMA AllocatedIsNot ==
  ASSUME NEW body \in Seq(Fields), NEW got
  PROVE  "block" \notin Allocated(body, got)
<1>1. ASSUME NEW i \in DOMAIN body PROVE body[i].name # "block"
  <2>1. body[i] \in Fields
    OBVIOUS
  <2>2. body[i].name \in STRING \ {"block"}
    BY <2>1 DEF Fields
  <2> QED BY <2>2
<1> QED BY <1>1 DEF Allocated

-----------------------------------------------------------------------------
(* The invariant.                                                           *)

LEMMA InitKept ==
  SendingInit => MessageKept
BY DEF SendingInit, MessageKept

LEMMA NextKept ==
  ASSUME MessageKept, [SendingNext]_message
  PROVE  MessageKept'
<1>1. CASE LsendPut
  BY <1>1 DEF LsendPut, MessageKept
<1>2. CASE EventSend
  BY <1>2 DEF EventSend, MessageKept
<1>3. CASE LsendFree
  BY <1>3 DEF LsendFree, MessageKept
<1>4. CASE GetParams
  BY <1>4 DEF GetParams, MessageKept
<1>5. CASE GetFails
  BY <1>5 DEF GetFails, MessageKept
<1>6. CASE GetCrashes
  BY <1>6 DEF GetCrashes, MessageKept
<1>7. CASE FreeParams
  BY <1>7 DEF FreeParams, MessageKept
<1>8. CASE EventDestroy
  BY <1>8 DEF EventDestroy, MessageKept
<1>9. CASE UNCHANGED message
  BY <1>9 DEF message, MessageKept
<1> QED BY <1>1, <1>2, <1>3, <1>4, <1>5, <1>6, <1>7, <1>8, <1>9 DEF SendingNext

(* Who holds what at each stage of a message, and that block and copy are   *)
(* as put_ made them, whatever fails on the way.                            *)
THEOREM MessageIsKept == SendingSpec => []MessageKept
BY InitKept, NextKept, PTL DEF SendingSpec

(* What the receiver's module works with is what the sender's gave to its   *)
(* lsend_ function: every string, missing or empty or not, and every data   *)
(* up to the width of its size, with the block it was packed in long gone.  *)
THEOREM ArrivesAsSent == GoodMessages => (SendingSpec => []ReceivedAsSent)
<1> SUFFICES ASSUME GoodMessages PROVE SendingSpec => []ReceivedAsSent
  OBVIOUS
<1>1. ASSUME MessageKept PROVE ReceivedAsSent
  <2>1. SUFFICES ASSUME pc = "use"
                 PROVE  /\ "block" \notin live
                        /\ params = [i \in DOMAIN event.body |-> Sent(event.body[i], args[i])]
    BY DEF ReceivedAsSent
  <2>2. Message(event.body, args)
    BY <1>1 DEF GoodMessages, MessageKept, Message
  <2>3. params = [i \in DOMAIN event.body |-> Sent(event.body[i], args[i])]
    BY <1>1, <2>1, <2>2, GetReturnsPut DEF GoodMessages, MessageKept
  <2>4. "block" \notin live
    BY <1>1, <2>1, <2>2, AllocatedIsNot DEF MessageKept, Message
  <2> QED BY <2>3, <2>4
<1> QED BY <1>1, MessageIsKept, PTL

(* Whatever fails on the way, nothing a message took stays allocated: what  *)
(* lsend_ and get_ allocate is freed by lsend_, free_ and event_destroy.    *)
THEOREM MessagesFreeAll == SendingSpec => []NothingLeaks
<1>1. MessageKept => NothingLeaks
  BY DEF MessageKept, NothingLeaks
<1> QED BY <1>1, MessageIsKept, PTL

(* Both together: a message arrives as it was sent, and leaves nothing      *)
(* behind.                                                                  *)
THEOREM MessagesDo == GoodMessages => (SendingSpec => []MessagesArrive)
<1>1. ReceivedAsSent /\ NothingLeaks => MessagesArrive
  BY DEF MessagesArrive
<1> QED BY <1>1, ArrivesAsSent, MessagesFreeAll, PTL
=============================================================================
