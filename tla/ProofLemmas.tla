------------------------------- MODULE ProofLemmas -------------------------------
(***************************************************************************)
(* Facts about numbers and sequences that the proofs of several components *)
(* use.                                                                    *)
(***************************************************************************)
EXTENDS Integers, Sequences, SequenceTheorems, WellFoundedInduction, TLAPS

\* Every set of naturals that is not empty has a least element.
LEMMA LeastNatural ==
    ASSUME NEW T \in SUBSET Nat, T # {}
    PROVE  \E x \in T : \A y \in T : x <= y
<1>1. \A x, y \in Nat : <<y, x>> \in OpToRel(<, Nat) <=> y < x
  BY Zenon DEF OpToRel
<1>2. PICK R : /\ IsWellFoundedOn(R, Nat)
               /\ \A x, y \in Nat : <<y, x>> \in R <=> y < x
  BY <1>1, NatLessThanWellFounded, Zenon
<1>3. PICK x \in T : \A y \in T : ~(<<y, x>> \in R)
  BY <1>2, WFMin
<1>4. \A y \in T : ~(y < x)
  BY <1>2, <1>3
<1> QED
  BY <1>4

\* Division leaves a remainder ...
LEMMA Division ==
    ASSUME NEW x \in Int, NEW n \in Int, n > 0
    PROVE  x = n * (x \div n) + (x % n)
BY SMTT(30)

\* ... that is less than the divisor ...
LEMMA DivMod ==
    ASSUME NEW x \in Int, NEW n \in Nat \ {0}
    PROVE  /\ x \div n \in Int /\ x % n \in 0 .. (n - 1)
           /\ x = (x \div n) * n + (x % n)
<1> DEFINE q == x \div n
           m == x % n
<1>1. n \in Int /\ n > 0
  OBVIOUS
<1>2. x = n * q + m
  BY <1>1, Division
<1>3. q \in Int /\ m \in 0 .. (n - 1)
  OBVIOUS
<1> HIDE DEF q, m
<1>4. x = q * n + m
  BY <1>2, <1>3
<1> QED
  BY <1>3, <1>4 DEF q, m

\* Rows of n numbers do not overlap.
LEMMA Rows ==
    ASSUME NEW n \in Nat \ {0}, NEW p \in Int, NEW q \in Int, p < q
    PROVE  p * n \in Int /\ q * n \in Int /\ p * n + n <= q * n
<1>1. q - p - 1 \in Nat
  OBVIOUS
<1>2. (q - p - 1) * n \in Nat
  BY <1>1
<1>3. (q - p - 1) * n = q * n - p * n - n
  OBVIOUS
<1> QED
  BY <1>2, <1>3

\* ... and quotient and remainder are the only ones there are.
LEMMA DivModUnique ==
    ASSUME NEW n \in Nat \ {0}, NEW q \in Int, NEW r \in 0 .. (n - 1), NEW x \in Int,
           x = q * n + r
    PROVE  x \div n = q /\ x % n = r
<1> DEFINE p == x \div n
           s == x % n
<1>1. p \in Int /\ s \in 0 .. (n - 1) /\ x = p * n + s
  BY DivMod
<1> HIDE DEF p, s
<1>2. ~(p < q)
  <2> SUFFICES ASSUME p < q PROVE FALSE
    OBVIOUS
  <2>1. p * n + n <= q * n /\ p * n \in Int /\ q * n \in Int
    BY <1>1, Rows
  <2> QED  BY <1>1, <2>1
<1>3. ~(q < p)
  <2> SUFFICES ASSUME q < p PROVE FALSE
    OBVIOUS
  <2>1. q * n + n <= p * n /\ p * n \in Int /\ q * n \in Int
    BY <1>1, Rows
  <2> QED  BY <1>1, <2>1
<1>4. p = q
  BY <1>1, <1>2, <1>3
<1> QED
  BY <1>1, <1>4 DEF p, s

\* Of any n numbers in a row, one leaves a given remainder.
LEMMA Residue ==
    ASSUME NEW n \in Nat \ {0}, NEW q \in Int, NEW r \in 0 .. (n - 1)
    PROVE  \E x \in (q + 1) .. (q + n) : x % n = r
<1> DEFINE y == r - (q + 1)
           t == y \div n
           e == y % n
<1>1. y \in Int
  OBVIOUS
<1>2. t \in Int /\ e \in 0 .. (n - 1) /\ y = t * n + e
  BY <1>1, DivMod
<1> HIDE DEF t, e
<1>3. -t \in Int /\ (-t) * n = -(t * n) /\ t * n \in Int
  BY <1>2
<1>4. q + 1 + e = (-t) * n + r /\ q + 1 + e \in (q + 1) .. (q + n)
  BY <1>2, <1>3
<1>5. (q + 1 + e) % n = r
  BY <1>3, <1>4, DivModUnique
<1> QED
  BY <1>4, <1>5

\* A sequence as a stack, its top in front: an element is pushed ...
LEMMA PushSeq ==
    ASSUME NEW F, NEW s \in Seq(F), NEW f \in F, NEW p, p = <<f>> \o s
    PROVE  /\ p \in Seq(F) /\ p # <<>> /\ p[1] = f /\ Len(p) = Len(s) + 1
           /\ \A j \in DOMAIN p :
                 /\ j \in Nat \ {0}
                 /\ j # 1 => j - 1 \in DOMAIN s /\ p[j] = s[j - 1]
           /\ \A i \in DOMAIN s : i + 1 \in DOMAIN p /\ p[i + 1] = s[i]
<1>1. <<f>> \in Seq(F) /\ Len(<<f>>) = 1
  OBVIOUS
<1>2. p \in Seq(F)
  BY <1>1
<1>3. /\ Len(s) \in Nat /\ DOMAIN s = 1..Len(s)
      /\ Len(p) = Len(s) + 1 /\ DOMAIN p = 1..(Len(s) + 1)
  BY <1>1, <1>2
<1>4. p[1] = f /\ \A j \in 2..(Len(s) + 1) : p[j] = s[j - 1]
  BY <1>1, <1>2, <1>3
<1>5. p # <<>>
  BY <1>3
<1>6. \A j \in DOMAIN p :
         j \in Nat \ {0} /\ (j # 1 => j - 1 \in DOMAIN s /\ p[j] = s[j - 1])
  BY <1>3, <1>4
<1>7. \A i \in DOMAIN s : i + 1 \in DOMAIN p /\ p[i + 1] = s[i]
  BY <1>3, <1>4
<1> QED
  BY <1>2, <1>3, <1>4, <1>5, <1>6, <1>7

\* ... the top is replaced ...
LEMMA ReplaceTop ==
    ASSUME NEW F, NEW s \in Seq(F), s # <<>>, NEW f \in F, NEW p,
           p = [s EXCEPT ![1] = f]
    PROVE  /\ p \in Seq(F) /\ p # <<>> /\ p[1] = f /\ Len(p) = Len(s)
           /\ 1 \in DOMAIN s /\ DOMAIN p = DOMAIN s
           /\ \A i \in DOMAIN s \ {1} : p[i] = s[i]
<1>1. /\ Len(s) \in Nat \ {0} /\ DOMAIN s = 1..Len(s)
      /\ \A i \in DOMAIN s : s[i] \in F
  BY LenProperties, EmptySeq, ElementOfSeq
<1>2. p \in Seq(F) /\ Len(p) = Len(s)
  BY <1>1, ExceptSeq
<1>3. /\ DOMAIN p = DOMAIN s /\ p[1] = f
      /\ \A i \in DOMAIN s \ {1} : p[i] = s[i]
  BY <1>1
<1>4. p # <<>>
  BY <1>1, <1>3
<1> QED
  BY <1>1, <1>2, <1>3, <1>4

\* ... or popped.
LEMMA PopSeq ==
    ASSUME NEW F, NEW s \in Seq(F), s # <<>>, NEW p, p = Tail(s)
    PROVE  /\ p \in Seq(F) /\ Len(p) = Len(s) - 1
           /\ \A j \in DOMAIN p :
                 j \in Nat \ {0} /\ j + 1 \in DOMAIN s /\ p[j] = s[j + 1]
           /\ \A i \in DOMAIN s : i # 1 => i - 1 \in DOMAIN p /\ p[i - 1] = s[i]
<1>1. Len(s) \in Nat \ {0} /\ DOMAIN s = 1..Len(s)
  BY LenProperties, EmptySeq
<1>2. /\ p \in Seq(F) /\ Len(p) = Len(s) - 1 /\ DOMAIN p = 1..(Len(s) - 1)
      /\ \A j \in 1..(Len(s) - 1) : p[j] = s[j + 1]
  BY <1>1
<1>3. \A j \in DOMAIN p :
         j \in Nat \ {0} /\ j + 1 \in DOMAIN s /\ p[j] = s[j + 1]
  BY <1>1, <1>2
<1>4. \A i \in DOMAIN s : i # 1 => i - 1 \in DOMAIN p /\ p[i - 1] = s[i]
  BY <1>1, <1>2
<1> QED
  BY <1>2, <1>3, <1>4
================================================================================
