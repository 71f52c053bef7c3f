----------------------------- MODULE DirProofs ------------------------------
(***************************************************************************)
(* Proofs about Dir, second part: how ref and nlink count, and the         *)
(* theorems.                                                               *)
(***************************************************************************)
EXTENDS DirStepProofs, FiniteSetTheorems

-----------------------------------------------------------------------------
(* Counting.                                                               *)

\* One element more or less.
LEMMA WithoutOne ==
    ASSUME NEW S, NEW e, IsFiniteSet(S \ {e})
    PROVE  /\ IsFiniteSet(S) /\ Cardinality(S) = Cardinality(S \ {e}) + Has(e, S)
           /\ Cardinality(S) \in Nat /\ Cardinality(S \ {e}) \in Nat
<1> DEFINE U == S \ {e}
<1>1. Cardinality(U) \in Nat
  BY FS_CardinalityType
<1>2. CASE e \in S
  <2>1. S = U \cup {e} /\ e \notin U /\ Has(e, S) = 1
    BY <1>2, Zenon DEF Has
  <2> HIDE DEF U
  <2>2. IsFiniteSet(U)
    BY Zenon DEF U
  <2>3. IsFiniteSet(U \cup {e}) /\ Cardinality(U \cup {e}) = Cardinality(U) + 1
    BY <2>1, <2>2, FS_AddElement, Zenon
  <2>4. IsFiniteSet(S) /\ Cardinality(S) = Cardinality(U) + 1
    BY <2>1, <2>3, Zenon
  <2> QED
    BY <1>1, <2>1, <2>4 DEF U
<1>3. CASE e \notin S
  <2>1. S = U /\ Has(e, S) = 0
    BY <1>3, Zenon DEF Has
  <2> HIDE DEF U
  <2>2. IsFiniteSet(U)
    BY Zenon DEF U
  <2>3. Cardinality(U) = Cardinality(U) + 0 /\ Cardinality(S) = Cardinality(U)
    BY <1>1, <2>1
  <2> QED
    BY <1>1, <2>1, <2>2, <2>3, Zenon DEF U
<1> QED
  BY <1>2, <1>3, Zenon

\* How the size of a set changes when one element may come or go.
LEMMA OneMoves ==
    ASSUME NEW S, NEW T, NEW e, IsFiniteSet(S), T \ {e} = S \ {e}
    PROVE  /\ Cardinality(S) \in Nat /\ Cardinality(T) \in Nat
           /\ Cardinality(T) + Has(e, S) = Cardinality(S) + Has(e, T)
<1>1. IsFiniteSet(S \ {e})
  BY FS_RemoveElement, Zenon
<1>2. /\ Cardinality(S) = Cardinality(S \ {e}) + Has(e, S)
      /\ Cardinality(S) \in Nat /\ Cardinality(S \ {e}) \in Nat
  BY <1>1, WithoutOne, Zenon
<1>3. Cardinality(T) = Cardinality(S \ {e}) + Has(e, T) /\ Cardinality(T) \in Nat
  BY <1>1, WithoutOne, Zenon
<1>4. Has(e, S) \in Nat /\ Has(e, T) \in Nat
  BY Zenon DEF Has
<1> QED
  BY <1>2, <1>3, <1>4

\* The processes are finitely many, and so are the names.
LEMMA Finite ==
    /\ \A S \in SUBSET Proc : IsFiniteSet(S) /\ Cardinality(S) \in Nat
    /\ \A n : /\ IsFiniteSet(NamesOf(n)) /\ IsFiniteSet(SubDirs(n))
              /\ IsFiniteSet(Counting(n))
              /\ Cardinality(NamesOf(n)) \in Nat /\ Cardinality(SubDirs(n)) \in Nat
              /\ Cardinality(Counting(n)) \in Nat
<1>1. IsFiniteSet(Proc) /\ IsFiniteSet(Name) /\ IsFiniteSet(Inum)
  BY DirAssumption, Zenon
<1>2. \A S \in SUBSET Proc : IsFiniteSet(S) /\ Cardinality(S) \in Nat
  BY <1>1, FS_Subset, FS_CardinalityType, Zenon
<1>3. IsFiniteSet(Inum \X Name)
  BY <1>1, FS_Product, Zenon
<1>4. ASSUME NEW n
      PROVE  /\ IsFiniteSet(NamesOf(n)) /\ IsFiniteSet(SubDirs(n))
             /\ IsFiniteSet(Counting(n))
  <2>1. NamesOf(n) \in SUBSET (Inum \X Name) /\ SubDirs(n) \in SUBSET Name
    BY Zenon DEF NamesOf, SubDirs
  <2>2. Counting(n) \in SUBSET Proc
    BY Zenon DEF Counting
  <2> QED
    BY <1>1, <1>2, <1>3, <2>1, <2>2, FS_Subset, Zenon
<1> QED
  BY <1>2, <1>4, FS_CardinalityType, Zenon

\* The sets that are counted are finite after a step too.
LEMMA FiniteNext ==
    ASSUME NEW n
    PROVE  /\ Cardinality(NamesOf(n)') \in Nat /\ Cardinality(SubDirs(n)') \in Nat
           /\ Cardinality(Counting(n)') \in Nat
<1>1. IsFiniteSet(Proc) /\ IsFiniteSet(Name) /\ IsFiniteSet(Inum \X Name)
  BY DirAssumption, FS_Product, Zenon
<1>2. NamesOf(n)' \in SUBSET (Inum \X Name) /\ SubDirs(n)' \in SUBSET Name
  BY Zenon DEF NamesOf, SubDirs
<1>3. Counting(n)' \in SUBSET Proc
  BY Zenon DEF Counting
<1> QED
  BY <1>1, <1>2, <1>3, FS_Subset, FS_CardinalityType, Zenon

\* What the number of elements says.
LEMMA SomeOrOne ==
    ASSUME NEW S, IsFiniteSet(S)
    PROVE  /\ S # {} => Cardinality(S) >= 1
           /\ Cardinality(S) = 1 => \A a, b \in S : a = b
<1>1. Cardinality(S) \in Nat /\ (Cardinality(S) = 0 <=> S = {})
  BY FS_CardinalityType, FS_EmptySet, Zenon
<1>2. S # {} => Cardinality(S) >= 1
  BY <1>1
<1>3. Cardinality(S) = 1 => \A a, b \in S : a = b
  <2>1. SUFFICES ASSUME Cardinality(S) = 1 PROVE \A a, b \in S : a = b
    BY Zenon
  <2>2. \E e : S = {e}
    BY <2>1, FS_Singleton
  <2> QED
    BY <2>2, Zenon
<1> QED
  BY <1>2, <1>3, Zenon

\* What a count of pointers says: none, one or more.
LEMMA CountIs ==
    ASSUME NEW f, NEW n
    PROVE  /\ Count(f, n) \in Nat
           /\ \A p \in Proc : f[p] = n => Count(f, n) >= 1
           /\ Count(f, n) = 1 => \A p, q \in Proc : f[p] = n /\ f[q] = n => p = q
<1> DEFINE S == {p \in Proc : f[p] = n}
<1>1. IsFiniteSet(S) /\ Cardinality(S) \in Nat /\ Count(f, n) = Cardinality(S)
  BY Finite, Zenon DEF Count
<1>2. /\ S # {} => Cardinality(S) >= 1
      /\ Cardinality(S) = 1 => \A a, b \in S : a = b
  BY <1>1, SomeOrOne, Zenon
<1> QED
  BY <1>1, <1>2, Zenon

\* The references: an inode in use has one, and the last one is the only one.
LEMMA RefCounted ==
    ASSUME RefInv, NEW n \in Inum, NEW p \in Proc
    PROVE  /\ n \in {cwd[p], file[p], dp[p], ip[p], PutHead[p], PutNext[p]} => ref[n] > 0
           /\ ref[n] = 1 /\ PutHead[p] = n =>
                /\ n \notin {cwd[p], file[p], dp[p], ip[p], PutNext[p]}
                /\ \A q \in Proc \ {p} :
                      n \notin {cwd[q], file[q], dp[q], ip[q], PutNext[q], PutHead[q]}
<1> DEFINE a == Count(cwd, n)
           b == Count(file, n)
           c == Count(dp, n)
           d == Count(ip, n)
           h == Count(PutHead, n)
           x == Count(PutNext, n)
<1>1. /\ ref[n] = a + b + c + d + h + x
      /\ a \in Nat /\ b \in Nat /\ c \in Nat /\ d \in Nat /\ h \in Nat /\ x \in Nat
  BY CountIs, Zenon DEF RefInv
<1>2. \A q \in Proc : /\ cwd[q] = n => a >= 1
                      /\ file[q] = n => b >= 1
                      /\ dp[q] = n => c >= 1
                      /\ ip[q] = n => d >= 1
                      /\ PutHead[q] = n => h >= 1
                      /\ PutNext[q] = n => x >= 1
  BY CountIs, Zenon
<1>3. h = 1 => \A q \in Proc : PutHead[p] = n /\ PutHead[q] = n => q = p
  BY CountIs, Zenon
<1> HIDE DEF a, b, c, d, h, x
<1>4. a >= 1 \/ b >= 1 \/ c >= 1 \/ d >= 1 \/ h >= 1 \/ x >= 1 => ref[n] > 0
  BY <1>1
<1>5. ref[n] = 1 /\ h >= 1 =>
        h = 1 /\ ~(a >= 1) /\ ~(b >= 1) /\ ~(c >= 1) /\ ~(d >= 1) /\ ~(x >= 1)
  BY <1>1
<1>6. n \in {cwd[p], file[p], dp[p], ip[p], PutHead[p], PutNext[p]} => ref[n] > 0
  BY <1>2, <1>4, Zenon
<1>7. ASSUME ref[n] = 1, PutHead[p] = n
      PROVE  /\ n \notin {cwd[p], file[p], dp[p], ip[p], PutNext[p]}
             /\ \A q \in Proc \ {p} :
                   n \notin {cwd[q], file[q], dp[q], ip[q], PutNext[q], PutHead[q]}
  <2>1. h = 1 /\ ~(a >= 1) /\ ~(b >= 1) /\ ~(c >= 1) /\ ~(d >= 1) /\ ~(x >= 1)
    BY <1>2, <1>5, <1>7, Zenon
  <2> QED
    BY <1>2, <1>3, <1>7, <2>1, Zenon
<1> QED
  BY <1>6, <1>7, Zenon

\* The links: the root has one, and so does an inode that is counted.
LEMMA LinkCounted ==
    ASSUME InodeTypes, LinkInv, NEW n \in Inum
    PROVE  /\ dinode[ROOTINO].nlink > 0
           /\ NamesOf(n) # {} \/ SubDirs(n) # {} \/ Counting(n) # {} => dinode[n].nlink > 0
<1>1. ASSUME NEW m \in Inum
      PROVE  /\ m = ROOTINO => dinode[m].nlink > 0
             /\ NamesOf(m) # {} \/ SubDirs(m) # {} \/ Counting(m) # {} => dinode[m].nlink > 0
  <2> DEFINE a == Cardinality(NamesOf(m))
             b == Cardinality(SubDirs(m))
             c == Cardinality(Counting(m))
             r == IF m = ROOTINO THEN 1 ELSE 0
  <2>1. a \in Nat /\ b \in Nat /\ c \in Nat /\ r \in Nat
    BY Finite, Zenon
  <2>2. dinode[m].nlink \in Nat
    BY Zenon DEF InodeTypes
  <2>3. dinode[m].nlink >= a + b + c + r
    BY Zenon DEF LinkInv
  <2>4. /\ NamesOf(m) # {} => a >= 1
        /\ SubDirs(m) # {} => b >= 1
        /\ Counting(m) # {} => c >= 1
        /\ m = ROOTINO => r = 1
    BY Finite, SomeOrOne, Zenon
  <2> HIDE DEF a, b, c, r
  <2>5. a >= 1 \/ b >= 1 \/ c >= 1 \/ r = 1 => dinode[m].nlink > 0
    BY <2>1, <2>2, <2>3
  <2> QED
    BY <2>4, <2>5, Zenon
<1> QED
  BY <1>1, Constants, Zenon

\* The invariant gives the facts that the steps use.
LEMMA InvIsCounted ==
    ASSUME DirInvariant
    PROVE  DirFacts /\ Counted
<1>1. DirFacts /\ RefInv /\ LinkInv /\ InodeTypes
  BY Zenon DEF DirInvariant, DirFacts
<1>2. ASSUME NEW n \in Inum, NEW p \in Proc, Uses(p, n) \/ PutHead[p] = n
      PROVE  ref[n] > 0
  BY <1>1, <1>2, RefCounted, Zenon DEF Uses
<1>3. ASSUME NEW n \in Inum, NEW p \in Proc, ref[n] = 1, PutHead[p] = n
      PROVE  /\ n \notin {cwd[p], file[p], dp[p], ip[p], PutNext[p]}
             /\ \A q \in Proc \ {p} : ~Uses(q, n) /\ PutHead[q] # n
  BY <1>1, <1>3, RefCounted, Zenon DEF Uses
<1>4. dinode[ROOTINO].nlink > 0
  BY <1>1, LinkCounted, Constants, Zenon
<1>5. \A n \in Inum : NamesOf(n) # {} \/ SubDirs(n) # {} \/ Counting(n) # {} =>
          dinode[n].nlink > 0
  BY <1>1, LinkCounted, Zenon
<1> QED
  BY <1>1, <1>2, <1>3, <1>4, <1>5, Zenon DEF Counted
\* How many processes point to n, when only the pointer of p moves.
Same(p, f, g) == \A q \in Proc \ {p} : g[q] = f[q]
Follows(p, f, g, n) ==
    \E a \in Nat, b \in Nat, u \in Nat, v \in Nat :
        /\ a = Count(f, n) /\ b = Count(g, n)
        /\ u = Is(f[p], n) /\ v = Is(g[p], n) /\ b + u = a + v

\* A count changes by what the moving process adds and takes.
LEMMA CountFollows ==
    ASSUME NEW p \in Proc, NEW f, NEW g, Same(p, f, g), NEW n
    PROVE  Follows(p, f, g, n)
<1> DEFINE S == {q \in Proc : f[q] = n}
           T == {q \in Proc : g[q] = n}
<1>1. IsFiniteSet(S) /\ T \ {p} = S \ {p}
  BY Finite, Zenon DEF Same
<1>2. /\ Count(f, n) = Cardinality(S) /\ Count(g, n) = Cardinality(T)
      /\ Has(p, S) = Is(f[p], n) /\ Has(p, T) = Is(g[p], n)
  BY Zenon DEF Count, Has, Is
<1> HIDE DEF S, T
<1>3. /\ Cardinality(S) \in Nat /\ Cardinality(T) \in Nat
      /\ Cardinality(T) + Has(p, S) = Cardinality(S) + Has(p, T)
  BY <1>1, OneMoves, Zenon
<1>4. Has(p, S) \in Nat /\ Has(p, T) \in Nat
  BY Zenon DEF Has
<1> QED
  BY <1>2, <1>3, <1>4, Zenon DEF Follows

\* ref after a step of p: the pointers of the others have not moved.
LEMMA RefInvStep ==
    ASSUME DirFacts, RefInv, NEW p \in Proc, Keeps(p)
    PROVE  RefInv'
<1>1. Guar(p) /\ RefFollows(p) /\ InodeTypes /\ InodeTypes'
  BY Zenon DEF Keeps, DirFacts
<1>2. /\ Same(p, cwd, cwd') /\ Same(p, file, file') /\ Same(p, dp, dp')
      /\ Same(p, ip, ip') /\ Same(p, PutHead, PutHead') /\ Same(p, PutNext, PutNext')
  BY <1>1, SamePuts, Zenon DEF Guar, Same
<1>3. SUFFICES ASSUME NEW n \in Inum
               PROVE  ref'[n] = Count(cwd', n) + Count(file', n) + Count(dp', n)
                        + Count(ip', n) + Count(PutHead', n) + Count(PutNext', n)
  BY Zenon DEF RefInv
<1>4. PICK a1 \in Nat, b1 \in Nat, u1 \in Nat, v1 \in Nat :
          /\ a1 = Count(cwd, n) /\ b1 = Count(cwd', n)
          /\ u1 = Is(cwd[p], n) /\ v1 = Is(cwd'[p], n) /\ b1 + u1 = a1 + v1
  <2>1. Follows(p, cwd, cwd', n)
    BY <1>2, CountFollows, Zenon
  <2> QED
    BY <2>1, Zenon DEF Follows
<1>5. PICK a2 \in Nat, b2 \in Nat, u2 \in Nat, v2 \in Nat :
          /\ a2 = Count(file, n) /\ b2 = Count(file', n)
          /\ u2 = Is(file[p], n) /\ v2 = Is(file'[p], n) /\ b2 + u2 = a2 + v2
  <2>1. Follows(p, file, file', n)
    BY <1>2, CountFollows, Zenon
  <2> QED
    BY <2>1, Zenon DEF Follows
<1>6. PICK a3 \in Nat, b3 \in Nat, u3 \in Nat, v3 \in Nat :
          /\ a3 = Count(dp, n) /\ b3 = Count(dp', n)
          /\ u3 = Is(dp[p], n) /\ v3 = Is(dp'[p], n) /\ b3 + u3 = a3 + v3
  <2>1. Follows(p, dp, dp', n)
    BY <1>2, CountFollows, Zenon
  <2> QED
    BY <2>1, Zenon DEF Follows
<1>7. PICK a4 \in Nat, b4 \in Nat, u4 \in Nat, v4 \in Nat :
          /\ a4 = Count(ip, n) /\ b4 = Count(ip', n)
          /\ u4 = Is(ip[p], n) /\ v4 = Is(ip'[p], n) /\ b4 + u4 = a4 + v4
  <2>1. Follows(p, ip, ip', n)
    BY <1>2, CountFollows, Zenon
  <2> QED
    BY <2>1, Zenon DEF Follows
<1>8. PICK a5 \in Nat, b5 \in Nat, u5 \in Nat, v5 \in Nat :
          /\ a5 = Count(PutHead, n) /\ b5 = Count(PutHead', n)
          /\ u5 = Is(PutHead[p], n) /\ v5 = Is(PutHead'[p], n) /\ b5 + u5 = a5 + v5
  <2>1. Follows(p, PutHead, PutHead', n)
    BY <1>2, CountFollows, Zenon
  <2> QED
    BY <2>1, Zenon DEF Follows
<1>9. PICK a6 \in Nat, b6 \in Nat, u6 \in Nat, v6 \in Nat :
          /\ a6 = Count(PutNext, n) /\ b6 = Count(PutNext', n)
          /\ u6 = Is(PutNext[p], n) /\ v6 = Is(PutNext'[p], n) /\ b6 + u6 = a6 + v6
  <2>1. Follows(p, PutNext, PutNext', n)
    BY <1>2, CountFollows, Zenon
  <2> QED
    BY <2>1, Zenon DEF Follows
<1>10. PICK r \in Nat, s \in Nat :
          /\ r = ref[n] /\ s = ref'[n] /\ r = a1 + a2 + a3 + a4 + a5 + a6
          /\ s + (u1 + u2 + u3 + u4 + u5 + u6) = r + (v1 + v2 + v3 + v4 + v5 + v6)
  <2>1. ref[n] \in Nat /\ ref'[n] \in Nat
    BY <1>1, Zenon DEF InodeTypes
  <2>2. ref[n] = a1 + a2 + a3 + a4 + a5 + a6
    BY <1>4, <1>5, <1>6, <1>7, <1>8, <1>9, Zenon DEF RefInv
  <2>3. ref'[n] + (u1 + u2 + u3 + u4 + u5 + u6) = ref[n] + (v1 + v2 + v3 + v4 + v5 + v6)
    BY <1>1, <1>4, <1>5, <1>6, <1>7, <1>8, <1>9, Zenon DEF RefFollows, Pts
  <2> QED
    BY <2>1, <2>2, <2>3, Zenon
<1>11. s = b1 + b2 + b3 + b4 + b5 + b6
  <2>1. /\ b1 + u1 = a1 + v1 /\ b2 + u2 = a2 + v2 /\ b3 + u3 = a3 + v3
        /\ b4 + u4 = a4 + v4 /\ b5 + u5 = a5 + v5 /\ b6 + u6 = a6 + v6
        /\ r = a1 + a2 + a3 + a4 + a5 + a6
        /\ s + (u1 + u2 + u3 + u4 + u5 + u6) = r + (v1 + v2 + v3 + v4 + v5 + v6)
    BY <1>4, <1>5, <1>6, <1>7, <1>8, <1>9, <1>10, Zenon
  <2> QED
    BY <2>1
<1> QED
  BY <1>4, <1>5, <1>6, <1>7, <1>8, <1>9, <1>10, <1>11, Zenon
\* nlink of n after a step of p, from what the step adds to the names, the
\* subdirectories and the counted links of n, and what it takes away.
LinkAt(n) ==
    dinode[n].nlink >= Cardinality(NamesOf(n)) + Cardinality(SubDirs(n))
                         + Cardinality(Counting(n)) + (IF n = ROOTINO THEN 1 ELSE 0)

LinkMoves(n, u, v, s, t, h, k) ==
    /\ Cardinality(NamesOf(n)') + u = Cardinality(NamesOf(n)) + v
    /\ Cardinality(SubDirs(n)') + s = Cardinality(SubDirs(n)) + t
    /\ Cardinality(Counting(n)') + h = Cardinality(Counting(n)) + k
    /\ dinode'[n].nlink + u + s + h >= dinode[n].nlink + v + t + k

\* nlink still covers the names if it moves with them.
LEMMA LinkFollows ==
    ASSUME InodeTypes, InodeTypes', LinkInv, NEW n \in Inum,
           NEW u \in Nat, NEW v \in Nat, NEW s \in Nat, NEW t \in Nat,
           NEW h \in Nat, NEW k \in Nat,
           LinkMoves(n, u, v, s, t, h, k)
    PROVE  LinkAt(n)'
<1>1. PICK a \in Nat, b \in Nat, c \in Nat, r \in Nat, l \in Nat :
        /\ a = Cardinality(NamesOf(n)) /\ b = Cardinality(SubDirs(n))
        /\ c = Cardinality(Counting(n)) /\ r = (IF n = ROOTINO THEN 1 ELSE 0)
        /\ l = dinode[n].nlink /\ l >= a + b + c + r
  <2>1. dinode[n].nlink \in Nat /\ (IF n = ROOTINO THEN 1 ELSE 0) \in Nat
    BY Zenon DEF InodeTypes
  <2> QED
    BY <2>1, Finite, Zenon DEF LinkInv
<1>2. PICK aa \in Nat, bb \in Nat, cc \in Nat, ll \in Nat :
        /\ aa = Cardinality(NamesOf(n)') /\ bb = Cardinality(SubDirs(n)')
        /\ cc = Cardinality(Counting(n)') /\ ll = dinode'[n].nlink
  <2>1. dinode'[n].nlink \in Nat
    BY Zenon DEF InodeTypes
  <2>2. /\ Cardinality(NamesOf(n)') \in Nat /\ Cardinality(SubDirs(n)') \in Nat
        /\ Cardinality(Counting(n)') \in Nat
    BY FiniteNext, Zenon
  <2> QED
    BY <2>1, <2>2, Zenon
<1>3. aa + u = a + v /\ bb + s = b + t /\ cc + h = c + k /\ ll + u + s + h >= l + v + t + k
  BY <1>1, <1>2, Zenon DEF LinkMoves
<1>4. ll >= aa + bb + cc + r
  BY <1>1, <1>3
<1> QED
  BY <1>1, <1>2, <1>4, Zenon DEF LinkAt

\* The links that are counted.
LEMMA CountingMoves ==
    ASSUME NEW p \in Proc, Guar(p), NEW n
    PROVE  /\ Has(p, Counting(n)) \in Nat /\ Has(p, Counting(n)') \in Nat
           /\ Cardinality(Counting(n)') + Has(p, Counting(n))
                = Cardinality(Counting(n)) + Has(p, Counting(n)')
<1>1. Counting(n)' \ {p} = Counting(n) \ {p}
  BY Zenon DEF Counting, Guar, Linking
<1>2. IsFiniteSet(Counting(n))
  BY Finite, Zenon
<1> QED
  BY <1>1, <1>2, OneMoves, Zenon DEF Has
\* The subdirectories, where the entries and the types stay.
LEMMA SubDirsStay ==
    ASSUME InodeTypes, NEW n \in Inum, NEW x \in Name,
           ents'[n][x] = ents[n][x], \A m \in Inum : dinode'[m].type = dinode[m].type
    PROVE  x \in SubDirs(n)' <=> x \in SubDirs(n)
<1>1. ents[n] \in [AllNames -> Inum \cup {None}] /\ x \in AllNames
  BY Zenon DEF InodeTypes, AllNames
<1>2. ents[n][x] \in Inum \cup {None}
  BY <1>1, Zenon
<1> QED
  BY <1>2, Zenon DEF SubDirs

\* nlink covers the names after a step that only moves link counts.
LEMMA RecountsLinks ==
    ASSUME InodeTypes, InodeTypes', LinkInv, NEW p \in Proc, Guar(p), Recounts(p),
           NEW n \in Inum
    PROVE  LinkAt(n)'
<1>1. /\ ents' = ents /\ \A m \in Inum : dinode'[m].type = dinode[m].type
      /\ dinode'[n].nlink + Has(p, Counting(n)) = dinode[n].nlink + Has(p, Counting(n)')
  BY Zenon DEF Recounts
<1>2. NamesOf(n)' = NamesOf(n)
  BY <1>1, Zenon DEF NamesOf
<1>3. SubDirs(n)' = SubDirs(n)
  <2>1. \A x \in Name : x \in SubDirs(n)' <=> x \in SubDirs(n)
    BY <1>1, SubDirsStay, Zenon
  <2> QED
    BY <2>1, Zenon DEF SubDirs
<1>4. PICK h \in Nat, k \in Nat :
        /\ h = Has(p, Counting(n)) /\ k = Has(p, Counting(n)')
        /\ Cardinality(Counting(n)') + h = Cardinality(Counting(n)) + k
  BY CountingMoves, Zenon
<1>5. dinode'[n].nlink + 0 + 0 + h >= dinode[n].nlink + 0 + 0 + k
  <2>1. PICK a \in Nat, b \in Nat : a = dinode[n].nlink /\ b = dinode'[n].nlink
    BY Zenon DEF InodeTypes
  <2> QED
    BY <1>1, <1>4, <2>1
<1>6. /\ 0 \in Nat /\ Cardinality(NamesOf(n)') + 0 = Cardinality(NamesOf(n)) + 0
      /\ Cardinality(SubDirs(n)') + 0 = Cardinality(SubDirs(n)) + 0
  BY <1>2, <1>3, Zenon
<1>7. LinkMoves(n, 0, 0, 0, 0, h, k)
  BY <1>4, <1>5, <1>6, Zenon DEF LinkMoves
<1> QED
  BY <1>6, <1>7, LinkFollows, Zenon

\* nlink covers the names after a step that writes one entry.
LEMMA ChangesLinks ==
    ASSUME InodeTypes, InodeTypes', LinkInv, NEW p \in Proc, Guar(p),
           NEW d, NEW x, Changes(p, d, x), NEW n \in Inum
    PROVE  LinkAt(n)'
<1>1. /\ d \in Inum /\ x \in Name
      /\ \A m \in Inum, y \in Name : m # d \/ y # x => ents'[m][y] = ents[m][y]
      /\ \A m \in Inum : dinode'[m].type = dinode[m].type
  BY Zenon DEF Changes
<1>2. dinode'[n].nlink + Is(ents[d][x], n) + Has(x, SubDirs(n)) + Has(p, Counting(n))
        = dinode[n].nlink + Is(ents'[d][x], n) + Has(x, SubDirs(n)') + Has(p, Counting(n)')
  BY Zenon DEF Changes
<1>3. PICK u \in Nat, v \in Nat :
        /\ u = Is(ents[d][x], n) /\ v = Is(ents'[d][x], n)
        /\ Cardinality(NamesOf(n)') + u = Cardinality(NamesOf(n)) + v
  <2>1. /\ <<d, x>> \in NamesOf(n) <=> ents[d][x] = n
        /\ <<d, x>> \in NamesOf(n)' <=> ents'[d][x] = n
        /\ \A e : e # <<d, x>> => (e \in NamesOf(n)' <=> e \in NamesOf(n))
    BY <1>1, NamesChange, Zenon
  <2>2. /\ Is(ents[d][x], n) = Has(<<d, x>>, NamesOf(n))
        /\ Is(ents'[d][x], n) = Has(<<d, x>>, NamesOf(n)')
        /\ Is(ents[d][x], n) \in Nat /\ Is(ents'[d][x], n) \in Nat
    BY <2>1, Zenon DEF Is, Has
  <2>3. NamesOf(n)' \ {<<d, x>>} = NamesOf(n) \ {<<d, x>>} /\ IsFiniteSet(NamesOf(n))
    BY <2>1, Finite, Zenon
  <2>4. Cardinality(NamesOf(n)') + Has(<<d, x>>, NamesOf(n))
          = Cardinality(NamesOf(n)) + Has(<<d, x>>, NamesOf(n)')
    BY <2>3, OneMoves, Zenon
  <2> QED
    BY <2>2, <2>4, Zenon
<1>4. PICK s \in Nat, t \in Nat :
        /\ s = Has(x, SubDirs(n)) /\ t = Has(x, SubDirs(n)')
        /\ Cardinality(SubDirs(n)') + s = Cardinality(SubDirs(n)) + t
  <2>1. \A y \in Name \ {x} : y \in SubDirs(n)' <=> y \in SubDirs(n)
    BY <1>1, SubDirsStay, Zenon
  <2>2. SubDirs(n) \subseteq Name /\ SubDirs(n)' \subseteq Name
    BY Zenon DEF SubDirs
  <2>3. SubDirs(n)' \ {x} = SubDirs(n) \ {x} /\ IsFiniteSet(SubDirs(n))
    BY <2>1, <2>2, Finite, Zenon
  <2> QED
    <3>1. Has(x, SubDirs(n)) \in Nat /\ Has(x, SubDirs(n)') \in Nat
      BY Zenon DEF Has
    <3>2. Cardinality(SubDirs(n)') + Has(x, SubDirs(n))
            = Cardinality(SubDirs(n)) + Has(x, SubDirs(n)')
      BY <2>3, OneMoves, Zenon
    <3> QED
      BY <3>1, <3>2, Zenon
<1>5. PICK h \in Nat, k \in Nat :
        /\ h = Has(p, Counting(n)) /\ k = Has(p, Counting(n)')
        /\ Cardinality(Counting(n)') + h = Cardinality(Counting(n)) + k
  BY CountingMoves, Zenon
<1>6. dinode'[n].nlink + u + s + h >= dinode[n].nlink + v + t + k
  <2>1. dinode[n].nlink \in Nat /\ dinode'[n].nlink \in Nat
    BY Zenon DEF InodeTypes
  <2>2. PICK a \in Nat, b \in Nat : a = dinode[n].nlink /\ b = dinode'[n].nlink
    BY <2>1, Zenon
  <2>3. b + u + s + h = a + v + t + k
    BY <1>2, <1>3, <1>4, <1>5, <2>2, Zenon
  <2>4. b + u + s + h >= a + v + t + k
    BY <2>3
  <2> QED
    BY <2>2, <2>4, Zenon
<1>7. LinkMoves(n, u, v, s, t, h, k)
  BY <1>3, <1>4, <1>5, <1>6, Zenon DEF LinkMoves
<1> QED
  BY <1>7, LinkFollows, Zenon
\* A step that changes no link count and gives no name.
LEMMA FewerLinks ==
    ASSUME InodeTypes, InodeTypes', LinkInv, NEW p \in Proc, Guar(p), NEW n \in Inum,
           NamesOf(n)' \subseteq NamesOf(n), SubDirs(n)' \subseteq SubDirs(n),
           Has(p, Counting(n)') = Has(p, Counting(n)), dinode'[n].nlink = dinode[n].nlink
    PROVE  LinkAt(n)'
<1>1. /\ Cardinality(NamesOf(n)') <= Cardinality(NamesOf(n))
      /\ Cardinality(SubDirs(n)') <= Cardinality(SubDirs(n))
  BY Finite, FS_Subset, Zenon
<1>2. PICK a \in Nat, b \in Nat, aa \in Nat, bb \in Nat :
        /\ a = Cardinality(NamesOf(n)) /\ aa = Cardinality(NamesOf(n)')
        /\ b = Cardinality(SubDirs(n)) /\ bb = Cardinality(SubDirs(n)')
  BY Finite, FiniteNext, Zenon
<1>3. aa <= a /\ bb <= b
  BY <1>1, <1>2, Zenon
<1>4. PICK u \in Nat, s \in Nat : aa + u = a + 0 /\ bb + s = b + 0
  <2>1. a - aa \in Nat /\ b - bb \in Nat /\ aa + (a - aa) = a + 0 /\ bb + (b - bb) = b + 0
    BY <1>3
  <2> QED
    BY <2>1, Zenon
<1>5. PICK h \in Nat : Cardinality(Counting(n)') + h = Cardinality(Counting(n)) + h
  BY CountingMoves, Zenon
<1>6. PICK l \in Nat : l = dinode[n].nlink /\ l = dinode'[n].nlink
  BY Zenon DEF InodeTypes
<1>7. l + u + s + h >= l + 0 + 0 + h
  BY <1>4, <1>5, <1>6
<1>8. 0 \in Nat /\ LinkMoves(n, u, 0, s, 0, h, h)
  BY <1>2, <1>4, <1>5, <1>6, <1>7, Zenon DEF LinkMoves
<1> QED
  BY <1>8, LinkFollows, Zenon

\* nlink covers the names after an inode was freed.
LEMMA FreedLinks ==
    ASSUME InodeTypes, InodeTypes', LinkInv, NEW p \in Proc, Guar(p),
           NEW m, Freed(p, m), NEW n \in Inum
    PROVE  LinkAt(n)'
<1>1. /\ m \in Inum /\ UNCHANGED <<pc, ip>>
      /\ dinode' = [dinode EXCEPT ![m].type = "none"]
      /\ ents' = [ents EXCEPT ![m] = [x \in AllNames |-> None]]
  BY Zenon DEF Freed
<1>2. dinode[m] \in [type : Types, nlink : Nat]
  BY <1>1, Zenon DEF InodeTypes
<1>3. /\ \A d \in Inum : d # m => dinode'[d] = dinode[d] /\ ents'[d] = ents[d]
      /\ ents'[m] = [x \in AllNames |-> None]
  BY <1>1, Zenon DEF InodeTypes
<1>4. dinode'[m].type = "none" /\ dinode'[m].nlink = dinode[m].nlink
  BY <1>1, <1>2, Zenon DEF InodeTypes
<1>5. dinode'[n].nlink = dinode[n].nlink /\ Has(p, Counting(n)') = Has(p, Counting(n))
  BY <1>1, <1>3, <1>4, Zenon DEF Has, Counting, Linking
<1>6. \A d \in Inum, x \in Name : ents'[d][x] # None => d # m /\ ents'[d][x] = ents[d][x]
  <2>1. \A x \in Name : ents'[m][x] = None
    BY <1>3, Zenon DEF AllNames
  <2> QED
    BY <1>3, <2>1, Zenon
<1>7. NamesOf(n)' \subseteq NamesOf(n)
  <2>1. ASSUME NEW e \in NamesOf(n)' PROVE e \in NamesOf(n)
    <3>1. e \in Inum \X Name /\ ents'[e[1]][e[2]] = n
      BY <2>1, Zenon DEF NamesOf
    <3>2. e[1] \in Inum /\ e[2] \in Name
      BY <3>1, Zenon
    <3> QED
      BY <1>6, <3>1, <3>2, Constants, Zenon DEF NamesOf
  <2> QED
    BY <2>1, Zenon
<1>8. SubDirs(n)' \subseteq SubDirs(n)
  <2>1. ASSUME NEW x \in SubDirs(n)' PROVE x \in SubDirs(n)
    <3>1. x \in Name /\ ents'[n][x] # None /\ dinode'[ents'[n][x]].type = "T_DIR"
      BY <2>1, Zenon DEF SubDirs
    <3>2. ents'[n][x] = ents[n][x] /\ x \in AllNames
      BY <1>6, <3>1, Zenon DEF AllNames
    <3>3. ents[n] \in [AllNames -> Inum \cup {None}]
      BY Zenon DEF InodeTypes
    <3>4. ents[n][x] \in Inum
      BY <3>1, <3>2, <3>3, Zenon
    <3>5. ents[n][x] # m
      BY <1>4, <3>1, <3>2, Zenon
    <3> QED
      BY <1>3, <3>1, <3>2, <3>4, <3>5, Zenon DEF SubDirs
  <2> QED
    BY <2>1, Zenon
<1> QED
  BY <1>5, <1>7, <1>8, FewerLinks, Zenon

\* nlink covers the names after an inode was allocated.
LEMMA AllocsLinks ==
    ASSUME InodeTypes, InodeTypes', TreeInv, Counted, LinkInv, NEW p \in Proc, Guar(p),
           NEW i, Allocs(p, i), NEW n \in Inum
    PROVE  LinkAt(n)'
<1>1. /\ i \in Inum /\ pc[p] = "create" /\ dinode[i].type = "none"
      /\ ents' = ents /\ pc'[p] = "init" /\ ip'[p] = i
  BY Zenon DEF Allocs
<1>2. PICK t \in Types \ {"none"} : dinode' = [dinode EXCEPT ![i] = [type |-> t, nlink |-> 0]]
  BY Zenon DEF Allocs
<1>3. /\ \A m \in Inum : m # i => dinode'[m] = dinode[m]
      /\ dinode'[i] = [type |-> t, nlink |-> 0]
  BY <1>1, <1>2, Zenon DEF InodeTypes
<1>4. dinode[i].nlink = 0 /\ dinode'[i].nlink = 0
  <2>1. dinode[i].nlink = 0
    BY <1>1, Zenon DEF TreeInv
  <2> QED
    BY <1>3, <2>1
<1>5. NamesOf(i) = {}
  <2>1. ~(dinode[i].nlink > 0)
    BY <1>4
  <2> QED
    BY <1>1, <2>1, Zenon DEF Counted
<1>6. dinode'[n].nlink = dinode[n].nlink /\ Has(p, Counting(n)') = Has(p, Counting(n))
  BY <1>1, <1>3, <1>4, Zenon DEF Has, Counting, Linking, LinksAt
<1>7. NamesOf(n)' \subseteq NamesOf(n)
  BY <1>1, Zenon DEF NamesOf
<1>8. SubDirs(n)' \subseteq SubDirs(n)
  <2>1. ASSUME NEW x \in SubDirs(n)' PROVE x \in SubDirs(n)
    <3>1. x \in Name /\ ents[n][x] # None /\ dinode'[ents[n][x]].type = "T_DIR" /\ x \in AllNames
      BY <1>1, <2>1, Zenon DEF SubDirs, AllNames
    <3>2. ents[n] \in [AllNames -> Inum \cup {None}]
      BY Zenon DEF InodeTypes
    <3>3. ents[n][x] \in Inum
      BY <3>1, <3>2, Zenon
    <3>4. ents[n][x] # i
      <4>1. <<n, x>> \in Inum \X Name /\ <<n, x>>[1] = n /\ <<n, x>>[2] = x
        BY <3>1, Zenon
      <4> QED
        BY <1>5, <4>1 DEF NamesOf
    <3> QED
      BY <1>3, <3>1, <3>3, <3>4, Zenon DEF SubDirs
  <2> QED
    BY <2>1, Zenon
<1> QED
  BY <1>6, <1>7, <1>8, FewerLinks, Zenon

\* nlink covers the names after every step.
LEMMA LinkInvStep ==
    ASSUME DirFacts, Counted, LinkInv, NEW p \in Proc, Keeps(p), Effect(p)
    PROVE  LinkInv'
<1>1. InodeTypes /\ InodeTypes' /\ Guar(p) /\ TreeInv
  BY Zenon DEF DirFacts, Keeps
<1>2. \A n \in Inum : LinkAt(n)'
  BY <1>1, RecountsLinks, ChangesLinks, FreedLinks, AllocsLinks, Zenon DEF Effect
<1> QED
  BY <1>2, Zenon DEF LinkInv, LinkAt
-----------------------------------------------------------------------------
(* The invariant.                                                          *)

\* mkfs leaves the root directory, and nobody has counted anything.
LEMMA InitFacts ==
    ASSUME Init
    PROVE  DirFacts
<1>1. /\ dinode = [n \in Inum |-> IF n = ROOTINO THEN [type |-> "T_DIR", nlink |-> 1]
                                  ELSE [type |-> "none", nlink |-> 0]]
      /\ copy = dinode /\ ref = [n \in Inum |-> IF n = ROOTINO THEN Cardinality(Proc) ELSE 0]
      /\ ents = [n \in Inum |-> [x \in AllNames |->
                    IF n = ROOTINO /\ x \notin Name THEN ROOTINO ELSE None]]
      /\ valid = {} /\ lock = [n \in Inum |-> NoProc]
  BY Zenon DEF Init
<1>2. /\ cwd = [p \in Proc |-> ROOTINO] /\ file = [p \in Proc |-> None]
      /\ call = [p \in Proc |-> NoCall] /\ pc = [p \in Proc |-> "idle"]
      /\ rest = [p \in Proc |-> << >>] /\ dp = [p \in Proc |-> None]
      /\ ip = [p \in Proc |-> None] /\ puts = [p \in Proc |-> << >>]
      /\ put = [p \in Proc |-> "check"]
  BY Zenon DEF Init
<1>3. ROOTINO \in Inum /\ None \notin Inum
  BY Constants, Zenon
<1>4. InodeTypes
  <2>1. dinode \in [Inum -> [type : Types, nlink : Nat]]
    BY <1>1 DEF Types
  <2>2. ents \in [Inum -> [AllNames -> Inum \cup {None}]]
    BY <1>1, <1>3, Zenon
  <2>3. Cardinality(Proc) \in Nat
    BY DirAssumption, FS_CardinalityType, Zenon
  <2>4. ref \in [Inum -> Nat] /\ lock \in [Inum -> Proc \cup {NoProc}]
    BY <1>1, <2>3, Zenon
  <2> QED
    BY <1>1, <2>1, <2>2, <2>4, Zenon DEF InodeTypes
<1>5. LocalTypes
  <2>1. \A p \in Proc : Len(puts[p]) <= 2
    BY <1>2
  <2>2. puts \in [Proc -> Seq(Inum)] /\ rest \in [Proc -> Seq(Elem)]
    BY <1>2
  <2>3. /\ call \in [Proc -> Calls \cup {NoCall}] /\ pc \in [Proc -> PCs]
        /\ dp \in [Proc -> Inum \cup {None}] /\ ip \in [Proc -> Inum \cup {None}]
        /\ put \in [Proc -> {"check", "free", "drop"}]
    BY <1>2, Zenon DEF PCs
  <2> QED
    BY <2>1, <2>2, <2>3, Zenon DEF LocalTypes
<1>6. FileTypes
  BY <1>2, <1>3, Zenon DEF FileTypes
<1>7. \A p \in Proc : /\ cwd[p] = ROOTINO /\ file[p] = None /\ dp[p] = None /\ ip[p] = None
                      /\ puts[p] = << >> /\ put[p] = "check" /\ pc[p] = "idle"
                      /\ rest[p] = << >> /\ call[p] = NoCall
  BY <1>2, Zenon
<1>8. \A p \in Proc : PutHead[p] = None /\ PutNext[p] = None
  BY <1>7 DEF PutHead, PutNext
<1>9. /\ dinode[ROOTINO].type = "T_DIR"
      /\ \A n \in Inum : n # ROOTINO => dinode[n] = [type |-> "none", nlink |-> 0]
  BY <1>1, <1>3, Zenon
<1>10. /\ \A n \in Inum, x \in Name : ents[n][x] = None
       /\ ents[ROOTINO]["."] = ROOTINO
       /\ \A n \in Inum : n # ROOTINO => ents[n] = [x \in AllNames |-> None]
  BY <1>1, <1>3, Constants, Zenon DEF AllNames
<1>11. ASSUME NEW p \in Proc PROVE Locals(p) /\ Knows(p) /\ FreshInv(p) /\ FreeInv(p)
  <2>1. Locals(p)
    BY <1>7 DEF Locals, Shape, NoCall, DpPCs, IpPCs, NamePCs
  <2>2. \A n \in Inum : Uses(p, n) => n = ROOTINO
    BY <1>3, <1>7, <1>8, Zenon DEF Uses
  <2>3. Knows(p)
    BY <1>7, <1>9, <2>2 DEF Knows, DpPCs, Linking, LinksAt
  <2>4. FreshInv(p) /\ FreeInv(p)
    BY <1>7, Zenon DEF FreshInv, FreeInv
  <2> QED
    BY <2>1, <2>3, <2>4, Zenon
<1>12. CacheInv
  BY <1>1, Zenon DEF CacheInv
<1>13. TreeInv
  <2>1. ASSUME NEW n \in Inum, n # ROOTINO
        PROVE  /\ dinode[n].nlink = 0 /\ dinode[n].type = "none" /\ ents[n]["."] = None
               /\ ents[n] = [x \in AllNames |-> None]
    BY <1>9, <1>10, <2>1 DEF AllNames
  <2> QED
    BY <1>3, <1>9, <1>10, <2>1 DEF TreeInv
<1>14. DotDotIsParent
  <2>1. \A n \in Inum, e \in Inum \X Name : ents[e[1]][e[2]] # n
    BY <1>3, <1>10
  <2> QED
    BY <2>1, Zenon DEF DotDotIsParent, NamesOf
<1> QED
  BY <1>4, <1>5, <1>6, <1>11, <1>12, <1>13, <1>14, Zenon DEF DirFacts

\* The counts hold of the empty file system of mkfs with the root as every cwd.
LEMMA InitCounts ==
    ASSUME Init
    PROVE  RefInv /\ LinkInv
<1>1. \A p \in Proc : /\ cwd[p] = ROOTINO /\ file[p] = None /\ dp[p] = None /\ ip[p] = None
                      /\ puts[p] = << >>
  BY Zenon DEF Init
<1>2. \A p \in Proc : PutHead[p] = None /\ PutNext[p] = None
  BY <1>1 DEF PutHead, PutNext
<1>3. ROOTINO \in Inum /\ None \notin Inum /\ Cardinality(Proc) \in Nat /\ Cardinality({}) = 0
  BY Constants, DirAssumption, FS_CardinalityType, FS_EmptySet, Zenon
<1>4. ASSUME NEW n \in Inum
      PROVE  ref[n] = Count(cwd, n) + Count(file, n) + Count(dp, n)
                        + Count(ip, n) + Count(PutHead, n) + Count(PutNext, n)
  <2>1. /\ {p \in Proc : file[p] = n} = {} /\ {p \in Proc : dp[p] = n} = {}
        /\ {p \in Proc : ip[p] = n} = {}
    BY <1>1, <1>3, Zenon
  <2>2. {p \in Proc : PutHead[p] = n} = {} /\ {p \in Proc : PutNext[p] = n} = {}
    BY <1>2, <1>3, Zenon
  <2>3. /\ Count(file, n) = 0 /\ Count(dp, n) = 0 /\ Count(ip, n) = 0
        /\ Count(PutHead, n) = 0 /\ Count(PutNext, n) = 0
    BY <1>3, <2>1, <2>2, Zenon DEF Count
  <2>4. {p \in Proc : cwd[p] = n} = IF n = ROOTINO THEN Proc ELSE {}
    BY <1>1, Zenon
  <2>5. Count(cwd, n) = IF n = ROOTINO THEN Cardinality(Proc) ELSE 0
    BY <1>3, <2>4, Zenon DEF Count
  <2>6. ref[n] = Count(cwd, n) /\ ref[n] \in Nat
    BY <1>3, <2>5, Zenon DEF Init
  <2> QED
    BY <2>3, <2>6
<1>5. ASSUME NEW n \in Inum PROVE LinkAt(n)
  <2>1. \A m \in Inum, x \in Name : ents[m][x] = None
    BY Zenon DEF Init, AllNames
  <2>2. \A e \in Inum \X Name : e[1] \in Inum /\ e[2] \in Name
    BY Zenon
  <2>3. NamesOf(n) = {} /\ SubDirs(n) = {}
    BY <1>3, <2>1, <2>2, Zenon DEF NamesOf, SubDirs
  <2>4. Counting(n) = {}
    BY <1>1, <1>3, Zenon DEF Counting
  <2>5. dinode[n].nlink = IF n = ROOTINO THEN 1 ELSE 0
    BY DEF Init
  <2>6. dinode[n].nlink >= 0 + 0 + 0 + (IF n = ROOTINO THEN 1 ELSE 0)
    BY <2>5
  <2> QED
    BY <1>3, <2>3, <2>4, <2>6, Zenon DEF LinkAt
<1> QED
  BY <1>4, <1>5, Zenon DEF RefInv, LinkInv, LinkAt
\* Nothing changes.
LEMMA Stutters ==
    ASSUME DirInvariant, UNCHANGED vars
    PROVE  DirInvariant'
<1>1. /\ dinode' = dinode /\ ents' = ents /\ ref' = ref /\ valid' = valid /\ copy' = copy
      /\ lock' = lock /\ cwd' = cwd /\ file' = file /\ call' = call /\ pc' = pc
      /\ rest' = rest /\ dp' = dp /\ ip' = ip /\ puts' = puts /\ put' = put
  BY Zenon DEF vars, inodes, locals
<1>2. PutHead' = PutHead /\ PutNext' = PutNext
  BY <1>1, Zenon DEF PutHead, PutNext
<1>3. InodeTypes' /\ LocalTypes' /\ FileTypes' /\ CacheInv'
  <2>1. InodeTypes /\ LocalTypes /\ FileTypes /\ CacheInv
    BY Zenon DEF DirInvariant, DirFacts
  <2>2. InodeTypes'
    BY <1>1, <2>1, Zenon DEF InodeTypes
  <2>3. LocalTypes'
    BY <1>1, <2>1, Zenon DEF LocalTypes
  <2>4. FileTypes' /\ CacheInv'
    BY <1>1, <2>1, Zenon DEF FileTypes, CacheInv
  <2> QED
    BY <2>2, <2>3, <2>4, Zenon
<1>4. TreeInv' /\ DotDotIsParent'
  <2>1. TreeInv /\ DotDotIsParent
    BY Zenon DEF DirInvariant, DirFacts
  <2>2. \A p, n : IsFresh(p, n)' <=> IsFresh(p, n)
    BY <1>1, Zenon DEF IsFresh
  <2>3. \A n : NamesOf(n)' = NamesOf(n)
    BY <1>1, Zenon DEF NamesOf
  <2>4. TreeInv'
    BY <1>1, <2>1, <2>2, Zenon DEF TreeInv
  <2>5. DotDotIsParent'
    BY <1>1, <2>1, <2>3, Zenon DEF DotDotIsParent
  <2> QED
    BY <2>4, <2>5, Zenon
<1>5. ASSUME NEW p \in Proc PROVE Locals(p)' /\ Knows(p)' /\ FreshInv(p)' /\ FreeInv(p)'
  <2>1. Locals(p) /\ Knows(p) /\ FreshInv(p) /\ FreeInv(p)
    BY Zenon DEF DirInvariant, DirFacts
  <2>2. \A q, n : Uses(q, n)' <=> Uses(q, n)
    BY <1>1, <1>2, Zenon DEF Uses
  <2>3. Locals(p)' /\ FreeInv(p)'
    BY <1>1, <1>2, <2>1, Zenon DEF Locals, FreeInv
  <2>4. Knows(p)'
    BY <1>1, <2>1, <2>2, Zenon DEF Knows, Linking
  <2>5. CreateType(p)' = CreateType(p)
    BY <1>1, Zenon DEF CreateType
  <2>6. FreshInv(p)'
    BY <1>1, <2>1, <2>2, <2>5, Zenon DEF FreshInv
  <2> QED
    BY <2>3, <2>4, <2>6, Zenon
<1>6. RefInv'
  BY <1>1, <1>2, Zenon DEF DirInvariant, RefInv
<1>7. LinkInv'
  BY <1>1, Zenon DEF DirInvariant, LinkInv, NamesOf, SubDirs, Counting, Linking
<1> QED
  BY <1>3, <1>4, <1>5, <1>6, <1>7, Zenon DEF DirInvariant, DirFacts

\* ref counts the pointers to an inode, nlink at least its names and the links
\* that are being made or undone, and what each system call knows of the inodes
\* it has in hand stays true, whatever the others do.
THEOREM DirInvariance == Spec => []DirInvariant
<1>1. Init => DirInvariant
  BY InitFacts, InitCounts, Zenon DEF DirInvariant
<1>2. ASSUME DirInvariant, [Next]_vars PROVE DirInvariant'
  <2>1. DirFacts /\ Counted /\ RefInv /\ LinkInv
    BY <1>2, InvIsCounted, Zenon DEF DirInvariant
  <2>2. CASE Next
    <3>1. PICK p \in Proc : Keeps(p) /\ Effect(p)
      BY <2>1, <2>2, StepEffect, Zenon DEF Next
    <3> QED
      BY <2>1, <3>1, FactsStep, RefInvStep, LinkInvStep, Zenon DEF DirInvariant
  <2>3. CASE UNCHANGED vars
    BY <1>2, <2>3, Stutters, Zenon
  <2> QED
    BY <1>2, <2>2, <2>3, Zenon
<1> QED
  BY <1>1, <1>2, PTL DEF Spec

\* CacheIsCurrent: a valid cache entry of an inode in use says what the disk
\* says (ilock(), iupdate() and the two ends of iput()).
THEOREM CacheCurrent == Spec => []CacheIsCurrent
<1>1. DirInvariant => CacheIsCurrent
  BY Zenon DEF DirInvariant, DirFacts, CacheInv, CacheIsCurrent
<1> QED
  BY <1>1, DirInvariance, PTL

\* DotDotIsParent: a directory has at most one name, and its ".." is the
\* directory that the name is in (create(), link() and unlink()).
THEOREM DotDot == Spec => []DotDotIsParent
<1>1. DirInvariant => DotDotIsParent
  BY Zenon DEF DirInvariant, DirFacts
<1> QED
  BY <1>1, DirInvariance, PTL

\* NamedIsAllocated: an inode with a name is allocated, and nlink is at least
\* the number of its names: iput() frees no inode that a directory names.
THEOREM NamedAllocated == Spec => []NamedIsAllocated
<1>1. ASSUME DirInvariant PROVE NamedIsAllocated
  <2>1. DirFacts /\ Counted /\ LinkInv /\ InodeTypes /\ LocalTypes /\ FileTypes
    BY <1>1, InvIsCounted, Zenon DEF DirInvariant, DirFacts
  <2>2. TypeOK
    BY <2>1, Zenon DEF TypeOK, InodeTypes, LocalTypes, FileTypes
  <2>3. ASSUME NEW n \in Inum, NamesOf(n) # {}
        PROVE  dinode[n].type # "none" /\ dinode[n].nlink >= Cardinality(NamesOf(n))
    <3>1. dinode[n].type # "none"
      BY <2>1, <2>3, LinkedIsLive, Zenon DEF Counted, Live
    <3>2. PICK a \in Nat, b \in Nat, c \in Nat, r \in Nat, l \in Nat :
            /\ a = Cardinality(NamesOf(n)) /\ b = Cardinality(SubDirs(n))
            /\ c = Cardinality(Counting(n)) /\ r = (IF n = ROOTINO THEN 1 ELSE 0)
            /\ l = dinode[n].nlink /\ l >= a + b + c + r
      <4>1. dinode[n].nlink \in Nat /\ (IF n = ROOTINO THEN 1 ELSE 0) \in Nat
        BY <2>1, Zenon DEF InodeTypes
      <4> QED
        BY <2>1, <4>1, Finite, Zenon DEF LinkInv
    <3>3. l >= a
      BY <3>2
    <3> QED
      BY <3>1, <3>2, <3>3, Zenon
  <2> QED
    BY <2>2, <2>3, Zenon DEF NamedIsAllocated
<1> QED
  BY <1>1, DirInvariance, PTL
-----------------------------------------------------------------------------
(* The pointers to an inode.                                               *)

\* As many pairs as processes.
LEMMA Tagged ==
    ASSUME NEW t, NEW S \in SUBSET Proc
    PROVE  LET T == {<<t, p>> : p \in S}
           IN  IsFiniteSet(T) /\ Cardinality(T) = Cardinality(S)
<1> DEFINE T == {<<t, p>> : p \in S}
           f == [p \in S |-> <<t, p>>]
<1>1. f \in [S -> T] /\ \A a, b \in S : f[a] = f[b] => a = b
  BY Zenon
<1>2. \A u \in T : \E s \in S : f[s] = u
  BY Zenon
<1>3. f \in Bijection(S, T)
  <2>1. DOMAIN f = S
    BY Zenon
  <2> HIDE DEF f, T
  <2> QED
    BY <1>1, <1>2, <2>1, Zenon DEF Bijection, Injection, Surjection, IsInjective
<1> HIDE DEF f, T
<1>4. ExistsBijection(S, T)
  BY <1>3, Zenon DEF ExistsBijection
<1>5. IsFiniteSet(S)
  BY Finite, Zenon
<1>6. IsFiniteSet(T) /\ Cardinality(T) = Cardinality(S)
  BY <1>4, <1>5, FS_Bijection, Zenon
<1> QED
  BY <1>6, Zenon DEF T

\* The union of two sets that have nothing in common.
LEMMA Apart ==
    ASSUME NEW S, NEW T, IsFiniteSet(S), IsFiniteSet(T), S \cap T = {}
    PROVE  IsFiniteSet(S \cup T) /\ Cardinality(S \cup T) = Cardinality(S) + Cardinality(T)
<1>1. /\ IsFiniteSet(S \cup T) /\ Cardinality(S) \in Nat /\ Cardinality(T) \in Nat
      /\ Cardinality(S \cup T) = Cardinality(S) + Cardinality(T) - Cardinality(S \cap T)
  BY FS_Union, FS_CardinalityType, Zenon
<1>2. Cardinality(S \cap T) = 0
  BY FS_EmptySet, Zenon
<1> QED
  BY <1>1, <1>2

\* The processes whose pointer f is n, with a tag.
Refs(t, f, n) == {<<t, p>> : p \in {q \in Proc : f[q] = n}}

\* Finitely many pairs, c of them, with tags in T.
Tags(S, T, c) == IsFiniteSet(S) /\ Cardinality(S) = c /\ \A x \in S : x[1] \in T

\* The pointers of one kind to an inode, and their number.
LEMMA RefsAre ==
    ASSUME NEW t, NEW f, NEW n
    PROVE  /\ Tags(Refs(t, f, n), {t}, Count(f, n))
           /\ \A x \in Refs(t, f, n) : x[1] = t /\ x[2] \in Proc /\ f[x[2]] = n
<1>1. IsFiniteSet(Refs(t, f, n)) /\ Cardinality(Refs(t, f, n)) = Count(f, n)
  BY Tagged, Zenon DEF Refs, Count
<1>2. \A x \in Refs(t, f, n) : x[1] = t /\ x[2] \in Proc /\ f[x[2]] = n
  BY DEF Refs
<1> QED
  BY <1>1, <1>2, Zenon DEF Tags

\* Pointers of different kinds add up.
LEMMA TagsAdd ==
    ASSUME NEW S, NEW T, NEW c, Tags(S, T, c), NEW R, NEW t, NEW k, Tags(R, {t}, k), t \notin T
    PROVE  Tags(S \cup R, T \cup {t}, c + k)
<1>1. S \cap R = {} /\ \A x \in S \cup R : x[1] \in T \cup {t}
  BY Zenon DEF Tags
<1> QED
  BY <1>1, Apart, Zenon DEF Tags

\* The pointers to an inode are those in cwd, files, locals and pending iput()s.
LEMMA PointersAre ==
    ASSUME LocalTypes, NEW n \in Inum
    PROVE  Pointers(n) = Refs("cwd", cwd, n) \cup Refs("file", file, n) \cup Refs("dp", dp, n)
                           \cup Refs("ip", ip, n) \cup Refs("put", PutHead, n)
                           \cup Refs("next", PutNext, n)
<1>1. ASSUME NEW q \in Proc
      PROVE  /\ PutHead[q] = n <=> puts[q] # << >> /\ Head(puts[q]) = n
             /\ PutNext[q] = n <=> Len(puts[q]) = 2 /\ puts[q][2] = n
  <2>1. puts[q] \in Seq(Inum) /\ Len(puts[q]) <= 2
    BY Zenon DEF LocalTypes
  <2>2. puts[q] # << >> => Head(puts[q]) = puts[q][1]
    BY <2>1, OneOrTwo, Zenon
  <2> QED
    BY <2>2, Constants, Zenon DEF PutHead, PutNext
<1>2. /\ {q \in Proc : PutHead[q] = n} = {q \in Proc : puts[q] # << >> /\ Head(puts[q]) = n}
      /\ {q \in Proc : PutNext[q] = n} = {q \in Proc : Len(puts[q]) = 2 /\ puts[q][2] = n}
  BY <1>1, Zenon
<1> QED
  BY <1>2, Zenon DEF Pointers, Refs

\* HeldIsAllocated: ref counts exactly the pointers to an inode, and an inode
\* that a process points to is allocated, but for the one that its own iput()
\* has just freed.
THEOREM HeldAllocated == Spec => []HeldIsAllocated
<1>1. ASSUME DirInvariant PROVE HeldIsAllocated
  <2>1. /\ DirFacts /\ RefInv /\ InodeTypes /\ LocalTypes /\ FileTypes
        /\ \A p \in Proc : Knows(p)
    BY <1>1, Zenon DEF DirInvariant, DirFacts
  <2>2. ASSUME NEW n \in Inum PROVE ref[n] = Cardinality(Pointers(n))
    <3> DEFINE A == Refs("cwd", cwd, n) \cup Refs("file", file, n)
               B == A \cup Refs("dp", dp, n)
               C == B \cup Refs("ip", ip, n)
               D == C \cup Refs("put", PutHead, n)
               E == D \cup Refs("next", PutNext, n)
               a == Count(cwd, n) + Count(file, n)
               b == a + Count(dp, n)
               c == b + Count(ip, n)
               d == c + Count(PutHead, n)
               T == {"cwd"} \cup {"file"}
               U == T \cup {"dp"}
               V == U \cup {"ip"}
               W == V \cup {"put"}
    <3>1. /\ "file" \notin {"cwd"} /\ "dp" \notin T /\ "ip" \notin U
          /\ "put" \notin V /\ "next" \notin W
      BY Zenon
    <3>2. Pointers(n) = E
      BY <2>1, PointersAre, Zenon
    <3>3. ref[n] = d + Count(PutNext, n)
      BY <2>1, Zenon DEF RefInv
    <3>4. Tags(A, T, a)
      BY <3>1, RefsAre, TagsAdd, Zenon
    <3> HIDE DEF A, T, a
    <3>5. Tags(B, U, b)
      BY <3>1, <3>4, RefsAre, TagsAdd, Zenon
    <3> HIDE DEF B, U, b
    <3>6. Tags(C, V, c)
      BY <3>1, <3>5, RefsAre, TagsAdd, Zenon
    <3> HIDE DEF C, V, c
    <3>7. Tags(D, W, d)
      BY <3>1, <3>6, RefsAre, TagsAdd, Zenon
    <3> HIDE DEF D, W, d
    <3>8. Tags(E, W \cup {"next"}, d + Count(PutNext, n))
      BY <3>1, <3>7, RefsAre, TagsAdd, Zenon
    <3> QED
      BY <3>2, <3>3, <3>8, Zenon DEF Tags
  <2>3. ASSUME NEW n \in Inum, dinode[n].type = "none", NEW x \in Pointers(n)
        PROVE  x[1] = "put" /\ put[x[2]] = "drop"
    <3>1. \A p \in Proc : ~Uses(p, n)
      BY <2>1, <2>3, Zenon DEF Knows
    <3>2. \/ x \in Refs("cwd", cwd, n) \/ x \in Refs("file", file, n) \/ x \in Refs("dp", dp, n)
          \/ x \in Refs("ip", ip, n) \/ x \in Refs("put", PutHead, n)
          \/ x \in Refs("next", PutNext, n)
      BY <2>1, <2>3, PointersAre, Zenon
    <3>3. /\ x[2] \in Proc
          /\ \/ cwd[x[2]] = n \/ file[x[2]] = n \/ dp[x[2]] = n \/ ip[x[2]] = n
             \/ PutNext[x[2]] = n \/ (x[1] = "put" /\ PutHead[x[2]] = n)
      BY <3>2 DEF Refs
    <3> QED
      BY <3>1, <3>3, Zenon DEF Uses
  <2> QED
    BY <2>2, <2>3, Zenon DEF HeldIsAllocated
<1> QED
  BY <1>1, DirInvariance, PTL
=============================================================================
