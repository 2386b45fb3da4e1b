------------------------------ MODULE IosTestsProofs ------------------------------
(* The timing programs of iostest/ and the harness they report through, for     *)
(* any table, any number of iterations and any program: FsTiming, IpcTiming,     *)
(* HwTests and IpcStatistics.                                               *)
EXTENDS FsTiming, IpcTiming, HwTests, IpcStatistics, FiniteSetTheorems, TLAPS

(***************************************************************************)
(* FsTiming                                                                *)
(***************************************************************************)
Kind == Tests[k].kind

-----------------------------------------------------------------------------
(* A test repeated at the end of a list of tests: n times, from the place after a.  *)
Grown(S, s, r, t, a, b) ==
    /\ r \in Seq(S) /\ Len(r) = b
    /\ \A m \in 1 .. a : r[m] = s[m]
    /\ \A m \in (a + 1) .. b : r[m] = t
LEMMA TimesAppended ==
    ASSUME NEW S, NEW s \in Seq(S), NEW t \in S, NEW n \in Nat, NEW a, Len(s) = a
    PROVE  Grown(S, s, s \o Times(n, t), t, a, a + n)
<1>1. Times(n, t) \in Seq(S) /\ Len(Times(n, t)) = n
  BY DEF Times
<1>2. \A m \in 1 .. n : Times(n, t)[m] = t
  BY DEF Times
<1> QED BY <1>1, <1>2 DEF Grown

(* main's 45 tests, by their position. *)
TestKinds == {"opens", "closes", "reads", "create", "metadata", "writes"}
LEMMA TestsListed ==
    /\ Tests \in Seq([kind : TestKinds, flag : BOOLEAN]) /\ Len(Tests) = 45
    /\ \A n \in 1 .. 45 :
        /\ Tests[n].kind \in TestKinds /\ Tests[n].flag \in BOOLEAN
        /\ Tests[n] = Test(Tests[n].kind, Tests[n].flag)
        /\ Tests[n].kind = "reads" <=> n \in 7 .. 24
        /\ Tests[n].kind = "writes" <=> n > 29
<1> DEFINE R == [kind : TestKinds, flag : BOOLEAN]
           Is(t, q) == t \in R /\ t = Test(t.kind, t.flag) /\ t.kind = q
           missing == Test("opens", FALSE)
           found == Test("opens", TRUE)
           closed == Test("closes", TRUE)
           first == Test("reads", FALSE)
           cached == Test("reads", TRUE)
           created == Test("create", TRUE)
           asked == Test("metadata", TRUE)
           blank == Test("writes", FALSE)
           filled == Test("writes", TRUE)
           s1 == Times(3, missing)
           s2 == s1 \o Times(2, found)
           s3 == s2 \o Times(1, closed)
           s4 == s3 \o Times(9, first)
           s5 == s4 \o Times(9, cached)
           s6 == s5 \o Times(1, created)
           s7 == s6 \o Times(4, asked)
           s8 == s7 \o Times(8, blank)
           s9 == s8 \o Times(8, filled)
<1>1. ASSUME NEW q \in TestKinds, NEW b \in BOOLEAN PROVE Is(Test(q, b), q)
  <2>1. Test(q, b).kind = q /\ Test(q, b).flag = b
    BY Zenon DEF Test
  <2>2. Test(q, b) \in R
    BY Zenon DEF Test
  <2> QED BY <2>1, <2>2, Zenon
<1>2. /\ Is(missing, "opens")
      /\ Is(found, "opens")
      /\ Is(closed, "closes")
      /\ Is(first, "reads")
      /\ Is(cached, "reads")
      /\ Is(created, "create")
      /\ Is(asked, "metadata")
      /\ Is(blank, "writes")
      /\ Is(filled, "writes")
  <2> HIDE DEF Is
  <2> QED BY <1>1, Zenon DEF TestKinds
<1> HIDE DEF R, missing, found, closed, first, cached, created, asked, blank, filled
<1>3. s1 \in Seq(R) /\ Len(s1) = 3 /\ \A n \in 1 .. 3 : s1[n] = missing
  BY <1>2 DEF Times
<1> HIDE DEF s1
<1>4. /\ s2 \in Seq(R) /\ Len(s2) = 5 /\ \A n \in 1 .. 3 : s2[n] = s1[n]
      /\ \A n \in 4 .. 5 : s2[n] = found
  <2>1. s1 \in Seq(R) /\ found \in R /\ 2 \in Nat
    BY <1>2, <1>3
  <2>2. Len(s1) = 3
    BY <1>3
  <2>3. Grown(R, s1, s2, found, 3, 3 + 2)
    BY <2>1, <2>2, TimesAppended, Zenon
  <2> HIDE DEF s2
  <2>4. 3 + 2 = 5 /\ 3 + 1 = 4
    OBVIOUS
  <2> QED BY <2>3, <2>4, Zenon DEF Grown
<1> HIDE DEF s2
<1>5. /\ s3 \in Seq(R) /\ Len(s3) = 6 /\ \A n \in 1 .. 5 : s3[n] = s2[n]
      /\ \A n \in 6 .. 6 : s3[n] = closed
  <2>1. s2 \in Seq(R) /\ closed \in R /\ 1 \in Nat
    BY <1>2, <1>4
  <2>2. Len(s2) = 5
    BY <1>4
  <2>3. Grown(R, s2, s3, closed, 5, 5 + 1)
    BY <2>1, <2>2, TimesAppended, Zenon
  <2> HIDE DEF s3
  <2>4. 5 + 1 = 6 /\ 5 + 1 = 6
    OBVIOUS
  <2> QED BY <2>3, <2>4, Zenon DEF Grown
<1> HIDE DEF s3
<1>6. /\ s4 \in Seq(R) /\ Len(s4) = 15 /\ \A n \in 1 .. 6 : s4[n] = s3[n]
      /\ \A n \in 7 .. 15 : s4[n] = first
  <2>1. s3 \in Seq(R) /\ first \in R /\ 9 \in Nat
    BY <1>2, <1>5
  <2>2. Len(s3) = 6
    BY <1>5
  <2>3. Grown(R, s3, s4, first, 6, 6 + 9)
    BY <2>1, <2>2, TimesAppended, Zenon
  <2> HIDE DEF s4
  <2>4. 6 + 9 = 15 /\ 6 + 1 = 7
    OBVIOUS
  <2> QED BY <2>3, <2>4, Zenon DEF Grown
<1> HIDE DEF s4
<1>7. /\ s5 \in Seq(R) /\ Len(s5) = 24 /\ \A n \in 1 .. 15 : s5[n] = s4[n]
      /\ \A n \in 16 .. 24 : s5[n] = cached
  <2>1. s4 \in Seq(R) /\ cached \in R /\ 9 \in Nat
    BY <1>2, <1>6
  <2>2. Len(s4) = 15
    BY <1>6
  <2>3. Grown(R, s4, s5, cached, 15, 15 + 9)
    BY <2>1, <2>2, TimesAppended, Zenon
  <2> HIDE DEF s5
  <2>4. 15 + 9 = 24 /\ 15 + 1 = 16
    OBVIOUS
  <2> QED BY <2>3, <2>4, Zenon DEF Grown
<1> HIDE DEF s5
<1>8. /\ s6 \in Seq(R) /\ Len(s6) = 25 /\ \A n \in 1 .. 24 : s6[n] = s5[n]
      /\ \A n \in 25 .. 25 : s6[n] = created
  <2>1. s5 \in Seq(R) /\ created \in R /\ 1 \in Nat
    BY <1>2, <1>7
  <2>2. Len(s5) = 24
    BY <1>7
  <2>3. Grown(R, s5, s6, created, 24, 24 + 1)
    BY <2>1, <2>2, TimesAppended, Zenon
  <2> HIDE DEF s6
  <2>4. 24 + 1 = 25 /\ 24 + 1 = 25
    OBVIOUS
  <2> QED BY <2>3, <2>4, Zenon DEF Grown
<1> HIDE DEF s6
<1>9. /\ s7 \in Seq(R) /\ Len(s7) = 29 /\ \A n \in 1 .. 25 : s7[n] = s6[n]
      /\ \A n \in 26 .. 29 : s7[n] = asked
  <2>1. s6 \in Seq(R) /\ asked \in R /\ 4 \in Nat
    BY <1>2, <1>8
  <2>2. Len(s6) = 25
    BY <1>8
  <2>3. Grown(R, s6, s7, asked, 25, 25 + 4)
    BY <2>1, <2>2, TimesAppended, Zenon
  <2> HIDE DEF s7
  <2>4. 25 + 4 = 29 /\ 25 + 1 = 26
    OBVIOUS
  <2> QED BY <2>3, <2>4, Zenon DEF Grown
<1> HIDE DEF s7
<1>10. /\ s8 \in Seq(R) /\ Len(s8) = 37 /\ \A n \in 1 .. 29 : s8[n] = s7[n]
      /\ \A n \in 30 .. 37 : s8[n] = blank
  <2>1. s7 \in Seq(R) /\ blank \in R /\ 8 \in Nat
    BY <1>2, <1>9
  <2>2. Len(s7) = 29
    BY <1>9
  <2>3. Grown(R, s7, s8, blank, 29, 29 + 8)
    BY <2>1, <2>2, TimesAppended, Zenon
  <2> HIDE DEF s8
  <2>4. 29 + 8 = 37 /\ 29 + 1 = 30
    OBVIOUS
  <2> QED BY <2>3, <2>4, Zenon DEF Grown
<1> HIDE DEF s8
<1>11. /\ s9 \in Seq(R) /\ Len(s9) = 45 /\ \A n \in 1 .. 37 : s9[n] = s8[n]
      /\ \A n \in 38 .. 45 : s9[n] = filled
  <2>1. s8 \in Seq(R) /\ filled \in R /\ 8 \in Nat
    BY <1>2, <1>10
  <2>2. Len(s8) = 37
    BY <1>10
  <2>3. Grown(R, s8, s9, filled, 37, 37 + 8)
    BY <2>1, <2>2, TimesAppended, Zenon
  <2> HIDE DEF s9
  <2>4. 37 + 8 = 45 /\ 37 + 1 = 38
    OBVIOUS
  <2> QED BY <2>3, <2>4, Zenon DEF Grown
<1>12. Tests = s9
  BY DEF Tests, s1, s2, s3, s4, s5, s6, s7, s8, missing, found, closed, first, cached, created, asked, blank, filled
<1> HIDE DEF s9
<1>13. Tests \in Seq(R) /\ Len(Tests) = 45
  BY <1>11, <1>12
<1>14. ASSUME NEW n \in 1 .. 45
       PROVE  \E q \in TestKinds :
                /\ Is(s9[n], q)
                /\ q = "reads" <=> n \in 7 .. 24
                /\ q = "writes" <=> n > 29
  <2> USE DEF TestKinds
  <2> HIDE DEF Is
  <2>1. CASE n \in 1 .. 3
    <3>1. /\ s2[n] = s1[n] /\ s3[n] = s2[n] /\ s4[n] = s3[n] /\ s5[n] = s4[n]
          /\ s6[n] = s5[n] /\ s7[n] = s6[n] /\ s8[n] = s7[n] /\ s9[n] = s8[n]
      <4>1. /\ n \in 1 .. 3 /\ n \in 1 .. 5 /\ n \in 1 .. 6 /\ n \in 1 .. 15
            /\ n \in 1 .. 24 /\ n \in 1 .. 25 /\ n \in 1 .. 29 /\ n \in 1 .. 37
        BY <2>1
      <4> QED BY <4>1, <1>4, <1>5, <1>6, <1>7, <1>8, <1>9, <1>10, <1>11, Zenon
    <3>2. s1[n] = missing
      BY <2>1, <1>3, Zenon
    <3> QED BY <1>2, <2>1, <3>1, <3>2
  <2>2. CASE n \in 4 .. 5
    <3>1. /\ s3[n] = s2[n] /\ s4[n] = s3[n] /\ s5[n] = s4[n] /\ s6[n] = s5[n]
          /\ s7[n] = s6[n] /\ s8[n] = s7[n] /\ s9[n] = s8[n]
      <4>1. /\ n \in 1 .. 5 /\ n \in 1 .. 6 /\ n \in 1 .. 15 /\ n \in 1 .. 24
            /\ n \in 1 .. 25 /\ n \in 1 .. 29 /\ n \in 1 .. 37
        BY <2>2
      <4> QED BY <4>1, <1>5, <1>6, <1>7, <1>8, <1>9, <1>10, <1>11, Zenon
    <3>2. s2[n] = found
      BY <2>2, <1>4, Zenon
    <3> QED BY <1>2, <2>2, <3>1, <3>2
  <2>3. CASE n \in 6 .. 6
    <3>1. /\ s4[n] = s3[n] /\ s5[n] = s4[n] /\ s6[n] = s5[n] /\ s7[n] = s6[n]
          /\ s8[n] = s7[n] /\ s9[n] = s8[n]
      <4>1. /\ n \in 1 .. 6 /\ n \in 1 .. 15 /\ n \in 1 .. 24 /\ n \in 1 .. 25
            /\ n \in 1 .. 29 /\ n \in 1 .. 37
        BY <2>3
      <4> QED BY <4>1, <1>6, <1>7, <1>8, <1>9, <1>10, <1>11, Zenon
    <3>2. s3[n] = closed
      BY <2>3, <1>5, Zenon
    <3> QED BY <1>2, <2>3, <3>1, <3>2
  <2>4. CASE n \in 7 .. 15
    <3>1. /\ s5[n] = s4[n] /\ s6[n] = s5[n] /\ s7[n] = s6[n] /\ s8[n] = s7[n]
          /\ s9[n] = s8[n]
      <4>1. /\ n \in 1 .. 15 /\ n \in 1 .. 24 /\ n \in 1 .. 25 /\ n \in 1 .. 29
            /\ n \in 1 .. 37
        BY <2>4
      <4> QED BY <4>1, <1>7, <1>8, <1>9, <1>10, <1>11, Zenon
    <3>2. s4[n] = first
      BY <2>4, <1>6, Zenon
    <3> QED BY <1>2, <2>4, <3>1, <3>2
  <2>5. CASE n \in 16 .. 24
    <3>1. /\ s6[n] = s5[n] /\ s7[n] = s6[n] /\ s8[n] = s7[n] /\ s9[n] = s8[n]
      <4>1. /\ n \in 1 .. 24 /\ n \in 1 .. 25 /\ n \in 1 .. 29 /\ n \in 1 .. 37
        BY <2>5
      <4> QED BY <4>1, <1>8, <1>9, <1>10, <1>11, Zenon
    <3>2. s5[n] = cached
      BY <2>5, <1>7, Zenon
    <3> QED BY <1>2, <2>5, <3>1, <3>2
  <2>6. CASE n \in 25 .. 25
    <3>1. /\ s7[n] = s6[n] /\ s8[n] = s7[n] /\ s9[n] = s8[n]
      <4>1. /\ n \in 1 .. 25 /\ n \in 1 .. 29 /\ n \in 1 .. 37
        BY <2>6
      <4> QED BY <4>1, <1>9, <1>10, <1>11, Zenon
    <3>2. s6[n] = created
      BY <2>6, <1>8, Zenon
    <3> QED BY <1>2, <2>6, <3>1, <3>2
  <2>7. CASE n \in 26 .. 29
    <3>1. /\ s8[n] = s7[n] /\ s9[n] = s8[n]
      <4>1. /\ n \in 1 .. 29 /\ n \in 1 .. 37
        BY <2>7
      <4> QED BY <4>1, <1>10, <1>11, Zenon
    <3>2. s7[n] = asked
      BY <2>7, <1>9, Zenon
    <3> QED BY <1>2, <2>7, <3>1, <3>2
  <2>8. CASE n \in 30 .. 37
    <3>1. /\ s9[n] = s8[n]
      <4>1. /\ n \in 1 .. 37
        BY <2>8
      <4> QED BY <4>1, <1>11, Zenon
    <3>2. s8[n] = blank
      BY <2>8, <1>10, Zenon
    <3> QED BY <1>2, <2>8, <3>1, <3>2
  <2>9. CASE n \in 38 .. 45
    <3>1. s9[n] = filled
      BY <2>9, <1>11, Zenon
    <3> QED BY <1>2, <2>9, <3>1
  <2> QED BY <2>1, <2>2, <2>3, <2>4, <2>5, <2>6, <2>7, <2>8, <2>9
<1>15. ASSUME NEW n \in 1 .. 45
       PROVE  /\ Tests[n].kind \in TestKinds /\ Tests[n].flag \in BOOLEAN
              /\ Tests[n] = Test(Tests[n].kind, Tests[n].flag)
              /\ Tests[n].kind = "reads" <=> n \in 7 .. 24
              /\ Tests[n].kind = "writes" <=> n > 29
  <2>1. PICK q \in TestKinds :
            /\ Is(Tests[n], q)
            /\ q = "reads" <=> n \in 7 .. 24
            /\ q = "writes" <=> n > 29
    BY <1>12, <1>14
  <2>2. Tests[n].kind = q /\ Tests[n] = Test(Tests[n].kind, Tests[n].flag) /\ Tests[n] \in R
    BY <2>1
  <2>3. Tests[n].flag \in BOOLEAN
    BY <2>2, Zenon DEF R
  <2> QED BY <2>1, <2>2, <2>3
<1> QED BY <1>13, <1>15 DEF R

(* Of the 45 tests, 18 read: one more is behind after each of them. *)
LEMMA ReadsCounted ==
    /\ \A n \in 1 .. 46 : ReadsBefore(n) \in 0 .. 18
    /\ \A n \in 1 .. 45 :
        ReadsBefore(n + 1) = ReadsBefore(n) + IF Tests[n].kind = "reads" THEN 1 ELSE 0
<1> DEFINE B(n) == {m \in 7 .. 24 : m < n}
<1>1. ASSUME NEW n \in 1 .. 46
      PROVE  ReadsBefore(n) = Cardinality(B(n))
  <2>1. ASSUME NEW m \in 1 .. n - 1 PROVE Tests[m].kind = "reads" <=> m \in 7 .. 24
    <3>1. m \in 1 .. 45
      OBVIOUS
    <3> QED BY <3>1, TestsListed
  <2>2. {m \in 1 .. n - 1 : Tests[m].kind = "reads"} = B(n)
    BY <2>1
  <2> QED BY <2>2 DEF ReadsBefore
<1>2. IsFiniteSet(7 .. 24) /\ Cardinality(7 .. 24) = 18
  <2>1. \A a, b \in Int : IsFiniteSet(a .. b) /\ Cardinality(a .. b) = IF a > b THEN 0 ELSE b - a + 1
    BY FS_Interval
  <2>2. 7 \in Int /\ 24 \in Int
    OBVIOUS
  <2>3. IsFiniteSet(7 .. 24) /\ Cardinality(7 .. 24) = IF 7 > 24 THEN 0 ELSE 24 - 7 + 1
    BY <2>1, <2>2, Zenon
  <2> QED BY <2>3
<1>3. ASSUME NEW n \in 1 .. 46
      PROVE  IsFiniteSet(B(n)) /\ Cardinality(B(n)) \in 0 .. 18
  <2>1. B(n) \subseteq 7 .. 24
    OBVIOUS
  <2>2. IsFiniteSet(B(n)) /\ Cardinality(B(n)) <= 18
    BY <1>2, <2>1, FS_Subset
  <2>3. Cardinality(B(n)) \in Nat
    BY <2>2, FS_CardinalityType
  <2> QED BY <2>2, <2>3
<1>4. ASSUME NEW n \in 1 .. 45
      PROVE  ReadsBefore(n + 1) = ReadsBefore(n) + IF Tests[n].kind = "reads" THEN 1 ELSE 0
  <2>1. n \in 1 .. 46 /\ n + 1 \in 1 .. 46
    OBVIOUS
  <2>2. /\ ReadsBefore(n + 1) = Cardinality(B(n + 1)) /\ ReadsBefore(n) = Cardinality(B(n))
        /\ IsFiniteSet(B(n)) /\ Cardinality(B(n)) \in Nat
    <3>1. IsFiniteSet(B(n)) /\ Cardinality(B(n)) \in 0 .. 18
      BY <1>3, <2>1
    <3>2. ReadsBefore(n + 1) = Cardinality(B(n + 1)) /\ ReadsBefore(n) = Cardinality(B(n))
      BY <1>1, <2>1
    <3> QED BY <3>1, <3>2
  <2>3. Tests[n].kind = "reads" <=> n \in 7 .. 24
    BY TestsListed
  <2>4. CASE n \in 7 .. 24
    <3>1. B(n + 1) = B(n) \cup {n} /\ n \notin B(n)
      BY <2>4
    <3>2. Cardinality(B(n) \cup {n}) = Cardinality(B(n)) + 1
      BY <2>2, <3>1, FS_AddElement
    <3> QED BY <2>2, <2>3, <2>4, <3>1, <3>2
  <2>5. CASE n \notin 7 .. 24
    <3>1. B(n + 1) = B(n)
      BY <2>5
    <3> QED BY <2>2, <2>3, <2>5, <3>1
  <2> QED BY <2>4, <2>5
<1>5. \A n \in 1 .. 46 : ReadsBefore(n) \in 0 .. 18
  BY <1>1, <1>3
<1> QED BY <1>4, <1>5

-----------------------------------------------------------------------------
(* Where a test is.  The iterations it has recorded are those it has done. *)
Control ==
    /\ k \in 1 .. 46 /\ pc \in Steps /\ i \in 0 .. Repeats /\ ticks \in 0 .. Repeats
    /\ pc # "idle" => k <= 45
    /\ pc = "idle" => i = 0
    /\ pc \notin {"idle", "close_fs", "close_file"} => i < Repeats
    /\ pc \notin {"idle", "close_fs", "close_file", "delete_file"} => ticks = i
    /\ pc = "delete_file" => ticks = i + 1

(* Between which steps a test has a descriptor of its own in fd and file_fd. *)
FileHeld == {"fill", "close_filled", "write", "close_written"}
Unshared == {"idle", "open", "read_first", "seek", "read", "close", "open_fs"}
Holds ==
    /\ pc \in {"idle", "open", "open_fs"} => fd \notin table
    /\ pc \notin {"idle", "open", "open_fs", "close_file"} => fd \in table
    /\ pc \in FileHeld => file_fd \in table /\ file_fd # fd
    /\ pc \notin FileHeld \cup {"close_fs", "close_file"} => file_fd \notin table
    /\ pc = "idle" => fd = Error
    /\ pc \in Unshared \/ Kind # "writes" => file_fd = Error

(* Nothing that was open when the test began is in a local. *)
OwnIInv ==
    /\ inherited.fds \subseteq table
    /\ fd \notin inherited.fds /\ file_fd \notin inherited.fds

(* What is open and in no local of the test, which at its last Close has       *)
(* only file_fd left.                                                      *)
Leaked == table \ {file_fd, IF pc = "close_file" THEN Error ELSE fd}
LeakIInv == Cardinality(Leaked) <= ReadsBefore(k) + badCloses

(* The file that TestWrites writes to. *)
FilesIInv ==
    /\ pc \in {"open_file", "fill"} => files["writetest"] = "empty"
    /\ pc \in {"close_filled", "reopen"} => files["writetest"] = "full"
    /\ pc \in {"fill", "close_filled", "reopen"} => Tests[k].flag
    /\ MeasuresMode

(* Why a test may have recorded less than all its iterations: a command of its   *)
(* own failed, or the file it wants to create was there.                      *)
Explained(test) ==
    \/ faulted
    \/ Tests[test].kind = "create" /\ inherited.files["test"] # "none"
    \/ Tests[test].kind = "writes" /\ inherited.files["writetest"] # "none"

ExplainedIInv ==
    /\ pc = "open_fs" => files = inherited.files
    /\ pc = "create" =>
          faulted \/ files["test"] = "none" \/ inherited.files["test"] # "none"
    /\ pc = "delete" => files["test"] # "none"
    /\ pc = "create_file" =>
          faulted \/ files["writetest"] = "none" \/ inherited.files["writetest"] # "none"
    /\ pc \in {"close_fs", "close_file"} /\ badCloses <= 4 => ticks = Repeats \/ Explained(k)
    /\ FailureExplained

FsIInv == TypeOK /\ Control /\ Holds /\ OwnIInv /\ LeakIInv /\ FilesIInv

-----------------------------------------------------------------------------
LEMMA FsInitIInv == Init => FsIInv /\ ExplainedIInv
<1> SUFFICES ASSUME Init PROVE FsIInv /\ ExplainedIInv
  OBVIOUS
<1> USE FdsExist, BadClosesCounted, RepeatsSome DEF Init, FdsClosed, Error, Fds, Results
<1>1. Control
  BY DEF Control, Steps
<1>2. TypeOK
  <2>1. inherited \in [fds : SUBSET Fds, files : [Temp -> {"none", "empty", "full"}]]
    OBVIOUS
  <2>2. FdsTypeOK
    <3>1. table \subseteq Fds /\ badCloses \in 0 .. MaxBadCloses
      OBVIOUS
    <3>2. faulted \in BOOLEAN
      BY Zenon
    <3> QED BY <3>1, <3>2 DEF FdsTypeOK
  <2>3. fd \in Results /\ file_fd \in Results /\ files \in [Temp -> {"none", "empty", "full"}]
    OBVIOUS
  <2>4. Len(Tests) = 45
    BY TestsListed
  <2> QED BY ONLY <1>1, <2>1, <2>2, <2>3, <2>4 DEF TypeOK, Control
<1>3. Holds /\ OwnIInv
  BY DEF Holds, FileHeld, Unshared, OwnIInv
<1>4. LeakIInv
  <2>1. Leaked = {}
    BY DEF Leaked
  <2>2. Cardinality(Leaked) = 0
    BY <2>1, FS_EmptySet
  <2>3. ReadsBefore(1) \in 0 .. 18
    BY ReadsCounted
  <2> QED BY <2>2, <2>3 DEF LeakIInv
<1>5. FilesIInv /\ ExplainedIInv
  BY DEF FilesIInv, MeasuresMode, ExplainedIInv, FailureExplained
<1> QED BY <1>1, <1>2, <1>3, <1>4, <1>5 DEF FsIInv

LEMMA ControlKept == Control /\ [Next]_vars => Control'
<1> SUFFICES ASSUME Control, [Next]_vars PROVE Control'
  OBVIOUS
<1> USE RepeatsSome
    DEF Control, Steps, Goto, Iterate, Record, Finish, Return, ReturnNothing
<1>1. Len(Tests) = 45
  BY TestsListed
<1>5. CASE Begin
  BY <1>1, <1>5 DEF Begin
<1>6. CASE OpenTested
  <2>1. PICK result \in Results :
            \/ fd' = result /\ pc' \in {"close", "read_first", "read"} /\ UNCHANGED <<k, i, ticks>>
            \/ ReturnNothing
            \/ Record /\ IterateOrReturn
    BY <1>6 DEF OpenTested
  <2> QED BY <1>6, <2>1 DEF OpenTested, IterateOrReturn
<1>7. CASE ReadFirst \/ Seek \/ Read
  BY <1>7 DEF ReadFirst, Seek, Read, ReadStep, Running
<1>8. CASE CloseTested
  BY <1>8 DEF CloseTested, IterateOrReturn
<1>9. CASE OpenFs
  BY <1>9 DEF OpenFs, FirstStep
<1>10. CASE CloseFs
  BY <1>10 DEF CloseFs
<1>11. CASE GetMetadata
  BY <1>11 DEF GetMetadata, Running
<1>12. CASE Create
  BY <1>12 DEF Create, Running
<1>13. CASE Delete
  BY <1>13 DEF Delete, Running
<1>14. CASE CreateWrite
  BY <1>14 DEF CreateWrite, Running
<1>15. CASE OpenFile \/ Reopen
  BY <1>15 DEF OpenFile, Reopen, OpenStep, Running
<1>16. CASE Fill
  BY <1>16 DEF Fill, Running
<1>5a. CASE CloseFilled
  BY <1>5a DEF CloseFilled, Running
<1>18. CASE Write
  BY <1>18 DEF Write, Running
<1>19. CASE CloseWritten
  BY <1>19 DEF CloseWritten, Running
<1>20. CASE DeleteWrite
  BY <1>20 DEF DeleteWrite, Running
<1>21. CASE CloseFile
  BY <1>21 DEF CloseFile, Running
<1>22. CASE UNCHANGED vars
  BY <1>22 DEF vars
<1> QED
  BY <1>5, <1>6, <1>7, <1>8, <1>9, <1>10, <1>11, <1>12, <1>13, <1>14, <1>15, <1>16, <1>5a,
     <1>18, <1>19, <1>20, <1>21, <1>22 DEF Next, Done

(* What a step does to the descriptors, to the locals and to the files. *)
LEMMA FdsMoves ==
    ASSUME [Next]_vars
    PROVE  \/ \E there, result : Open(there, result) /\ result \in Results
           \/ \E q : \E ok \in BOOLEAN : Close(q, ok)
           \/ \E can, ok : Command(can, ok)
           \/ faulted' = FALSE /\ UNCHANGED <<table, badCloses>>
           \/ UNCHANGED fdVars
<1>1. CASE OpenTested \/ OpenFs \/ OpenFile \/ Reopen
  BY <1>1, Zenon DEF OpenTested, OpenFs, OpenFile, Reopen, OpenStep
<1>2. CASE CloseTested \/ CloseFs \/ CloseFilled \/ CloseWritten \/ CloseFile
  BY <1>2, Zenon DEF CloseTested, CloseFs, CloseFilled, CloseWritten, CloseFile
<1>3. CASE ReadFirst \/ Seek \/ Read \/ GetMetadata \/ Fill \/ Write
  BY <1>3, Zenon DEF ReadFirst, Seek, Read, ReadStep, GetMetadata, Fill, Write
<1>4. CASE Create \/ Delete \/ CreateWrite \/ DeleteWrite
  BY <1>4, Zenon DEF Create, Delete, CreateWrite, DeleteWrite, CreateFile, DeleteFile
<1>5. CASE Begin
  BY <1>5 DEF Begin
<1>6. CASE UNCHANGED vars
  BY <1>6 DEF vars, fdVars
<1> QED BY <1>1, <1>2, <1>3, <1>4, <1>5, <1>6 DEF Next, Done

LEMMA LocalsMove ==
    ASSUME TypeOK, [Next]_vars
    PROVE  fd' \in Results /\ file_fd' \in Results
<1> USE DEF TypeOK, Results, Finish, Return, ReturnNothing, locals
<1>1. CASE OpenTested
  BY <1>1 DEF OpenTested, IterateOrReturn
<1>2. CASE OpenFs
  BY <1>2 DEF OpenFs
<1>3. CASE OpenFile \/ Reopen
  BY <1>3 DEF OpenFile, Reopen, OpenStep
<1>4. CASE CloseTested
  BY <1>4 DEF CloseTested, IterateOrReturn
<1>5. CASE CloseFs \/ CloseFile
  BY <1>5 DEF CloseFs, CloseFile
<1>6. CASE ReadFirst \/ Seek \/ Read
  BY <1>6 DEF ReadFirst, Seek, Read, ReadStep
<1>7. CASE Begin
  BY <1>7 DEF Begin, NoFile
<1>8. CASE \/ GetMetadata \/ Create \/ Delete \/ CreateWrite \/ Fill \/ CloseFilled
           \/ Write \/ CloseWritten \/ DeleteWrite \/ UNCHANGED vars
  BY <1>8 DEF GetMetadata, Create, Delete, CreateWrite, Fill, CloseFilled, Write, CloseWritten,
              DeleteWrite, vars
<1> QED BY <1>1, <1>2, <1>3, <1>4, <1>5, <1>6, <1>7, <1>8 DEF Next, Done

LEMMA FilesMove ==
    ASSUME [Next]_vars
    PROVE  \/ UNCHANGED files
           \/ \E f \in Temp, content \in {"none", "empty", "full"} :
                    files' = [files EXCEPT ![f] = content]
<1> USE DEF Temp
<1>1. CASE Create
  BY <1>1 DEF Create, CreateFile
<1>2. CASE Delete
  BY <1>2 DEF Delete, DeleteFile
<1>3. CASE CreateWrite
  BY <1>3 DEF CreateWrite, CreateFile
<1>4. CASE DeleteWrite
  BY <1>4 DEF DeleteWrite, DeleteFile
<1>5. CASE Fill
  BY <1>5 DEF Fill
<1>6. CASE Write
  BY <1>6 DEF Write
<1>7. CASE UNCHANGED files
  BY <1>7
<1>8. CASE Begin \/ OpenTested \/ ReadFirst \/ Seek \/ Read \/ CloseTested \/ OpenFs \/ CloseFs
  BY <1>8 DEF Begin, OpenTested, ReadFirst, Seek, Read, ReadStep, CloseTested, OpenFs, CloseFs
<1>9. CASE GetMetadata \/ OpenFile \/ CloseFilled \/ Reopen \/ CloseWritten \/ CloseFile
  BY <1>9 DEF GetMetadata, OpenFile, Reopen, OpenStep, CloseFilled, CloseWritten, CloseFile
<1>10. CASE UNCHANGED vars
  BY <1>10 DEF vars
<1> QED
  BY <1>1, <1>2, <1>3, <1>4, <1>5, <1>6, <1>8, <1>9, <1>10 DEF Next, Done

LEMMA InheritedMoves ==
    ASSUME [Next]_vars
    PROVE  \/ UNCHANGED inherited
           \/ Begin /\ inherited' = [fds |-> table, files |-> files]
<1>1. CASE Begin
  BY <1>1 DEF Begin
<1>2. CASE OpenTested \/ ReadFirst \/ Seek \/ Read \/ CloseTested \/ OpenFs \/ CloseFs \/ GetMetadata
  BY <1>2 DEF OpenTested, ReadFirst, Seek, Read, ReadStep, CloseTested, OpenFs, CloseFs, GetMetadata
<1>3. CASE Create \/ Delete \/ CreateWrite \/ DeleteWrite \/ Fill \/ Write
  BY <1>3 DEF Create, Delete, CreateWrite, DeleteWrite, Fill, Write
<1>4. CASE OpenFile \/ CloseFilled \/ Reopen \/ CloseWritten \/ CloseFile
  BY <1>4 DEF OpenFile, Reopen, OpenStep, CloseFilled, CloseWritten, CloseFile
<1>5. CASE UNCHANGED vars
  BY <1>5 DEF vars
<1> QED BY <1>1, <1>2, <1>3, <1>4, <1>5 DEF Next, Done

LEMMA TypesKept == TypeOK /\ Control /\ [Next]_vars => TypeOK'
<1> SUFFICES ASSUME TypeOK, Control, [Next]_vars PROVE TypeOK'
  OBVIOUS
<1>1. Len(Tests) = 45 /\ Control'
  BY TestsListed, ControlKept
<1>2. (k \in 1 .. Len(Tests) + 1 /\ pc \in Steps /\ i \in 0 .. Repeats /\ ticks \in 0 .. Repeats)'
  BY <1>1 DEF Control
<1>3. FdsTypeOK'
  <2> USE FdsExist, BadClosesCounted DEF TypeOK, FdsTypeOK, fdVars
  <2>1. ASSUME NEW there, NEW result \in Results, Open(there, result) PROVE FdsTypeOK'
    BY <2>1 DEF Open, IsLowestFree, Fds
  <2>2. ASSUME NEW q, NEW ok \in BOOLEAN, Close(q, ok) PROVE FdsTypeOK'
    <3>1. badCloses' \in {badCloses, badCloses + 1} /\ (badCloses' = badCloses \/ badCloses < MaxBadCloses)
      BY <2>2 DEF Close
    <3>2. table' \subseteq table /\ faulted' \in BOOLEAN
      BY <2>2 DEF Close
    <3> QED BY <3>1, <3>2
  <2>3. ASSUME NEW can, NEW ok, Command(can, ok) PROVE FdsTypeOK'
    BY <2>3 DEF Command
  <2>4. CASE \E there, result : Open(there, result) /\ result \in Results
    BY <2>1, <2>4
  <2>5. CASE \E q : \E ok \in BOOLEAN : Close(q, ok)
    BY <2>2, <2>5
  <2>6. CASE \E can, ok : Command(can, ok)
    BY <2>3, <2>6
  <2>7. CASE faulted' = FALSE /\ UNCHANGED <<table, badCloses>>
    BY <2>7
  <2>8. CASE UNCHANGED fdVars
    BY <2>8
  <2> QED BY <2>4, <2>5, <2>6, <2>7, <2>8, FdsMoves
<1>4. (fd \in Results /\ file_fd \in Results)'
  BY LocalsMove DEF TypeOK
<1>5. (files \in [Temp -> {"none", "empty", "full"}])'
  BY FilesMove DEF TypeOK
<1>6. (inherited \in [fds : SUBSET Fds, files : [Temp -> {"none", "empty", "full"}]])'
  BY InheritedMoves DEF TypeOK, FdsTypeOK
<1> QED BY <1>2, <1>3, <1>4, <1>5, <1>6 DEF TypeOK

-----------------------------------------------------------------------------
(* The descriptors: what Open and Close do to the table. *)
LEMMA OpenMoves ==
    ASSUME TypeOK, NEW there, NEW result \in Results, Open(there, result)
    PROVE  /\ result # Error => result \in Fds \ table /\ table' = table \cup {result}
           /\ result = Error => table' = table
           /\ badCloses' = badCloses
  BY FdsExist DEF Open, IsLowestFree, Results, Fds, Error

LEMMA CloseMoves ==
    ASSUME TypeOK, NEW q, NEW ok \in BOOLEAN, Close(q, ok)
    PROVE  \/ ok /\ q \in table /\ table' = table \ {q} /\ badCloses' = badCloses
           \/ ~ok /\ q \notin table /\ UNCHANGED <<table, badCloses, faulted>>
           \/ ~ok /\ q \in table /\ table' = table /\ badCloses' = badCloses + 1 /\ faulted' = TRUE
  BY DEF Close, fdVars

LEMMA NoErrorOpen == TypeOK => Error \notin table
  BY FdsExist DEF TypeOK, FdsTypeOK, Fds, Error

(* What the actions that open or close make of it. *)
Ended == pc' = "idle" /\ k' = k + 1 /\ fd' = Error /\ file_fd' = Error
Opened(q) == q \in Fds \ table /\ table' = table \cup {q} /\ badCloses' = badCloses
Untouched == table' = table /\ badCloses' = badCloses
Closed(q) == q \in table /\ table' = table \ {q} /\ badCloses' = badCloses
NotClosed(q) == q \in table /\ table' = table /\ badCloses' = badCloses + 1 /\ faulted' = TRUE

LEMMA OpenTestedMoves ==
    ASSUME TypeOK, OpenTested
    PROVE  /\ pc = "open" /\ UNCHANGED <<files, inherited>>
           /\ \/ /\ fd' # Error /\ Opened(fd') /\ UNCHANGED <<file_fd, k>>
                 /\ pc' \in {"close", "read_first", "read"}
              \/ Untouched /\ Ended
              \/ Untouched /\ pc' = "open" /\ UNCHANGED <<fd, file_fd, k>>
<1>1. PICK result \in Results :
          /\ Open(Tests[k].kind # "opens" \/ Tests[k].flag, result)
          /\ \/ /\ result # Error /\ fd' = result /\ UNCHANGED <<file_fd, k>>
                /\ pc' \in {"close", "read_first", "read"}
             \/ result = Error /\ ReturnNothing
             \/ result = Error /\ IterateOrReturn
  BY DEF OpenTested, Goto
<1>2. IF result = Error THEN Untouched ELSE Opened(result)
  BY <1>1, OpenMoves DEF Untouched, Opened
<1>3. pc = "open" /\ UNCHANGED <<files, inherited>>
  BY DEF OpenTested
<1>4. CASE result # Error /\ fd' = result /\ UNCHANGED <<file_fd, k>>
           /\ pc' \in {"close", "read_first", "read"}
  BY <1>2, <1>3, <1>4
<1>5. CASE result = Error /\ ReturnNothing
  BY <1>2, <1>3, <1>5 DEF ReturnNothing, Finish, Ended
<1>6. CASE result = Error /\ IterateOrReturn
  BY <1>2, <1>3, <1>6 DEF IterateOrReturn, Iterate, Finish, Ended, locals
<1> QED BY <1>1, <1>4, <1>5, <1>6

LEMMA OpenFsMoves ==
    ASSUME TypeOK, OpenFs
    PROVE  /\ pc = "open_fs" /\ UNCHANGED <<files, inherited>>
           /\ \/ /\ fd' # Error /\ Opened(fd') /\ UNCHANGED <<file_fd, k>>
                 /\ pc' = FirstStep
              \/ Untouched /\ Ended
<1>1. PICK result \in Results :
          /\ Open(TRUE, result)
          /\ \/ result # Error /\ fd' = result /\ UNCHANGED <<file_fd, k>> /\ pc' = FirstStep
             \/ result = Error /\ ReturnNothing
  BY DEF OpenFs, Goto
<1>2. IF result = Error THEN Untouched ELSE Opened(result)
  BY <1>1, OpenMoves DEF Untouched, Opened
<1>3. pc = "open_fs" /\ UNCHANGED <<files, inherited>>
  BY DEF OpenFs
<1> QED BY <1>1, <1>2, <1>3 DEF ReturnNothing, Finish, Ended

LEMMA OpenFileMoves ==
    ASSUME TypeOK, OpenFile \/ Reopen
    PROVE  /\ pc \in {"open_file", "reopen"} /\ Kind = "writes" /\ UNCHANGED <<files, inherited, fd, k>>
           /\ \/ /\ file_fd' # Error /\ Opened(file_fd')
                 /\ pc' = IF pc = "open_file" /\ Tests[k].flag THEN "fill" ELSE "write"
              \/ file_fd' = Error /\ Untouched /\ pc' = "close_fs"
<1>1. /\ pc \in {"open_file", "reopen"} /\ Kind = "writes" /\ UNCHANGED <<files, inherited, fd, k>>
      /\ \E result \in Results :
            /\ Open(files["writetest"] # "none", result)
            /\ file_fd' = result
            /\ \/ /\ result # Error
                  /\ pc' = IF pc = "open_file" /\ Tests[k].flag THEN "fill" ELSE "write"
               \/ result = Error /\ pc' = "close_fs"
  <2>1. CASE OpenFile
    BY <2>1 DEF OpenFile, OpenStep, Running, Goto, Kind
  <2>2. CASE Reopen
    BY <2>2 DEF Reopen, OpenStep, Running, Goto, Kind
  <2> QED BY <2>1, <2>2
<1>2. PICK result \in Results :
            /\ Open(files["writetest"] # "none", result)
            /\ file_fd' = result
            /\ \/ /\ result # Error
                  /\ pc' = IF pc = "open_file" /\ Tests[k].flag THEN "fill" ELSE "write"
               \/ result = Error /\ pc' = "close_fs"
  BY <1>1
<1>3. IF result = Error THEN Untouched ELSE Opened(result)
  BY <1>2, OpenMoves DEF Untouched, Opened
<1> QED BY <1>1, <1>2, <1>3

LEMMA CloseTestedMoves ==
    ASSUME TypeOK, CloseTested
    PROVE  /\ pc = "close" /\ UNCHANGED <<files, inherited>>
           /\ \/ Closed(fd) /\ pc' = "open" /\ UNCHANGED <<fd, file_fd, k>>
              \/ Closed(fd) /\ Ended
              \/ fd \notin table /\ Untouched /\ Ended
              \/ NotClosed(fd) /\ Ended
<1>1. PICK ok \in BOOLEAN :
          /\ Close(fd, ok)
          /\ IF ok THEN Record /\ IterateOrReturn ELSE ReturnNothing
  BY DEF CloseTested
<1>2. \/ ok /\ Closed(fd)
      \/ ~ok /\ fd \notin table /\ Untouched
      \/ ~ok /\ NotClosed(fd)
  BY <1>1, CloseMoves DEF Closed, Untouched, NotClosed
<1>3. \/ ok /\ pc' = "open" /\ UNCHANGED <<fd, file_fd, k>>
      \/ Ended
  BY <1>1 DEF IterateOrReturn, Iterate, ReturnNothing, Finish, Ended, locals
<1>4. pc = "close" /\ UNCHANGED <<files, inherited>>
  BY DEF CloseTested
<1> QED BY <1>2, <1>3, <1>4

LEMMA CloseOtherMoves ==
    ASSUME TypeOK, CloseFs \/ CloseFilled \/ CloseWritten \/ CloseFile
    PROVE  /\ UNCHANGED <<files, inherited>>
           /\ \/ /\ CloseFs /\ pc = "close_fs"
                 /\ Closed(fd) \/ (fd \notin table /\ Untouched) \/ NotClosed(fd)
                 /\ \/ Kind = "writes" /\ pc' = "close_file" /\ UNCHANGED <<fd, file_fd, k>>
                    \/ Kind # "writes" /\ Ended
              \/ /\ CloseFilled /\ pc = "close_filled" /\ Kind = "writes" /\ UNCHANGED <<fd, file_fd, k>>
                 /\ \/ Closed(file_fd) /\ pc' = "reopen"
                    \/ file_fd \notin table /\ Untouched /\ pc' = "close_fs"
                    \/ NotClosed(file_fd) /\ pc' = "close_fs"
              \/ /\ CloseWritten /\ pc = "close_written" /\ Kind = "writes" /\ UNCHANGED <<fd, file_fd, k>>
                 /\ \/ Closed(file_fd) /\ pc' = "delete_file"
                    \/ file_fd \notin table /\ Untouched /\ pc' = "close_fs"
                    \/ NotClosed(file_fd) /\ pc' = "close_fs"
              \/ /\ CloseFile /\ pc = "close_file" /\ Kind = "writes" /\ Ended
                 /\ Closed(file_fd) \/ (file_fd \notin table /\ Untouched) \/ NotClosed(file_fd)
<1>1. ASSUME NEW q, NEW ok \in BOOLEAN, Close(q, ok)
      PROVE  \/ ok /\ Closed(q)
             \/ ~ok /\ q \notin table /\ Untouched
             \/ ~ok /\ NotClosed(q)
  BY <1>1, CloseMoves DEF Closed, Untouched, NotClosed
<1>2. CASE CloseFs
  <2>1. PICK ok \in BOOLEAN : Close(fd, ok)
    BY <1>2 DEF CloseFs
  <2>2. Closed(fd) \/ (fd \notin table /\ Untouched) \/ NotClosed(fd)
    BY <1>1, <2>1
  <2> QED BY <1>2, <2>2 DEF CloseFs, Kind, Goto, locals, Return, Finish, Ended
<1>3. CASE CloseFilled
  <2>1. PICK ok \in BOOLEAN : Close(file_fd, ok) /\ Goto(IF ok THEN "reopen" ELSE "close_fs")
    BY <1>3 DEF CloseFilled
  <2> QED BY <1>1, <1>3, <2>1 DEF CloseFilled, Running, Kind, Goto, locals
<1>4. CASE CloseWritten
  <2>1. PICK ok \in BOOLEAN :
            /\ Close(file_fd, ok) /\ UNCHANGED k
            /\ (ok /\ pc' = "delete_file") \/ (~ok /\ pc' = "close_fs")
    BY <1>4 DEF CloseWritten, Goto
  <2> QED BY <1>1, <1>4, <2>1 DEF CloseWritten, Running, Kind, locals
<1>5. CASE CloseFile
  <2>1. PICK ok \in BOOLEAN : Close(file_fd, ok)
    BY <1>5 DEF CloseFile
  <2>2. Closed(file_fd) \/ (file_fd \notin table /\ Untouched) \/ NotClosed(file_fd)
    BY <1>1, <2>1
  <2> QED BY <1>5, <2>2 DEF CloseFile, Running, Kind, Return, Finish, Ended
<1> QED BY <1>2, <1>3, <1>4, <1>5

(* Which descriptors a test holds is as its step says. *)
LEMMA HoldsKept == TypeOK /\ Control /\ Holds /\ [Next]_vars => Holds'
<1> SUFFICES ASSUME TypeOK, Control, Holds, [Next]_vars PROVE Holds'
  OBVIOUS
<1> USE NoErrorOpen DEF Holds, FileHeld, Unshared
<1>1. CASE Begin
  BY <1>1 DEF Begin, NoFile
<1>2. CASE OpenTested
  <2>1. CASE /\ fd' # Error /\ Opened(fd') /\ UNCHANGED <<file_fd, k>>
             /\ pc' \in {"close", "read_first", "read"}
    <3>1. file_fd' = Error /\ fd' \in table' /\ Error \notin table'
      BY <1>2, <2>1, OpenTestedMoves DEF Opened
    <3> QED BY <2>1, <3>1
  <2>2. CASE Untouched /\ Ended
    BY <2>2 DEF Untouched, Ended
  <2>3. CASE Untouched /\ pc' = "open" /\ UNCHANGED <<fd, file_fd, k>>
    BY <1>2, <2>3, OpenTestedMoves DEF Untouched, Kind
  <2> QED BY <1>2, <2>1, <2>2, <2>3, OpenTestedMoves
<1>3. CASE ReadFirst \/ Seek \/ Read
  BY <1>3 DEF ReadFirst, Seek, Read, ReadStep, Running, Command, Goto, Finish, ReturnNothing, locals, Kind
<1>4. CASE CloseTested
  BY <1>4, CloseTestedMoves DEF Closed, NotClosed, Ended, Untouched, Kind
<1>5. CASE OpenFs
  <2>1. FirstStep \in {"create", "get_metadata", "create_file"}
    BY DEF FirstStep
  <2>2. CASE fd' # Error /\ Opened(fd') /\ UNCHANGED <<file_fd, k>> /\ pc' = FirstStep
    <3>1. file_fd' = Error /\ fd' \in table' /\ Error \notin table'
      BY <1>5, <2>2, OpenFsMoves DEF Opened
    <3> QED BY <2>1, <2>2, <3>1
  <2>3. CASE Untouched /\ Ended
    BY <2>3 DEF Untouched, Ended
  <2> QED BY <1>5, <2>2, <2>3, OpenFsMoves
<1>6. CASE CloseFs \/ CloseFilled \/ CloseWritten \/ CloseFile
  BY <1>6, CloseOtherMoves DEF Closed, NotClosed, Ended, Untouched, Kind
<1>7. CASE OpenFile \/ Reopen
  BY <1>7, OpenFileMoves DEF Opened, Untouched, Kind
<1>8. CASE GetMetadata
  BY <1>8 DEF GetMetadata, Running, Command, Iterate, locals, Kind
<1>9. CASE Create
  BY <1>9 DEF Create, CreateFile, Running, Command, Goto, locals, Kind
<1>10. CASE Delete
  BY <1>10 DEF Delete, DeleteFile, Running, Command, Goto, Iterate, locals, Kind
<1>11. CASE CreateWrite
  BY <1>11 DEF CreateWrite, CreateFile, Running, Command, Goto, locals, Kind
<1>12. CASE Fill
  BY <1>12 DEF Fill, Running, Command, Goto, locals, Kind
<1>13. CASE Write
  BY <1>13 DEF Write, Running, Command, Goto, locals, Kind
<1>14. CASE DeleteWrite
  BY <1>14 DEF DeleteWrite, DeleteFile, Running, Command, Iterate, locals, Kind
<1>15. CASE UNCHANGED vars
  BY <1>15 DEF vars, Kind
<1> QED
  BY <1>1, <1>2, <1>3, <1>4, <1>5, <1>6, <1>7, <1>8, <1>9, <1>10, <1>11, <1>12, <1>13, <1>14,
     <1>15 DEF Next, Done

(* The other steps, some of which end the test. *)
Quiet ==
    \/ ReadFirst \/ Seek \/ Read \/ GetMetadata \/ Create \/ Delete
    \/ CreateWrite \/ Fill \/ Write \/ DeleteWrite

LEMMA QuietMoves ==
    ASSUME Quiet
    PROVE  /\ Untouched /\ UNCHANGED inherited
           /\ \/ Ended /\ Kind = "reads" /\ pc \in {"read_first", "seek", "read"}
              \/ /\ UNCHANGED <<fd, file_fd, k>>
                 /\ pc \notin {"idle", "close_file"} /\ pc' \notin {"idle", "close_file"}
<1> USE DEF Untouched, Ended, Kind, Running, Command, Goto, Iterate, locals
<1>1. CASE ReadFirst \/ Seek \/ Read
  BY <1>1 DEF ReadFirst, Seek, Read, ReadStep, ReturnNothing, Finish
<1>2. CASE GetMetadata
  BY <1>2 DEF GetMetadata
<1>3. CASE Create
  BY <1>3 DEF Create, CreateFile
<1>4. CASE Delete
  BY <1>4 DEF Delete, DeleteFile
<1>5. CASE CreateWrite
  BY <1>5 DEF CreateWrite, CreateFile
<1>6. CASE Fill
  BY <1>6 DEF Fill
<1>7. CASE Write
  BY <1>7 DEF Write
<1>8. CASE DeleteWrite
  BY <1>8 DEF DeleteWrite, DeleteFile
<1> QED BY <1>1, <1>2, <1>3, <1>4, <1>5, <1>6, <1>7, <1>8 DEF Quiet

(* What a test found open stays open. *)
LEMMA OwnKept == TypeOK /\ Control /\ Holds /\ OwnIInv /\ [Next]_vars => OwnIInv'
<1> SUFFICES ASSUME TypeOK, Control, Holds, OwnIInv, [Next]_vars PROVE OwnIInv'
  OBVIOUS
<1> USE NoErrorOpen DEF OwnIInv
<1>1. CASE Begin
  BY <1>1 DEF Begin, NoFile, Holds
<1>2. CASE OpenTested
  BY <1>2, OpenTestedMoves DEF Opened, Untouched, Ended
<1>3. CASE OpenFs
  BY <1>3, OpenFsMoves DEF Opened, Untouched, Ended
<1>4. CASE OpenFile \/ Reopen
  BY <1>4, OpenFileMoves DEF Opened, Untouched
<1>5. CASE CloseTested
  BY <1>5, CloseTestedMoves DEF Closed, NotClosed, Untouched, Ended
<1>6. CASE CloseFs \/ CloseFilled \/ CloseWritten \/ CloseFile
  BY <1>6, CloseOtherMoves DEF Closed, NotClosed, Untouched, Ended
<1>7. CASE Quiet
  BY <1>7, QuietMoves DEF Untouched, Ended
<1>8. CASE UNCHANGED vars
  BY <1>8 DEF vars
<1> QED BY <1>1, <1>2, <1>3, <1>4, <1>5, <1>6, <1>7, <1>8 DEF Next, Done, Quiet

-----------------------------------------------------------------------------
(* A step leaves at most one more descriptor behind, and then either a Close of  *)
(* it failed or a test that reads has returned.                              *)
LEMMA LeaksMove ==
    ASSUME TypeOK, Control, Holds, [Next]_vars
    PROVE  \/ Leaked' \subseteq Leaked /\ badCloses' \in {badCloses, badCloses + 1} /\ k' \in {k, k + 1}
           \/ /\ \E q : Leaked' \subseteq Leaked \cup {q}
              /\ badCloses' = badCloses + 1 /\ k' \in {k, k + 1}
           \/ /\ \E q : Leaked' \subseteq Leaked \cup {q}
              /\ badCloses' = badCloses /\ k' = k + 1 /\ Kind = "reads"
<1> USE NoErrorOpen DEF Leaked, Holds, FileHeld, Unshared
<1>1. CASE Begin
  BY <1>1 DEF Begin, NoFile
<1>2. CASE OpenTested
  BY <1>2, OpenTestedMoves DEF Opened, Untouched, Ended
<1>3. CASE OpenFs
  <2>1. FirstStep # "close_file"
    BY DEF FirstStep
  <2> QED BY <1>3, <2>1, OpenFsMoves DEF Opened, Untouched, Ended
<1>4. CASE OpenFile \/ Reopen
  BY <1>4, OpenFileMoves DEF Opened, Untouched
<1>5. CASE CloseTested
  BY <1>5, CloseTestedMoves DEF Closed, NotClosed, Untouched, Ended
<1>6. CASE CloseFs \/ CloseFilled \/ CloseWritten \/ CloseFile
  BY <1>6, CloseOtherMoves DEF Closed, NotClosed, Untouched, Ended
<1>7. CASE Quiet
  BY <1>7, QuietMoves DEF Untouched, Ended
<1>8. CASE UNCHANGED vars
  BY <1>8 DEF vars
<1> QED BY <1>1, <1>2, <1>3, <1>4, <1>5, <1>6, <1>7, <1>8 DEF Next, Done, Quiet

(* Sets of descriptors are finite. *)
LEMMA FdsFinite ==
    /\ IsFiniteSet(Fds) /\ Cardinality(Fds) = NumFds
    /\ \A S : S \subseteq Fds => IsFiniteSet(S) /\ Cardinality(S) \in Nat
<1>1. \A a, b \in Int : IsFiniteSet(a .. b) /\ Cardinality(a .. b) = IF a > b THEN 0 ELSE b - a + 1
  BY FS_Interval
<1>2. NumFds \in Nat \ {0} /\ 0 \in Int /\ NumFds - 1 \in Int
  BY FdsExist
<1>3. IsFiniteSet(Fds) /\ Cardinality(Fds) = IF 0 > NumFds - 1 THEN 0 ELSE NumFds - 1 - 0 + 1
  BY <1>1, <1>2, Zenon DEF Fds
<1>4. ASSUME NEW S, S \subseteq Fds PROVE IsFiniteSet(S) /\ Cardinality(S) \in Nat
  <2>1. IsFiniteSet(S)
    BY <1>3, <1>4, FS_Subset
  <2> QED BY <2>1, FS_CardinalityType
<1> QED BY <1>2, <1>3, <1>4

LEMMA LeakKept == TypeOK /\ Control /\ Holds /\ LeakIInv /\ [Next]_vars => LeakIInv'
<1> SUFFICES ASSUME TypeOK, Control, Holds, LeakIInv, [Next]_vars PROVE LeakIInv'
  OBVIOUS
<1>1. IsFiniteSet(Leaked) /\ Cardinality(Leaked) \in Nat
  BY FdsFinite DEF Leaked, TypeOK, FdsTypeOK
<1>2. TypeOK' /\ Control'
  BY TypesKept, ControlKept
<1>3. Cardinality(Leaked') \in Nat
  BY <1>2, FdsFinite DEF Leaked, TypeOK, FdsTypeOK
<1>4. ASSUME Leaked' \subseteq Leaked PROVE Cardinality(Leaked') <= Cardinality(Leaked)
  BY <1>1, <1>4, FS_Subset
<1>5. ASSUME NEW q, Leaked' \subseteq Leaked \cup {q}
      PROVE  Cardinality(Leaked') <= Cardinality(Leaked) + 1
  <2>1. /\ IsFiniteSet(Leaked \cup {q})
        /\ Cardinality(Leaked \cup {q}) \in {Cardinality(Leaked), Cardinality(Leaked) + 1}
    BY <1>1, FS_AddElement
  <2>2. Cardinality(Leaked') <= Cardinality(Leaked \cup {q})
    BY <1>5, <2>1, FS_Subset
  <2> QED BY <1>1, <1>3, <2>1, <2>2
<1>6. /\ k \in 1 .. 46 /\ k' \in 1 .. 46 /\ badCloses \in Nat
      /\ Cardinality(Leaked) <= ReadsBefore(k) + badCloses
  BY <1>2, BadClosesCounted DEF Control, TypeOK, FdsTypeOK, LeakIInv
<1>7. ReadsBefore(k) \in Nat /\ ReadsBefore(k') \in Nat
  <2>1. ReadsBefore(k) \in 0 .. 18 /\ ReadsBefore(k') \in 0 .. 18
    BY <1>6, ReadsCounted, Zenon
  <2> QED BY <2>1
<1>8. k' = k + 1 => ReadsBefore(k') = ReadsBefore(k) + IF Kind = "reads" THEN 1 ELSE 0
  BY <1>6, ReadsCounted DEF Kind
<1>9. SUFFICES Cardinality(Leaked') <= ReadsBefore(k') + badCloses'
  BY DEF LeakIInv
<1>10. k' = k => ReadsBefore(k') = ReadsBefore(k)
  OBVIOUS
<1> HIDE DEF Leaked, LeakIInv
<1>11. CASE Leaked' \subseteq Leaked /\ badCloses' \in {badCloses, badCloses + 1} /\ k' \in {k, k + 1}
  <2>1. Cardinality(Leaked') <= Cardinality(Leaked) /\ ReadsBefore(k') >= ReadsBefore(k)
    BY <1>4, <1>7, <1>8, <1>10, <1>11
  <2> QED BY <1>1, <1>3, <1>6, <1>7, <1>11, <2>1
<1>12. CASE /\ \E q : Leaked' \subseteq Leaked \cup {q}
            /\ badCloses' = badCloses + 1 /\ k' \in {k, k + 1}
  <2>1. Cardinality(Leaked') <= Cardinality(Leaked) + 1 /\ ReadsBefore(k') >= ReadsBefore(k)
    BY <1>5, <1>7, <1>8, <1>10, <1>12
  <2> QED BY <1>1, <1>3, <1>6, <1>7, <1>12, <2>1
<1>13. CASE /\ \E q : Leaked' \subseteq Leaked \cup {q}
            /\ badCloses' = badCloses /\ k' = k + 1 /\ Kind = "reads"
  <2>1. Cardinality(Leaked') <= Cardinality(Leaked) + 1 /\ ReadsBefore(k') = ReadsBefore(k) + 1
    BY <1>5, <1>8, <1>13
  <2> QED BY <1>1, <1>3, <1>6, <1>7, <1>13, <2>1
<1> QED BY <1>11, <1>12, <1>13, LeaksMove

(* A table of the size IOS has is full only after a fifth failing Close. *)
LEMMA RoomLeft ==
    ASSUME TypeOK, Control, Holds, LeakIInv, NumFds >= 24, badCloses <= 4,
           pc \in {"open", "open_fs", "open_file", "reopen"}
    PROVE  table # Fds
<1>1. Leaked \subseteq table /\ table \subseteq Leaked \cup {fd}
  BY DEF Leaked, Holds, FileHeld
<1>2. IsFiniteSet(Leaked) /\ Cardinality(Leaked) \in Nat /\ Cardinality(table) \in Nat
  BY <1>1, FdsFinite DEF TypeOK, FdsTypeOK
<1>3. /\ IsFiniteSet(Leaked \cup {fd})
      /\ Cardinality(Leaked \cup {fd}) \in {Cardinality(Leaked), Cardinality(Leaked) + 1}
  BY <1>2, FS_AddElement
<1>4. Cardinality(table) <= Cardinality(Leaked \cup {fd})
  BY <1>1, <1>3, FS_Subset
<1>5. Cardinality(Leaked) <= ReadsBefore(k) + badCloses /\ ReadsBefore(k) \in 0 .. 18
      /\ badCloses \in Nat
  <2>1. k \in 1 .. 46 /\ badCloses \in 0 .. MaxBadCloses
    BY DEF Control, TypeOK, FdsTypeOK
  <2>2. ReadsBefore(k) \in 0 .. 18
    BY <2>1, ReadsCounted, Zenon
  <2>3. Cardinality(Leaked) <= ReadsBefore(k) + badCloses
    BY DEF LeakIInv
  <2> QED BY <2>1, <2>2, <2>3, BadClosesCounted
<1>6. Cardinality(table) <= 23
  BY <1>2, <1>3, <1>4, <1>5
<1> QED BY <1>6, FdsFinite, FdsExist

-----------------------------------------------------------------------------
(* The file in /tmp is as the next command of TestWrites wants it. *)
LEMMA FilesKept == TypeOK /\ FilesIInv /\ [Next]_vars => FilesIInv'
<1> SUFFICES ASSUME TypeOK, FilesIInv, [Next]_vars PROVE FilesIInv'
  OBVIOUS
<1> USE DEF FilesIInv, MeasuresMode, Goto, Running
<1>1. files \in [Temp -> {"none", "empty", "full"}] /\ "writetest" \in Temp
  BY DEF TypeOK, Temp
<1>2. CASE Begin
  BY <1>2 DEF Begin
<1>3. CASE OpenTested
  BY <1>3, OpenTestedMoves DEF Ended
<1>4. CASE ReadFirst \/ Seek \/ Read
  BY <1>4 DEF ReadFirst, Seek, Read, ReadStep, ReturnNothing, Finish
<1>5. CASE CloseTested
  BY <1>5, CloseTestedMoves DEF Ended
<1>6. CASE OpenFs
  <2>1. FirstStep \in {"create", "get_metadata", "create_file"}
    BY DEF FirstStep
  <2> QED BY <1>6, <2>1, OpenFsMoves DEF Ended
<1>7. CASE CloseFs \/ CloseFilled \/ CloseWritten \/ CloseFile
  BY <1>7, CloseOtherMoves DEF Ended
<1>8. CASE GetMetadata
  BY <1>8 DEF GetMetadata, Iterate
<1>9. CASE Create \/ Delete
  BY <1>9 DEF Create, Delete, Iterate
<1>10. CASE CreateWrite
  BY <1>1, <1>10 DEF CreateWrite, CreateFile
<1>11. CASE OpenFile
  <2>1. pc = "open_file"
    BY <1>11 DEF OpenFile, OpenStep
  <2> QED BY <1>11, <2>1, OpenFileMoves
<1>12. CASE Reopen
  <2>1. pc = "reopen"
    BY <1>12 DEF Reopen, OpenStep
  <2> QED BY <1>12, <2>1, OpenFileMoves
<1>13. CASE Fill
  BY <1>1, <1>13 DEF Fill
<1>14. CASE Write
  BY <1>14 DEF Write
<1>15. CASE DeleteWrite
  BY <1>15 DEF DeleteWrite, Iterate
<1>16. CASE UNCHANGED vars
  BY <1>16 DEF vars
<1> QED
  BY <1>2, <1>3, <1>4, <1>5, <1>6, <1>7, <1>8, <1>9, <1>10, <1>11, <1>12, <1>13, <1>14, <1>15,
     <1>16 DEF Next, Done

-----------------------------------------------------------------------------
(* What makes a command fail is remembered. *)
LEMMA CommandFaults ==
    ASSUME NEW can \in BOOLEAN, NEW ok \in BOOLEAN, Command(can, ok)
    PROVE  (faulted => faulted') /\ (can /\ ~ok => faulted') /\ (ok => can) /\ badCloses' = badCloses
  BY Zenon DEF Command

LEMMA OpenFaults ==
    ASSUME TypeOK, NEW there \in BOOLEAN, NEW result \in Results, Open(there, result)
    PROVE  /\ faulted => faulted'
           /\ there /\ table # Fds /\ result = Error => faulted'
           /\ badCloses' = badCloses
<1>1. CASE IsLowestFree(result) /\ UNCHANGED <<faulted, badCloses>>
  <2>1. result # Error
    BY <1>1, FdsExist DEF IsLowestFree, Fds, Error
  <2> QED BY <1>1, <2>1
<1>2. CASE faulted' = (faulted \/ (there /\ table # Fds)) /\ UNCHANGED badCloses
  BY <1>2, Zenon
<1> QED BY <1>1, <1>2 DEF Open

LEMMA CloseFaults ==
    ASSUME TypeOK, NEW q, NEW ok \in BOOLEAN, Close(q, ok)
    PROVE  /\ faulted => faulted'
           /\ q \in table /\ ~ok => faulted'
           /\ badCloses' \in Nat /\ (badCloses' <= 4 => badCloses <= 4)
<1>1. badCloses \in Nat
  BY BadClosesCounted DEF TypeOK, FdsTypeOK
<1> QED BY <1>1, CloseMoves DEF Close, fdVars

(* What a step that is not the first of a test owes. *)
Excuse ==
    \/ faulted'
    \/ Kind = "create" /\ inherited.files["test"] # "none"
    \/ Kind = "writes" /\ inherited.files["writetest"] # "none"
StepExplained ==
    /\ UNCHANGED inherited
    /\ pc' # "open_fs"
    /\ k' = IF pc' = "idle" THEN k + 1 ELSE k
    /\ pc' = "create" =>
          faulted' \/ files'["test"] = "none" \/ inherited.files["test"] # "none"
    /\ pc' = "delete" => files'["test"] # "none"
    /\ pc' = "create_file" =>
          faulted' \/ files'["writetest"] = "none" \/ inherited.files["writetest"] # "none"
    /\ pc' \in {"idle", "close_fs", "close_file"} /\ badCloses' <= 4 => ticks' = Repeats \/ Excuse

LEMMA TestedExplained ==
    ASSUME TypeOK, Control, Holds, LeakIInv, NumFds >= 24,
           OpenTested \/ ReadFirst \/ Seek \/ Read \/ CloseTested
    PROVE  StepExplained
<1> USE DEF StepExplained, Excuse
<1>1. i \in Nat /\ Repeats \in Nat /\ i < Repeats /\ ticks = i /\ k \in 1 .. 45
  <2>1. pc \in {"open", "read_first", "seek", "read", "close"}
    BY DEF Running, OpenTested, ReadFirst, Seek, Read, ReadStep, CloseTested
  <2> QED BY <2>1, RepeatsSome DEF Control
<1>2. ASSUME Record, IterateOrReturn
      PROVE  /\ pc' \in {"open", "idle"} /\ k' = IF pc' = "idle" THEN k + 1 ELSE k
             /\ pc' = "idle" => ticks' = Repeats
  <2>1. i + 1 < Repeats \/ i + 1 = Repeats
    BY <1>1
  <2> QED BY <1>1, <1>2, <2>1 DEF Record, IterateOrReturn, Iterate, Finish
<1>3. CASE OpenTested
  <2>1. PICK result \in Results :
          /\ Open(Tests[k].kind # "opens" \/ Tests[k].flag, result)
          /\ \/ result # Error /\ UNCHANGED k /\ pc' \in {"close", "read_first", "read"}
             \/ result = Error /\ Tests[k] # Test("opens", FALSE) /\ ReturnNothing
             \/ Record /\ IterateOrReturn
    BY <1>3 DEF OpenTested, Goto
  <2>2. pc = "open" /\ UNCHANGED inherited
    BY <1>3 DEF OpenTested
  <2>3. Tests[k].flag \in BOOLEAN /\ Tests[k] = Test(Tests[k].kind, Tests[k].flag)
    BY <1>1, TestsListed
  <2>4. Tests[k] # Test("opens", FALSE) => Tests[k].kind # "opens" \/ Tests[k].flag
    BY <2>3, Zenon
  <2>5. CASE result = Error /\ Tests[k] # Test("opens", FALSE) /\ ReturnNothing
    <3>1. (Tests[k].kind # "opens" \/ Tests[k].flag) \in BOOLEAN
      OBVIOUS
    <3>2. badCloses' = badCloses /\ (table # Fds => faulted')
      BY <2>1, <2>4, <2>5, <3>1, OpenFaults
    <3>3. badCloses <= 4 => table # Fds
      BY <2>2, RoomLeft
    <3>4. pc' = "idle" /\ k' = k + 1
      BY <2>5 DEF ReturnNothing, Finish
    <3> QED BY <2>2, <3>2, <3>3, <3>4
  <2> QED BY <1>2, <2>1, <2>2, <2>5
<1>4. CASE ReadFirst \/ Seek \/ Read
  <2>1. /\ pc \in {"read_first", "seek", "read"} /\ UNCHANGED inherited
        /\ \E ok \in BOOLEAN :
            /\ Command(fd \in table, ok)
            /\ \/ ok /\ UNCHANGED k /\ pc' \in {"seek", "read", "close"}
               \/ ~ok /\ pc' = "idle" /\ k' = k + 1
    BY <1>4 DEF ReadFirst, Seek, Read, ReadStep, Running, Goto, ReturnNothing, Finish
  <2>2. fd \in table
    BY <2>1 DEF Holds
  <2>3. PICK ok \in BOOLEAN :
            /\ Command(fd \in table, ok)
            /\ \/ ok /\ UNCHANGED k /\ pc' \in {"seek", "read", "close"}
               \/ ~ok /\ pc' = "idle" /\ k' = k + 1
    BY <2>1
  <2>4. ~ok => faulted'
    BY <2>2, <2>3, CommandFaults
  <2> QED BY <2>1, <2>3, <2>4
<1>5. CASE CloseTested
  <2>1. PICK ok \in BOOLEAN :
          /\ Close(fd, ok)
          /\ IF ok THEN Record /\ IterateOrReturn ELSE ReturnNothing
    BY <1>5 DEF CloseTested
  <2>2. pc = "close" /\ UNCHANGED inherited
    BY <1>5 DEF CloseTested
  <2>3. fd \in table
    BY <2>2 DEF Holds
  <2>4. ~ok => faulted'
    BY <2>1, <2>3, CloseFaults
  <2> QED BY <1>2, <2>1, <2>2, <2>4 DEF ReturnNothing, Finish
<1> QED BY <1>3, <1>4, <1>5

LEMMA HoldingExplained ==
    ASSUME TypeOK, Control, Holds, LeakIInv, ExplainedIInv, NumFds >= 24,
           OpenFs \/ CloseFs \/ GetMetadata \/ Create \/ Delete \/ CloseFile
    PROVE  StepExplained
<1> USE DEF StepExplained, Excuse
<1>1. /\ i \in Nat /\ Repeats \in Nat /\ k \in 1 .. 45
      /\ pc \in {"create", "delete", "get_metadata"} => i < Repeats /\ ticks = i
      /\ files \in [Temp -> {"none", "empty", "full"}] /\ "test" \in Temp
  <2>1. pc # "idle"
    BY DEF Running, OpenFs, CloseFs, GetMetadata, Create, Delete, CloseFile
  <2>2. files \in [Temp -> {"none", "empty", "full"}] /\ "test" \in Temp
    BY DEF TypeOK, Temp
  <2> QED BY <2>1, <2>2, RepeatsSome DEF Control
<1>2. i < Repeats => i + 1 < Repeats \/ i + 1 = Repeats
  BY <1>1
<1>3. CASE OpenFs
  <2>1. PICK result \in Results :
          /\ Open(TRUE, result)
          /\ \/ UNCHANGED k /\ pc' = FirstStep
             \/ result = Error /\ pc' = "idle" /\ k' = k + 1
    BY <1>3 DEF OpenFs, Goto, ReturnNothing, Finish
  <2>2. pc = "open_fs" /\ UNCHANGED <<inherited, files>>
    BY <1>3 DEF OpenFs
  <2>3. files = inherited.files
    BY <2>2 DEF ExplainedIInv
  <2>4. CASE UNCHANGED k /\ pc' = FirstStep
    <3>1. FirstStep \in {"create", "get_metadata", "create_file"}
      BY DEF FirstStep
    <3> QED BY <2>2, <2>3, <2>4, <3>1
  <2>5. CASE result = Error /\ pc' = "idle" /\ k' = k + 1
    <3>1. badCloses' = badCloses /\ (table # Fds => faulted')
      BY <2>1, <2>5, OpenFaults
    <3>2. badCloses <= 4 => table # Fds
      BY <2>2, RoomLeft
    <3> QED BY <2>2, <2>5, <3>1, <3>2
  <2> QED BY <2>1, <2>4, <2>5
<1>4. CASE CloseFs \/ CloseFile
  <2>1. /\ pc \in {"close_fs", "close_file"} /\ UNCHANGED <<inherited, ticks>>
        /\ \/ pc' = "close_file" /\ UNCHANGED k
           \/ pc' = "idle" /\ k' = k + 1
        /\ \E q : \E ok \in BOOLEAN : Close(q, ok)
    BY <1>4 DEF CloseFs, CloseFile, Running, Goto, Return, Finish
  <2>2. (faulted => faulted') /\ (badCloses' <= 4 => badCloses <= 4)
    BY <2>1, CloseFaults
  <2>3. badCloses <= 4 => ticks = Repeats \/ Explained(k)
    BY <2>1 DEF ExplainedIInv
  <2>4. Explained(k) => Excuse
    BY <2>2 DEF Explained, Kind
  <2> QED BY <2>1, <2>2, <2>3, <2>4
<1>5. CASE GetMetadata
  <2>1. PICK ok \in BOOLEAN :
          /\ Command(TRUE, ok)
          /\ \/ ok /\ Record /\ Iterate("get_metadata", "close_fs")
             \/ ~ok /\ pc' = "close_fs" /\ UNCHANGED k
    BY <1>5 DEF GetMetadata
  <2>2. ~ok => faulted'
    BY <2>1, CommandFaults
  <2>3. pc = "get_metadata" /\ UNCHANGED inherited
    BY <1>5 DEF GetMetadata, Running
  <2> QED BY <1>1, <1>2, <2>1, <2>2, <2>3 DEF Record, Iterate
<1>6. CASE Create
  <2>1. PICK ok \in BOOLEAN : CreateFile("test", ok) /\ Goto(IF ok THEN "delete" ELSE "close_fs")
    BY <1>6 DEF Create
  <2>2. pc = "create" /\ UNCHANGED inherited /\ Kind = "create"
    BY <1>6 DEF Create, Running, Kind
  <2>3. (files["test"] = "none") \in BOOLEAN
    OBVIOUS
  <2>4. (faulted => faulted') /\ (files["test"] = "none" /\ ~ok => faulted')
    BY <2>1, <2>3, CommandFaults DEF CreateFile
  <2>5. ok => files'["test"] = "empty"
    BY <1>1, <2>1 DEF CreateFile
  <2>6. ~ok => Excuse
    BY <2>2, <2>4 DEF ExplainedIInv
  <2> QED BY <2>1, <2>2, <2>5, <2>6 DEF Goto
<1>7. CASE Delete
  <2>1. PICK ok \in BOOLEAN :
         /\ DeleteFile("test", ok)
         /\ IF ok THEN Record /\ Iterate("create", "close_fs") ELSE Goto("close_fs")
    BY <1>7 DEF Delete
  <2>2. pc = "delete" /\ UNCHANGED inherited
    BY <1>7 DEF Delete, Running
  <2>3. files["test"] # "none" /\ (files["test"] # "none") \in BOOLEAN
    BY <2>2 DEF ExplainedIInv
  <2>4. ~ok => faulted'
    BY <2>1, <2>3, CommandFaults DEF DeleteFile
  <2>5. ok => files'["test"] = "none"
    BY <1>1, <2>1 DEF DeleteFile
  <2> QED BY <1>1, <1>2, <2>1, <2>2, <2>4, <2>5 DEF Record, Iterate, Goto
<1> QED BY <1>3, <1>4, <1>5, <1>6, <1>7

LEMMA WritesExplained ==
    ASSUME TypeOK, Control, Holds, LeakIInv, FilesIInv, ExplainedIInv, NumFds >= 24,
           \/ CreateWrite \/ OpenFile \/ Fill \/ CloseFilled \/ Reopen
           \/ Write \/ CloseWritten \/ DeleteWrite
    PROVE  StepExplained
<1> USE DEF StepExplained, Excuse
<1>1. /\ i \in Nat /\ Repeats \in Nat /\ k \in 1 .. 45
      /\ pc = "delete_file" => i < Repeats /\ ticks = i + 1
      /\ files \in [Temp -> {"none", "empty", "full"}] /\ "writetest" \in Temp
  <2>1. pc # "idle"
    BY DEF Running, CreateWrite, OpenFile, Fill, CloseFilled, Reopen, Write, CloseWritten,
           DeleteWrite, OpenStep
  <2>2. files \in [Temp -> {"none", "empty", "full"}] /\ "writetest" \in Temp
    BY DEF TypeOK, Temp
  <2> QED BY <2>1, <2>2, RepeatsSome DEF Control
<1>2. CASE CreateWrite
  <2>1. PICK ok \in BOOLEAN :
          CreateFile("writetest", ok) /\ Goto(IF ok THEN "open_file" ELSE "close_fs")
    BY <1>2 DEF CreateWrite
  <2>2. pc = "create_file" /\ UNCHANGED inherited /\ Kind = "writes"
    BY <1>2 DEF CreateWrite, Running, Kind
  <2>3. (files["writetest"] = "none") \in BOOLEAN
    OBVIOUS
  <2>4. (faulted => faulted') /\ (files["writetest"] = "none" /\ ~ok => faulted')
    BY <2>1, <2>3, CommandFaults DEF CreateFile
  <2>5. ~ok => Excuse
    BY <2>2, <2>4 DEF ExplainedIInv
  <2> QED BY <2>1, <2>2, <2>5 DEF Goto
<1>3. CASE OpenFile \/ Reopen
  <2>1. /\ pc \in {"open_file", "reopen"} /\ UNCHANGED <<inherited, k>>
        /\ \E result \in Results :
              /\ Open(files["writetest"] # "none", result)
              /\ \/ result # Error /\ pc' \in {"fill", "write"}
                 \/ result = Error /\ pc' = "close_fs"
    BY <1>3 DEF OpenFile, Reopen, OpenStep, Running, Goto
  <2>2. files["writetest"] # "none" /\ (files["writetest"] # "none") \in BOOLEAN
    BY <2>1 DEF FilesIInv
  <2>3. PICK result \in Results :
              /\ Open(files["writetest"] # "none", result)
              /\ \/ result # Error /\ pc' \in {"fill", "write"}
                 \/ result = Error /\ pc' = "close_fs"
    BY <2>1
  <2>4. badCloses' = badCloses /\ (table # Fds /\ result = Error => faulted')
    BY <2>2, <2>3, OpenFaults
  <2>5. badCloses <= 4 => table # Fds
    BY <2>1, RoomLeft
  <2> QED BY <2>1, <2>3, <2>4, <2>5
<1>4. CASE Fill \/ Write
  <2>1. /\ pc \in {"fill", "write"} /\ UNCHANGED <<inherited, k>>
        /\ \E ok \in BOOLEAN :
              /\ Command(file_fd \in table, ok)
              /\ pc' = IF ok THEN IF pc = "fill" THEN "close_filled" ELSE "close_written" ELSE "close_fs"
    BY <1>4 DEF Fill, Write, Running, Goto
  <2>2. file_fd \in table
    BY <2>1 DEF Holds, FileHeld
  <2>3. PICK ok \in BOOLEAN :
              /\ Command(file_fd \in table, ok)
              /\ pc' = IF ok THEN IF pc = "fill" THEN "close_filled" ELSE "close_written" ELSE "close_fs"
    BY <2>1
  <2>4. ~ok => faulted'
    BY <2>2, <2>3, CommandFaults
  <2> QED BY <2>1, <2>3, <2>4
<1>5. CASE CloseFilled \/ CloseWritten
  <2>1. /\ pc \in {"close_filled", "close_written"} /\ UNCHANGED <<inherited, k>>
        /\ \E ok \in BOOLEAN :
              /\ Close(file_fd, ok)
              /\ pc' = IF ok THEN IF pc = "close_filled" THEN "reopen" ELSE "delete_file" ELSE "close_fs"
    BY <1>5 DEF CloseFilled, CloseWritten, Running, Goto
  <2>2. file_fd \in table
    BY <2>1 DEF Holds, FileHeld
  <2>3. PICK ok \in BOOLEAN :
              /\ Close(file_fd, ok)
              /\ pc' = IF ok THEN IF pc = "close_filled" THEN "reopen" ELSE "delete_file" ELSE "close_fs"
    BY <2>1
  <2>4. ~ok => faulted'
    BY <2>2, <2>3, CloseFaults
  <2> QED BY <2>1, <2>3, <2>4
<1>6. CASE DeleteWrite
  <2>1. PICK ok \in BOOLEAN : DeleteFile("writetest", ok)
    BY <1>6 DEF DeleteWrite
  <2>2. (files["writetest"] # "none") \in BOOLEAN
    OBVIOUS
  <2>3. files["writetest"] # "none" /\ ~ok => faulted'
    BY <2>1, <2>2, CommandFaults DEF DeleteFile
  <2>4. files'["writetest"] = IF ok THEN "none" ELSE files["writetest"]
    BY <1>1, <2>1 DEF DeleteFile
  <2>5. faulted' \/ files'["writetest"] = "none"
    BY <2>3, <2>4
  <2>6. /\ pc = "delete_file" /\ UNCHANGED <<inherited, ticks, k>>
        /\ pc' = IF i + 1 < Repeats THEN "create_file" ELSE "close_fs"
    BY <1>6 DEF DeleteWrite, Running, Iterate
  <2>7. i + 1 < Repeats \/ i + 1 = Repeats
    BY <1>1, <2>6
  <2> QED BY <1>1, <2>5, <2>6, <2>7
<1> QED BY <1>2, <1>3, <1>4, <1>5, <1>6

LEMMA ExplainedKept ==
    ASSUME TypeOK, Control, Holds, LeakIInv, FilesIInv, ExplainedIInv, NumFds >= 24, [Next]_vars
    PROVE  ExplainedIInv'
<1>1. k \in 1 .. 46 /\ k + 1 - 1 = k
  BY DEF Control
<1>2. CASE StepExplained
  <2>1. UNCHANGED inherited
    BY <1>2 DEF StepExplained
  <2>2. ASSUME pc' \in {"close_fs", "close_file"} /\ badCloses' <= 4
        PROVE  ticks' = Repeats \/ Explained(k)'
    <3>1. k' = k /\ (ticks' = Repeats \/ Excuse)
      BY <1>2, <2>2 DEF StepExplained
    <3> QED BY <2>1, <3>1 DEF Excuse, Explained, Kind
  <2>3. ASSUME pc' = "idle" /\ badCloses' <= 4 /\ ticks' < Repeats
        PROVE  Explained(k - 1)'
    <3>1. k' = k + 1 /\ (ticks' = Repeats \/ Excuse)
      BY <1>2, <2>3 DEF StepExplained
    <3>2. k' - 1 = k /\ ticks' # Repeats
      BY <1>1, <2>3, <3>1, RepeatsSome
    <3> QED BY <2>1, <3>1, <3>2 DEF Excuse, Explained, Kind
  <2>4. FailureExplained'
    BY <2>3 DEF FailureExplained, Explained
  <2> QED BY <1>2, <2>1, <2>2, <2>4 DEF StepExplained, ExplainedIInv
<1>3. CASE Begin
  <2>1. pc' \in {"open", "open_fs"} /\ inherited'.files = files'
    BY <1>3 DEF Begin
  <2> QED BY <2>1 DEF ExplainedIInv, FailureExplained
<1>4. CASE UNCHANGED vars
  BY <1>4 DEF vars, ExplainedIInv, FailureExplained, Explained
<1> QED
  BY <1>2, <1>3, <1>4, TestedExplained, HoldingExplained, WritesExplained DEF Next, Done

-----------------------------------------------------------------------------
LEMMA FsInvariant == Spec => []FsIInv
<1>1. Init => FsIInv
  BY FsInitIInv
<1>2. FsIInv /\ [Next]_vars => FsIInv'
  BY TypesKept, ControlKept, HoldsKept, OwnKept, LeakKept, FilesKept DEF FsIInv
<1> QED BY <1>1, <1>2, PTL DEF Spec

(* Whatever fails, every variable of the tests keeps its type. *)
THEOREM FsTypeCorrect == Spec => []TypeOK
<1>1. FsIInv => TypeOK
  BY DEF FsIInv
<1> QED BY <1>1, FsInvariant, PTL

(* However large the table and however many commands fail, what was open when   *)
(* a test began is still open: TestWrites' last Close is of a descriptor of its  *)
(* own, or of a number that is not open.                                     *)
THEOREM TestsCloseTheirOwn == Spec => []OwnCloses
<1>1. FsIInv => OwnCloses
  BY DEF FsIInv, OwnIInv, OwnCloses
<1> QED BY <1>1, FsInvariant, PTL

(* The write that TestWrites times always goes to a file in the state that its  *)
(* mode names, whatever the tests before it left in /tmp.                     *)
THEOREM WritesMeasureTheirMode == Spec => []MeasuresMode
<1>1. FsIInv => MeasuresMode
  BY DEF FsIInv, FilesIInv
<1> QED BY <1>1, FsInvariant, PTL

(* Only TestReads leaves a descriptor behind, one a test at most, so that in a  *)
(* table of IOS's 24 entries there is always one free, as long as no more than   *)
(* four Close commands have failed.                                         *)
THEOREM OnlyTestReadsLeaks ==
    ASSUME NumFds >= 24
    PROVE  Spec => []OnlyReadsLeak
<1>1. ASSUME FsIInv PROVE OnlyReadsLeak
  <2>1. TypeOK /\ Control /\ Holds /\ LeakIInv
    BY <1>1 DEF FsIInv
  <2>2. ASSUME pc = "idle" PROVE Cardinality(table) <= ReadsBefore(k) + badCloses
    <3>1. Leaked = table
      BY <2>1, <2>2, NoErrorOpen DEF Leaked, Holds, Unshared
    <3> QED BY <2>1, <3>1 DEF LeakIInv
  <2>3. ASSUME badCloses <= 4 /\ pc \in {"open", "open_fs", "open_file", "reopen"}
        PROVE  table # Fds
    BY <2>1, <2>3, RoomLeft
  <2> QED BY <2>2, <2>3 DEF OnlyReadsLeak
<1> QED BY <1>1, FsInvariant, PTL

(* A test that recorded too little had a command of its own fail, or found the  *)
(* file it creates in /tmp; what the tests before it leaked is no reason.        *)
THEOREM FailuresAreOwn ==
    ASSUME NumFds >= 24
    PROVE  Spec => []FailureExplained
<1>1. Init => FsIInv /\ ExplainedIInv
  BY FsInitIInv
<1>2. FsIInv /\ ExplainedIInv /\ [Next]_vars => FsIInv' /\ ExplainedIInv'
  BY TypesKept, ControlKept, HoldsKept, OwnKept, LeakKept, FilesKept, ExplainedKept DEF FsIInv
<1>3. ExplainedIInv => FailureExplained
  BY DEF ExplainedIInv
<1> QED BY <1>1, <1>2, <1>3, PTL DEF Spec

(***************************************************************************)
(* IpcTiming                                                               *)
(***************************************************************************)
(* What an iteration of the test that fills the table has done to it by now. *)
Filled == call = "fill" /\ ~faulted => 0 .. j - 1 \subseteq table
Full == call = "measure" /\ ~faulted => table = Fds
Emptied == call = "close" => Cardinality(table \cap 0 .. j - 1) <= badCloses - badBefore
IpcIInv ==
    /\ IpcTypeOK
    /\ call \in {"fill", "measure", "close"} => iteration < Repeats
    /\ call = "measure" => j = 0
    /\ Filled /\ Full /\ Emptied
    /\ TableHeals /\ TimedOpenRefused

ipcAll == <<fdVars, ipcvars>>

(* The moves of the descriptor table again, without the variables of FsTiming. *)
LEMMA TableOpens ==
    ASSUME FdsTypeOK, NEW there \in BOOLEAN, NEW result \in Results, Open(there, result)
    PROVE  /\ FdsTypeOK' /\ badCloses' = badCloses /\ (faulted => faulted')
           /\ \/ there /\ IsLowestFree(result) /\ result # Error /\ table' = table \cup {result}
              \/ result = Error /\ table' = table /\ (there /\ table # Fds => faulted')
<1>1. CASE there /\ IsLowestFree(result) /\ table' = table \cup {result} /\ UNCHANGED <<faulted, badCloses>>
  BY <1>1, FdsExist DEF IsLowestFree, Fds, Error, FdsTypeOK
<1>2. CASE result = Error /\ faulted' = (faulted \/ (there /\ table # Fds)) /\ UNCHANGED <<table, badCloses>>
  <2>1. (faulted => faulted') /\ (there /\ table # Fds => faulted')
    BY <1>2, Zenon
  <2>2. faulted' \in BOOLEAN
    BY <1>2, Zenon
  <2> QED BY <1>2, <2>1, <2>2 DEF FdsTypeOK
<1> QED BY <1>1, <1>2 DEF Open

LEMMA TableCloses ==
    ASSUME FdsTypeOK, NEW q, NEW ok \in BOOLEAN, Close(q, ok)
    PROVE  /\ FdsTypeOK' /\ (faulted => faulted')
           /\ \/ q \notin table' /\ table' \subseteq table /\ badCloses' = badCloses
              \/ table' = table /\ badCloses' = badCloses + 1
<1>1. badCloses \in 0 .. MaxBadCloses /\ MaxBadCloses \in Nat
  BY BadClosesCounted DEF FdsTypeOK
<1>2. CASE ok /\ q \in table /\ table' = table \ {q} /\ UNCHANGED <<faulted, badCloses>>
  BY <1>2 DEF FdsTypeOK
<1>3. CASE ~ok /\ q \notin table /\ UNCHANGED fdVars
  BY <1>3 DEF FdsTypeOK, fdVars
<1>4. CASE /\ ~ok /\ q \in table /\ badCloses < MaxBadCloses
           /\ badCloses' = badCloses + 1 /\ faulted' = TRUE /\ UNCHANGED table
  BY <1>1, <1>4 DEF FdsTypeOK
<1> QED BY <1>2, <1>3, <1>4 DEF Close

LEMMA TableKept ==
    ASSUME FdsTypeOK, NEW can \in BOOLEAN, NEW ok \in BOOLEAN, Command(can, ok)
    PROVE  FdsTypeOK' /\ table' = table /\ badCloses' = badCloses /\ (faulted => faulted')
<1>1. faulted' \in BOOLEAN /\ (faulted => faulted')
  BY Zenon DEF Command
<1> QED BY <1>1 DEF Command, FdsTypeOK

LEMMA IpcInitIInv == IpcInit => IpcIInv
<1> SUFFICES ASSUME IpcInit PROVE IpcIInv
  OBVIOUS
<1>1. FdsTypeOK
  <2>1. table \subseteq Fds /\ badCloses \in 0 .. MaxBadCloses
    BY BadClosesCounted DEF IpcInit, FdsClosed
  <2>2. faulted \in BOOLEAN
    BY Zenon DEF IpcInit, FdsClosed
  <2> QED BY <2>1, <2>2 DEF FdsTypeOK
<1>2. measured \in BOOLEAN
  BY Zenon DEF IpcInit
<1>3. IpcTypeOK
  BY <1>1, <1>2, FdsExist, RepeatsSome DEF IpcInit, FdsClosed, IpcTypeOK, Calls
<1>4. Cardinality({}) = 0
  BY FS_EmptySet
<1>5. TableHeals
  BY <1>4 DEF IpcInit, FdsClosed, TableHeals
<1> QED BY <1>3, <1>5 DEF IpcInit, IpcIInv, Filled, Full, Emptied, TimedOpenRefused

LEMMA IpcIInvKept == IpcIInv /\ [IpcNext]_ipcAll => IpcIInv'
<1> SUFFICES ASSUME IpcIInv, [IpcNext]_ipcAll PROVE IpcIInv'
  OBVIOUS
<1>1. /\ FdsTypeOK /\ call \in Calls /\ iteration \in 0 .. Repeats /\ j \in 0 .. NumFds - 1
      /\ measured \in BOOLEAN /\ badBefore \in 0 .. badCloses
      /\ table \subseteq Fds /\ badCloses \in Nat /\ NumFds \in Nat \ {0} /\ Repeats \in Nat \ {0}
  BY FdsExist, RepeatsSome, BadClosesCounted DEF IpcIInv, IpcTypeOK, FdsTypeOK
<1> USE DEF Calls
<1>2. CASE BeginFull
  <2>1. FdsTypeOK'
    <3>1. faulted' \in BOOLEAN
      BY <1>2, Zenon DEF BeginFull
    <3> QED BY <1>1, <1>2, <3>1 DEF BeginFull, FdsTypeOK
  <2>2. IpcTypeOK'
    BY <1>1, <1>2, <2>1 DEF BeginFull, IpcTypeOK
  <2> QED
    BY <1>1, <1>2, <2>2 DEF BeginFull, IpcIInv, Filled, Full, Emptied, TableHeals, TimedOpenRefused
<1>3. CASE FillOpen
  <2>1. PICK result \in Results : Open(TRUE, result)
    BY <1>3 DEF FillOpen
  <2>2. FdsTypeOK' /\ badCloses' = badCloses /\ (faulted => faulted')
    BY <1>1, <2>1, TableOpens
  <2>3. call = "fill" /\ UNCHANGED <<iteration, measured, badBefore>> /\ iteration < Repeats
        /\ \/ j + 1 < NumFds /\ j' = j + 1 /\ call' = "fill"
           \/ j + 1 = NumFds /\ j' = 0 /\ call' = "measure"
    BY <1>3 DEF FillOpen, IpcIInv
  <2>4. IpcTypeOK'
    BY <1>1, <2>2, <2>3 DEF IpcTypeOK
  <2>5. ASSUME ~faulted' PROVE 0 .. j \subseteq table'
    <3>1. 0 .. j - 1 \subseteq table
      BY <2>2, <2>3, <2>5 DEF IpcIInv, Filled
    <3>2. CASE IsLowestFree(result) /\ table' = table \cup {result}
      <4>1. result \in 0 .. NumFds - 1 /\ result \notin table /\ 0 .. result - 1 \subseteq table
        BY <3>2 DEF IsLowestFree, Fds
      <4>2. j \in table \/ result = j
        BY <1>1, <3>1, <4>1
      <4> QED BY <1>1, <3>1, <3>2, <4>2
    <3>3. CASE table' = table /\ table = Fds
      BY <1>1, <3>3 DEF Fds
    <3> QED BY <1>1, <2>1, <2>5, <3>2, <3>3, TableOpens
  <2>6. Filled' /\ Full'
    <3>1. table' \subseteq Fds
      BY <2>2 DEF FdsTypeOK
    <3>2. CASE j' = j + 1 /\ call' = "fill"
      BY <1>1, <2>5, <3>2 DEF Filled, Full
    <3>3. CASE j + 1 = NumFds /\ call' = "measure"
      <4>1. 0 .. j = Fds
        BY <1>1, <3>3 DEF Fds
      <4> QED BY <2>5, <3>1, <3>3, <4>1 DEF Filled, Full
    <3> QED BY <2>3, <3>2, <3>3
  <2> QED BY <2>3, <2>4, <2>6 DEF IpcIInv, Emptied, TableHeals, TimedOpenRefused
<1>4. CASE MeasuredOpen
  <2>1. PICK result \in Results : Open(TRUE, result) /\ measured' = (result # Error)
    BY <1>4 DEF MeasuredOpen
  <2>2. FdsTypeOK' /\ badCloses' = badCloses /\ (faulted => faulted')
    BY <1>1, <2>1, TableOpens
  <2>3. call = "measure" /\ j = 0 /\ iteration < Repeats
        /\ call' = "close" /\ UNCHANGED <<iteration, j, badBefore>>
    BY <1>4 DEF MeasuredOpen, IpcIInv
  <2>4. measured' \in BOOLEAN
    BY <2>1, Zenon
  <2>5. IpcTypeOK'
    BY <1>1, <2>2, <2>3, <2>4 DEF IpcTypeOK
  <2>6. Emptied'
    <3>1. table' \cap 0 .. j' - 1 = {}
      BY <2>3
    <3>2. badCloses' - badBefore' >= 0
      BY <1>1, <2>2, <2>3
    <3> QED BY <3>1, <3>2, FS_EmptySet DEF Emptied
  <2>7. ASSUME measured', ~faulted' PROVE FALSE
    <3>1. result # Error
      BY <2>1, <2>7, Zenon
    <3>2. table = Fds
      BY <2>2, <2>3, <2>7 DEF IpcIInv, Full
    <3>3. IsLowestFree(result)
      BY <1>1, <2>1, <3>1, TableOpens
    <3> QED BY <3>2, <3>3 DEF IsLowestFree
  <2>8. TimedOpenRefused'
    BY <2>7 DEF TimedOpenRefused
  <2> QED BY <2>3, <2>5, <2>6, <2>8 DEF IpcIInv, Filled, Full, TableHeals
<1>5. CASE CloseAll
  <2>1. PICK ok \in BOOLEAN : Close(j, ok)
    BY <1>5 DEF CloseAll
  <2>2. FdsTypeOK' /\ (faulted => faulted') /\ table' \subseteq table
    BY <1>1, <2>1, TableCloses
  <2>3. call = "close" /\ iteration < Repeats /\ UNCHANGED <<measured, badBefore>>
        /\ \/ j + 1 < NumFds /\ j' = j + 1 /\ call' = "close" /\ iteration' = iteration
           \/ j + 1 = NumFds /\ j' = 0 /\ call' = "begin" /\ iteration' = iteration + 1
    BY <1>5 DEF CloseAll, IpcIInv
  <2>4. badCloses' \in {badCloses, badCloses + 1}
    BY <1>1, <2>1, TableCloses
  <2>5. IpcTypeOK'
    BY <1>1, <2>2, <2>3, <2>4 DEF IpcTypeOK
  <2>6. Cardinality(table' \cap 0 .. j) <= badCloses' - badBefore
    <3> DEFINE Before == table \cap 0 .. j - 1
               After == table' \cap 0 .. j
    <3>1. Cardinality(Before) <= badCloses - badBefore
      BY <2>3 DEF IpcIInv, Emptied
    <3>2. IsFiniteSet(Before) /\ Cardinality(Before) \in Nat /\ Cardinality(After) \in Nat
      BY <1>1, <2>2, FdsFinite
    <3>3. CASE j \notin table' /\ table' \subseteq table /\ badCloses' = badCloses
      <4>1. After \subseteq Before
        BY <1>1, <3>3
      <4>2. Cardinality(After) <= Cardinality(Before)
        BY <3>2, <4>1, FS_Subset
      <4> QED BY <1>1, <3>1, <3>2, <3>3, <4>2
    <3>4. CASE table' = table /\ badCloses' = badCloses + 1
      <4>1. After \subseteq Before \cup {j}
        BY <1>1, <3>4
      <4>2. /\ IsFiniteSet(Before \cup {j})
            /\ Cardinality(Before \cup {j}) \in {Cardinality(Before), Cardinality(Before) + 1}
        BY <3>2, FS_AddElement
      <4>3. Cardinality(After) <= Cardinality(Before \cup {j})
        BY <4>1, <4>2, FS_Subset
      <4> QED BY <1>1, <3>1, <3>2, <3>4, <4>2, <4>3
    <3> QED BY <1>1, <2>1, <3>3, <3>4, TableCloses
  <2>7. Emptied' /\ TableHeals'
    <3>1. CASE j' = j + 1 /\ call' = "close"
      <4>1. j' - 1 = j
        BY <1>1, <3>1
      <4> QED BY <2>3, <2>6, <3>1, <4>1 DEF Emptied, TableHeals
    <3>2. CASE j + 1 = NumFds /\ call' = "begin"
      <4>1. table' \cap 0 .. j = table'
        <5>1. 0 .. j = Fds
          BY <1>1, <3>2 DEF Fds
        <5> QED BY <1>1, <2>2, <5>1
      <4> QED BY <2>3, <2>6, <3>2, <4>1 DEF Emptied, TableHeals
    <3> QED BY <2>3, <3>1, <3>2
  <2>8. TimedOpenRefused'
    BY <2>2, <2>3 DEF IpcIInv, TimedOpenRefused
  <2> QED BY <1>1, <2>3, <2>5, <2>7, <2>8 DEF IpcIInv, Filled, Full
<1>6. CASE BeginInvalid
  <2>1. FdsTypeOK' /\ call = "begin" /\ call' = "invalid_open" /\ iteration' = 0
        /\ UNCHANGED <<table, badCloses, j, measured, badBefore>>
    BY <1>1, <1>6 DEF BeginInvalid, NextTest, FdsTypeOK
  <2>2. IpcTypeOK'
    BY <1>1, <2>1 DEF IpcTypeOK
  <2> QED BY <2>1, <2>2 DEF IpcIInv, Filled, Full, Emptied, TableHeals, TimedOpenRefused
<1>7. CASE InvalidOpen \/ InvalidFd0 \/ InvalidFd2000
  <2>1. FdsTypeOK' /\ table' = table /\ badCloses' = badCloses
    <3>1. CASE InvalidOpen
      <4>1. PICK result \in Results : Open(FALSE, result)
        BY <3>1 DEF InvalidOpen
      <4> QED BY <1>1, <4>1, TableOpens
    <3>2. CASE InvalidFd0 \/ InvalidFd2000
      <4>1. PICK q, ok : ok \in BOOLEAN /\ Command(q \in table, ok)
        BY <3>2, Zenon DEF InvalidFd0, InvalidFd2000, InvalidFd
      <4>2. (q \in table) \in BOOLEAN
        OBVIOUS
      <4> QED BY <1>1, <4>1, <4>2, TableKept
    <3> QED BY <1>7, <3>1, <3>2
  <2>2. /\ call \in {"invalid_open", "invalid_fd_0", "invalid_fd_2000"}
        /\ call' \in {"invalid_open", "invalid_fd_0", "invalid_fd_2000", "end"}
        /\ call' = "invalid_open" => call = "invalid_open"
        /\ iteration' \in 0 .. Repeats
        /\ UNCHANGED <<j, measured, badBefore>>
    <3>1. ASSUME NEW test, NEW next, call = test, Refused(test, next)
          PROVE  iteration' \in 0 .. Repeats /\ call' \in {test, next} /\ UNCHANGED <<j, measured, badBefore>>
      BY <1>1, <3>1 DEF Refused, NextTest
    <3>2. CASE InvalidOpen
      BY <3>1, <3>2 DEF InvalidOpen
    <3>3. CASE InvalidFd0
      BY <3>1, <3>3 DEF InvalidFd0, InvalidFd
    <3>4. CASE InvalidFd2000
      BY <3>1, <3>4 DEF InvalidFd2000, InvalidFd
    <3> QED BY <1>7, <3>2, <3>3, <3>4
  <2>3. IpcTypeOK'
    BY <1>1, <2>1, <2>2 DEF IpcTypeOK
  <2>4. TableHeals'
    BY <2>1, <2>2 DEF IpcIInv, TableHeals
  <2> QED BY <2>2, <2>3, <2>4 DEF IpcIInv, Filled, Full, Emptied, TimedOpenRefused
<1>8. CASE UNCHANGED ipcAll
  BY <1>8 DEF ipcAll, fdVars, ipcvars, IpcIInv, IpcTypeOK, FdsTypeOK, Filled, Full, Emptied,
              TableHeals, TimedOpenRefused
<1> QED BY <1>2, <1>3, <1>4, <1>5, <1>6, <1>7, <1>8 DEF IpcNext, End, ipcAll

LEMMA IpcInvariant == IpcSpec => []IpcIInv
<1>1. IpcSpec <=> IpcInit /\ [][IpcNext]_ipcAll
  BY DEF IpcSpec, ipcAll
<1> QED BY <1>1, IpcInitIInv, IpcIInvKept, PTL

(* Every variable of the timing tests keeps its type. *)
THEOREM IpcTypeCorrect == IpcSpec => []IpcTypeOK
<1>1. IpcIInv => IpcTypeOK
  BY DEF IpcIInv
<1> QED BY <1>1, IpcInvariant, PTL

(* The loop over all numbers empties a table of any size, however it came to be  *)
(* as it is, but for what Close itself refuses.                               *)
THEOREM ClosingHeals == IpcSpec => []TableHeals
<1>1. IpcIInv => TableHeals
  BY DEF IpcIInv
<1> QED BY <1>1, IpcInvariant, PTL

(* As many Opens as there are entries fill the table, even one that was partly   *)
(* full: the Open that is timed is refused unless a command failed.            *)
THEOREM FullTableRefuses == IpcSpec => []TimedOpenRefused
<1>1. IpcIInv => TimedOpenRefused
  BY DEF IpcIInv
<1> QED BY <1>1, IpcInvariant, PTL

(***************************************************************************)
(* HwTests                                                                 *)
(***************************************************************************)
Texts == {"hello", "subtest_failed", "test_passed", "test_failed", "tests_passed_out_of",
          "all_tests_passed", "result"}
Lines == [text : Texts, numbers : Seq(Nat)]
Ats == {"measuring", "binding", "accepting", "printing", "between_tests", "testing",
        "finishing", "returned"}
HwTypeOK ==
    /\ kind \in Kinds /\ at \in Ats
    /\ status \in [passes : Nat, failures : Nat]
    /\ totals \in [tests : Nat, testsPassed : Nat, subtests : Nat, subtestsPassed : Nat]
    /\ results \in Nat
    /\ sent \in Seq(Lines)

(* The counters agree with the lines sent so far; the test that runs is counted  *)
(* when it starts, its subtests when it ends.                                *)
Tallied ==
    /\ totals.testsPassed = Count("test_passed")
    /\ totals.tests =
          totals.testsPassed + Count("test_failed") + (IF at = "testing" THEN 1 ELSE 0)
    /\ totals.subtests + (IF at = "testing" THEN status.failures ELSE 0) =
          totals.subtestsPassed + Count("subtest_failed")
    /\ totals.subtestsPassed <= totals.subtests
    /\ Count("test_failed") = 0 <=> totals.subtests = totals.subtestsPassed

(* Nothing says how the tests went before the program has come to its end. *)
Unreported ==
    at \notin {"finishing", "returned"} =>
        Sent("tests_passed_out_of") = {} /\ Sent("all_tests_passed") = {}

HwIInv == HwTypeOK /\ Tallied /\ Unreported /\ VerdictSound

(* The lines of a text before and after another line. *)
LEMMA LineAppended ==
    ASSUME NEW s \in Seq(Lines), NEW l \in Lines
    PROVE  /\ Append(s, l) \in Seq(Lines) /\ DOMAIN Append(s, l) = DOMAIN s \cup {Len(s) + 1}
           /\ Append(s, l)[Len(s) + 1] = l /\ Len(s) + 1 \notin DOMAIN s
           /\ \A n \in DOMAIN s : Append(s, l)[n] = s[n]
<1>1. DOMAIN s = 1 .. Len(s) /\ Len(s) \in Nat
  OBVIOUS
<1>2. Append(s, l) \in Seq(Lines) /\ Len(Append(s, l)) = Len(s) + 1
  OBVIOUS
<1>3. DOMAIN Append(s, l) = 1 .. Len(s) + 1
  BY <1>1, <1>2
<1>4. Append(s, l)[Len(s) + 1] = l /\ \A n \in 1 .. Len(s) : Append(s, l)[n] = s[n]
  OBVIOUS
<1>5. 1 .. Len(s) + 1 = 1 .. Len(s) \cup {Len(s) + 1} /\ Len(s) + 1 \notin 1 .. Len(s)
  BY <1>1
<1> QED BY <1>1, <1>2, <1>3, <1>4, <1>5

LEMMA CountFinite ==
    ASSUME sent \in Seq(Lines), NEW text
    PROVE  IsFiniteSet(Sent(text)) /\ Count(text) \in Nat /\ (Count(text) = 0 <=> Sent(text) = {})
<1>1. \A a, b \in Int : IsFiniteSet(a .. b)
  BY FS_Interval
<1>2. DOMAIN sent = 1 .. Len(sent) /\ 1 \in Int /\ Len(sent) \in Int
  OBVIOUS
<1>3. IsFiniteSet(DOMAIN sent)
  BY <1>1, <1>2
<1>4. Sent(text) \subseteq DOMAIN sent
  BY DEF Sent
<1>5. IsFiniteSet(Sent(text))
  BY <1>3, <1>4, FS_Subset
<1>6. Cardinality(Sent(text)) \in Nat
  BY <1>5, FS_CardinalityType
<1>7. Cardinality(Sent(text)) = 0 <=> Sent(text) = {}
  BY <1>5, FS_EmptySet
<1> QED BY <1>5, <1>6, <1>7 DEF Count

(* What network_printf does to the lines of a text, and to their number. *)
LEMMA SentGrows ==
    ASSUME sent \in Seq(Lines), NEW l \in Lines, network_printf(l), NEW text
    PROVE  /\ Sent(text)' = Sent(text) \cup (IF l.text = text THEN {Len(sent) + 1} ELSE {})
           /\ Count(text)' = Count(text) + (IF l.text = text THEN 1 ELSE 0)
<1>1. sent' = Append(sent, l)
  BY DEF network_printf
<1>2. Sent(text)' = Sent(text) \cup (IF l.text = text THEN {Len(sent) + 1} ELSE {})
      /\ Len(sent) + 1 \notin Sent(text)
  BY <1>1, LineAppended DEF Sent
<1>3. IsFiniteSet(Sent(text)) /\ Count(text) \in Nat
  BY CountFinite
<1>4. Cardinality(Sent(text) \cup {Len(sent) + 1}) = Cardinality(Sent(text)) + 1
  BY <1>2, <1>3, FS_AddElement
<1>5. CASE l.text = text
  BY <1>2, <1>4, <1>5 DEF Count
<1>6. CASE l.text # text
  BY <1>2, <1>3, <1>6 DEF Count
<1> QED BY <1>2, <1>5, <1>6

LEMMA SentKept ==
    ASSUME UNCHANGED sent, NEW text
    PROVE  Sent(text)' = Sent(text) /\ Count(text)' = Count(text)
  BY DEF Sent, Count

(* A line that is not part of the verdict leaves it sound before it is spoken. *)
LEMMA NothingSaid ==
    ASSUME Sent("tests_passed_out_of")' = {}
    PROVE  VerdictSound'
  BY DEF VerdictSound

LEMMA HwInitIInv == HwInit => HwIInv
<1> SUFFICES ASSUME HwInit PROVE HwIInv
  OBVIOUS
<1>1. HwTypeOK
  BY DEF HwInit, HwTypeOK, Main, Kinds, Ats, TestStatus, Counters
<1>2. ASSUME NEW text PROVE Sent(text) = {}
  BY DEF HwInit, Sent
<1>3. ASSUME NEW text PROVE Count(text) = 0
  BY <1>2, FS_EmptySet DEF Count
<1>4. Tallied
  <2>1. at # "testing"
    BY DEF HwInit, Main, Kinds
  <2> QED BY <1>3, <2>1 DEF HwInit, Tallied, Counters
<1>5. Unreported /\ VerdictSound
  BY <1>2 DEF Unreported, VerdictSound
<1> QED BY <1>1, <1>4, <1>5 DEF HwIInv

(* The steps that send nothing. *)
LEMMA SilentKept ==
    ASSUME HwIInv,
           \/ Add \/ Measured \/ Bind \/ privStartTest \/ privTestPassed \/ FinishTests
           \/ network_shutdown \/ Receive \/ Ends \/ Connect \/ Telnet \/ Quit \/ Release
           \/ UNCHANGED hwvars
    PROVE  HwIInv'
<1> DEFINE Started ==
             /\ at = "between_tests" /\ at' = "testing" /\ status' = TestStatus
             /\ totals' = [totals EXCEPT !.tests = @ + 1]
           Passed ==
             /\ at = "testing" /\ at' = at /\ UNCHANGED totals
             /\ status' = [status EXCEPT !.passes = @ + 1]
           Moved ==
             /\ UNCHANGED <<totals, status>>
             /\ at' = at \/ (at # "testing" /\ at' # "testing")
             /\ at \in {"finishing", "returned"} => at' \in {"finishing", "returned"}
<1>1. HwTypeOK /\ Tallied /\ Unreported /\ VerdictSound
  BY DEF HwIInv
<1>2. UNCHANGED <<sent, kind>>
  BY DEF Add, Measured, Bind, privStartTest, privTestPassed, FinishTests, network_shutdown, Receive,
         Ends, Connect, Telnet, Quit, Release, hwvars, program, Quietly
<1>3. at' \in Ats /\ results' \in Nat
  BY <1>1 DEF Add, Measured, Bind, privStartTest, privTestPassed, FinishTests, network_shutdown, Receive,
         Ends, Connect, Telnet, Quit, Release, hwvars, program, Quietly, HwTypeOK, Ats
<1>4. Started \/ Passed \/ Moved
  BY DEF Add, Measured, Bind, privStartTest, privTestPassed, FinishTests, network_shutdown, Receive,
         Ends, Connect, Telnet, Quit, Release, hwvars, program, Quietly
<1>5. VerdictSound'
  BY <1>1, <1>2, SentKept DEF VerdictSound
<1>6. Count("test_passed")' = Count("test_passed") /\ Count("test_failed")' = Count("test_failed")
      /\ Count("subtest_failed")' = Count("subtest_failed")
      /\ Sent("tests_passed_out_of")' = Sent("tests_passed_out_of")
      /\ Sent("all_tests_passed")' = Sent("all_tests_passed")
  BY <1>2, SentKept
<1>7. Count("test_passed") \in Nat /\ Count("test_failed") \in Nat /\ Count("subtest_failed") \in Nat
  BY <1>1, CountFinite DEF HwTypeOK
<1>8. CASE Started
  <2>1. /\ totals' \in [tests : Nat, testsPassed : Nat, subtests : Nat, subtestsPassed : Nat]
        /\ totals'.tests = totals.tests + 1 /\ totals'.testsPassed = totals.testsPassed
        /\ totals'.subtests = totals.subtests /\ totals'.subtestsPassed = totals.subtestsPassed
    BY <1>1, <1>8 DEF HwTypeOK
  <2>2. status' \in [passes : Nat, failures : Nat] /\ status'.failures = 0
    BY <1>8 DEF TestStatus
  <2>3. HwTypeOK'
    BY <1>1, <1>2, <1>3, <2>1, <2>2 DEF HwTypeOK
  <2>4. Tallied'
    BY <1>1, <1>6, <1>7, <1>8, <2>1, <2>2 DEF Tallied, HwTypeOK
  <2>5. Unreported'
    BY <1>1, <1>6, <1>8 DEF Unreported
  <2> QED BY <1>5, <2>3, <2>4, <2>5 DEF HwIInv
<1>9. CASE Passed
  <2>1. status' \in [passes : Nat, failures : Nat] /\ status'.failures = status.failures
    BY <1>1, <1>9 DEF HwTypeOK
  <2>2. HwTypeOK'
    BY <1>1, <1>2, <1>3, <1>9, <2>1 DEF HwTypeOK
  <2>3. Tallied'
    BY <1>1, <1>6, <1>9, <2>1 DEF Tallied
  <2>4. Unreported'
    BY <1>1, <1>6, <1>9 DEF Unreported
  <2> QED BY <1>5, <2>2, <2>3, <2>4 DEF HwIInv
<1>10. CASE Moved
  <2>1. HwTypeOK'
    BY <1>1, <1>2, <1>3, <1>10 DEF HwTypeOK
  <2>2. Tallied'
    BY <1>1, <1>6, <1>10 DEF Tallied
  <2>3. Unreported'
    BY <1>1, <1>6, <1>10 DEF Unreported
  <2> QED BY <1>5, <2>1, <2>2, <2>3 DEF HwIInv
<1> QED BY <1>4, <1>8, <1>9, <1>10

(* The steps of a program that is not at its end and sends one line. *)
LEMMA SpokenKept ==
    ASSUME HwIInv, Accept \/ privTestFailed \/ privEndTest
    PROVE  HwIInv'
<1>1. HwTypeOK /\ Tallied /\ Unreported /\ VerdictSound
  BY DEF HwIInv
<1>2. /\ Count("test_passed") \in Nat /\ Count("test_failed") \in Nat /\ Count("subtest_failed") \in Nat
      /\ sent \in Seq(Lines) /\ status \in [passes : Nat, failures : Nat]
      /\ totals \in [tests : Nat, testsPassed : Nat, subtests : Nat, subtestsPassed : Nat]
  BY <1>1, CountFinite DEF HwTypeOK
<1>3. ASSUME NEW l \in Lines, network_printf(l), UNCHANGED <<kind, results>>, at' \in Ats,
             at \notin {"finishing", "returned"},
             l.text \notin {"tests_passed_out_of", "all_tests_passed"},
             (status \in [passes : Nat, failures : Nat])',
             (totals \in [tests : Nat, testsPassed : Nat, subtests : Nat, subtestsPassed : Nat])',
             Tallied'
      PROVE  HwIInv'
  <2>1. sent' \in Seq(Lines)
    BY <1>2, <1>3 DEF network_printf
  <2>2. Sent("tests_passed_out_of")' = {} /\ Sent("all_tests_passed")' = {}
    BY <1>1, <1>2, <1>3, SentGrows DEF Unreported
  <2>3. Unreported' /\ VerdictSound'
    BY <2>2, NothingSaid DEF Unreported
  <2>4. HwTypeOK'
    BY <1>1, <1>3, <2>1 DEF HwTypeOK
  <2> QED BY <1>3, <2>3, <2>4 DEF HwIInv
<1>4. ASSUME NEW text \in Texts, NEW q \in Seq(Nat)
      PROVE  Line(text, q) \in Lines /\ Line(text, q).text = text
  BY <1>4 DEF Line, Lines
<1>5. CASE Accept
  <2> DEFINE l == Line("hello", <<>>)
  <2>1. /\ at = "accepting" /\ at' \in {"printing", "between_tests"} /\ network_printf(l)
        /\ UNCHANGED <<kind, results, status, totals>>
    BY <1>5 DEF Accept
  <2>2. l \in Lines /\ l.text = "hello"
    <3>1. <<>> \in Seq(Nat) /\ "hello" \in Texts
      BY DEF Texts
    <3> QED BY <1>4, <3>1
  <2> HIDE DEF l
  <2>3. /\ Count("test_passed")' = Count("test_passed") /\ Count("test_failed")' = Count("test_failed")
        /\ Count("subtest_failed")' = Count("subtest_failed")
    BY <1>2, <2>1, <2>2, SentGrows
  <2>4. Tallied'
    BY <1>1, <2>1, <2>3 DEF Tallied
  <2> QED BY <1>2, <1>3, <2>1, <2>2, <2>4 DEF Ats
<1>6. CASE privTestFailed
  <2> DEFINE l == Line("subtest_failed", <<num_subtests + 1>>)
  <2>1. /\ at = "testing" /\ network_printf(l) /\ UNCHANGED <<kind, at, results, totals>>
        /\ status' = [status EXCEPT !.failures = @ + 1]
    BY <1>6 DEF privTestFailed
  <2>2. l \in Lines /\ l.text = "subtest_failed"
    <3>1. <<num_subtests + 1>> \in Seq(Nat)
      BY <1>2 DEF num_subtests
    <3> QED BY <1>4, <3>1 DEF Texts
  <2> HIDE DEF l
  <2>3. /\ Count("test_passed")' = Count("test_passed") /\ Count("test_failed")' = Count("test_failed")
        /\ Count("subtest_failed")' = Count("subtest_failed") + 1
    BY <1>2, <2>1, <2>2, SentGrows
  <2>4. status' \in [passes : Nat, failures : Nat] /\ status'.failures = status.failures + 1
    BY <1>2, <2>1
  <2>5. Tallied'
    BY <1>1, <1>2, <2>1, <2>3, <2>4 DEF Tallied
  <2> QED BY <1>2, <1>3, <2>1, <2>2, <2>4, <2>5 DEF Ats
<1>7. CASE privEndTest
  <2> DEFINE text == IF status.failures = 0 THEN "test_passed" ELSE "test_failed"
             l == Line(text, <<totals.tests, num_subtests>>)
  <2>1. /\ at = "testing" /\ at' = "between_tests" /\ network_printf(l)
        /\ UNCHANGED <<kind, results, status>>
        /\ totals' = [totals EXCEPT
                !.testsPassed = IF status.failures = 0 THEN @ + 1 ELSE @,
                !.subtests = @ + num_subtests,
                !.subtestsPassed = @ + status.passes]
    BY <1>7 DEF privEndTest, TestPassed
  <2>2. l \in Lines /\ l.text = text
    <3>1. <<totals.tests, num_subtests>> \in Seq(Nat)
      BY <1>2 DEF num_subtests
    <3> QED BY <1>4, <3>1 DEF Texts
  <2> HIDE DEF l
  <2>3. /\ Count("test_passed")' = Count("test_passed") + (IF text = "test_passed" THEN 1 ELSE 0)
        /\ Count("test_failed")' = Count("test_failed") + (IF text = "test_failed" THEN 1 ELSE 0)
        /\ Count("subtest_failed")' = Count("subtest_failed")
    <3>1. text # "subtest_failed"
      OBVIOUS
    <3> HIDE DEF text
    <3>2. /\ Count("test_passed")' = Count("test_passed") + (IF l.text = "test_passed" THEN 1 ELSE 0)
          /\ Count("test_failed")' = Count("test_failed") + (IF l.text = "test_failed" THEN 1 ELSE 0)
          /\ Count("subtest_failed")' = Count("subtest_failed") + (IF l.text = "subtest_failed" THEN 1 ELSE 0)
      BY <1>2, <2>1, <2>2, SentGrows
    <3> QED BY <1>2, <2>2, <3>1, <3>2
  <2>4. /\ totals' \in [tests : Nat, testsPassed : Nat, subtests : Nat, subtestsPassed : Nat]
        /\ totals'.tests = totals.tests
        /\ totals'.testsPassed = totals.testsPassed + (IF status.failures = 0 THEN 1 ELSE 0)
        /\ totals'.subtests = totals.subtests + status.passes + status.failures
        /\ totals'.subtestsPassed = totals.subtestsPassed + status.passes
    <3> DEFINE passed == IF status.failures = 0 THEN totals.testsPassed + 1 ELSE totals.testsPassed
               subtests == totals.subtests + num_subtests
               subtestsPassed == totals.subtestsPassed + status.passes
    <3>1. /\ passed \in Nat /\ subtests \in Nat /\ subtestsPassed \in Nat /\ totals.tests \in Nat
          /\ passed = totals.testsPassed + (IF status.failures = 0 THEN 1 ELSE 0)
          /\ subtests = totals.subtests + status.passes + status.failures
      BY <1>2 DEF num_subtests
    <3>2. totals' = [totals EXCEPT !.testsPassed = passed, !.subtests = subtests,
                                   !.subtestsPassed = subtestsPassed]
      BY <2>1
    <3> HIDE DEF passed, subtests
    <3> QED BY <1>2, <3>1, <3>2
  <2>5. /\ totals.testsPassed = Count("test_passed")
        /\ totals.tests = totals.testsPassed + Count("test_failed") + 1
        /\ totals.subtests + status.failures = totals.subtestsPassed + Count("subtest_failed")
        /\ totals.subtestsPassed <= totals.subtests
        /\ Count("test_failed") = 0 <=> totals.subtests = totals.subtestsPassed
    BY <1>1, <2>1 DEF Tallied
  <2>6. PICK tests \in Nat, passed \in Nat, subtests \in Nat, most \in Nat, good \in Nat, bad \in Nat :
          /\ tests = totals.tests /\ passed = totals.testsPassed /\ subtests = totals.subtests
          /\ most = totals.subtestsPassed /\ good = status.passes /\ bad = status.failures
    BY <1>2
  <2>7. PICK failed \in Nat, complaints \in Nat :
          failed = Count("test_failed") /\ complaints = Count("subtest_failed")
    BY <1>2
  <2> DEFINE win == IF bad = 0 THEN 1 ELSE 0
  <2>8. /\ tests = passed + failed + 1
        /\ subtests + bad = most + complaints /\ most <= subtests
        /\ failed = 0 <=> subtests = most
    BY <2>5, <2>6, <2>7
  <2>9. /\ passed + win \in Nat /\ failed + (1 - win) \in Nat
        /\ subtests + good + bad \in Nat /\ most + good \in Nat
        /\ tests = (passed + win) + (failed + (1 - win))
        /\ subtests + good + bad = (most + good) + complaints
        /\ most + good <= subtests + good + bad
        /\ failed + (1 - win) = 0 <=> subtests + good + bad = most + good
    BY ONLY <2>8
  <2>10. /\ Count("test_passed")' = passed + win /\ Count("test_failed")' = failed + (1 - win)
         /\ Count("subtest_failed")' = complaints
    <3>1. Count("test_passed")' = Count("test_passed") + (IF status.failures = 0 THEN 1 ELSE 0)
      BY <2>3
    <3>2. Count("test_failed")' = Count("test_failed") + (IF status.failures = 0 THEN 0 ELSE 1)
      BY <2>3
    <3>3. Count("subtest_failed")' = Count("subtest_failed")
      BY <2>3
    <3>4. Count("test_passed") = passed
      BY <2>5, <2>6
    <3> QED BY <2>6, <2>7, <3>1, <3>2, <3>3, <3>4
  <2>11. /\ totals'.tests = tests /\ totals'.testsPassed = passed + win
         /\ totals'.subtests = subtests + good + bad /\ totals'.subtestsPassed = most + good
    BY <2>4, <2>6
  <2> HIDE DEF win
  <2>12. Tallied'
    <3>1. at' # "testing"
      BY <2>1
    <3> QED BY <2>7, <2>9, <2>10, <2>11, <3>1 DEF Tallied
  <2>13. l.text \notin {"tests_passed_out_of", "all_tests_passed"}
    BY <2>2
  <2> QED BY <1>2, <1>3, <2>1, <2>2, <2>4, <2>12, <2>13 DEF Ats
<1> QED BY <1>5, <1>6, <1>7

(* report_test_results, whose second line is said only of a run without fault. *)
LEMMA ReportKept == HwIInv /\ report_test_results => HwIInv'
<1> SUFFICES ASSUME HwIInv, report_test_results PROVE HwIInv'
  OBVIOUS
<1> DEFINE verdict == Line("tests_passed_out_of",
                 <<totals.testsPassed, totals.tests, totals.subtestsPassed, totals.subtests>>)
           cheer == Line("all_tests_passed", <<>>)
           once == Append(sent, verdict)
           place == Len(sent) + 1
<1>1. HwTypeOK /\ Tallied /\ Unreported
  BY DEF HwIInv
<1>2. /\ at = "between_tests" /\ at' = "finishing" /\ UNCHANGED <<kind, status, totals, results>>
      /\ sent' = IF totals.testsPassed = totals.tests THEN Append(once, cheer) ELSE once
  BY DEF report_test_results
<1>3. /\ verdict \in Lines /\ cheer \in Lines /\ sent \in Seq(Lines)
      /\ verdict.text = "tests_passed_out_of" /\ cheer.text = "all_tests_passed"
      /\ verdict.numbers[1] = totals.testsPassed /\ verdict.numbers[2] = totals.tests
      /\ verdict.numbers[3] = totals.subtestsPassed /\ verdict.numbers[4] = totals.subtests
  <2>1. <<totals.testsPassed, totals.tests, totals.subtestsPassed, totals.subtests>> \in Seq(Nat)
    BY <1>1 DEF HwTypeOK
  <2>2. <<>> \in Seq(Nat)
    OBVIOUS
  <2>3. sent \in Seq(Lines)
    BY <1>1 DEF HwTypeOK
  <2> QED BY <2>1, <2>2, <2>3 DEF Line, Lines, Texts
<1> HIDE DEF verdict, cheer
<1>4. /\ once \in Seq(Lines) /\ DOMAIN once = DOMAIN sent \cup {place} /\ once[place] = verdict
      /\ place \notin DOMAIN sent /\ \A n \in DOMAIN sent : once[n] = sent[n]
  BY <1>3, LineAppended
<1> HIDE DEF once, place
<1>5. /\ sent' \in Seq(Lines)
      /\ \/ /\ totals.testsPassed # totals.tests
            /\ sent' = once
         \/ /\ totals.testsPassed = totals.tests
            /\ \E last : /\ DOMAIN sent' = DOMAIN once \cup {last} /\ last \notin DOMAIN once
                         /\ sent'[last] = cheer /\ \A n \in DOMAIN once : sent'[n] = once[n]
  BY <1>2, <1>3, <1>4, LineAppended
<1>5a. PICK extra :
          /\ DOMAIN sent' = DOMAIN sent \cup {place} \cup extra
          /\ \A n \in DOMAIN sent : sent'[n] = sent[n]
          /\ sent'[place] = verdict /\ \A n \in extra : sent'[n] = cheer
          /\ extra = {} <=> totals.testsPassed # totals.tests
  <2>1. CASE totals.testsPassed # totals.tests
    <3> WITNESS {}
    <3> QED BY <1>4, <1>5, <2>1
  <2>2. CASE totals.testsPassed = totals.tests
    <3>1. PICK last : /\ DOMAIN sent' = DOMAIN once \cup {last} /\ last \notin DOMAIN once
                      /\ sent'[last] = cheer /\ \A n \in DOMAIN once : sent'[n] = once[n]
      BY <1>5, <2>2
    <3> WITNESS {last}
    <3> QED BY <1>4, <2>2, <3>1
  <2> QED BY <2>1, <2>2
<1>6. ASSUME NEW text, text \notin {"tests_passed_out_of", "all_tests_passed"}
      PROVE  Sent(text)' = Sent(text)
  <2>1. sent'[place].text # text /\ \A n \in extra : sent'[n].text # text
    BY <1>3, <1>6, <1>5a
  <2>2. {n \in DOMAIN sent' : sent'[n].text = text} = {n \in DOMAIN sent : sent[n].text = text}
    BY <1>5a, <2>1
  <2> QED BY <2>2 DEF Sent
<1>7. /\ Sent("tests_passed_out_of") = {} /\ Sent("all_tests_passed") = {}
  BY <1>1, <1>2 DEF Unreported
<1>8. Sent("tests_passed_out_of")' = {place} /\ sent'[place] = verdict
  <2>1. /\ sent'[place].text = "tests_passed_out_of"
        /\ \A n \in extra : sent'[n].text # "tests_passed_out_of"
        /\ \A n \in DOMAIN sent : sent'[n].text # "tests_passed_out_of"
    BY <1>3, <1>7, <1>5a DEF Sent
  <2>2. {n \in DOMAIN sent' : sent'[n].text = "tests_passed_out_of"} = {place}
    BY <1>5a, <2>1
  <2> QED BY <1>5a, <2>2 DEF Sent
<1>9. Sent("all_tests_passed")' # {} <=> totals.testsPassed = totals.tests
  <2>1. /\ sent'[place].text # "all_tests_passed"
        /\ \A n \in extra : sent'[n].text = "all_tests_passed"
        /\ \A n \in DOMAIN sent : sent'[n].text # "all_tests_passed"
    BY <1>3, <1>7, <1>5a DEF Sent
  <2>2. {n \in DOMAIN sent' : sent'[n].text = "all_tests_passed"} = extra
    BY <1>5a, <2>1
  <2> QED BY <1>5a, <2>2 DEF Sent
<1>10. /\ Count("test_passed")' = Count("test_passed") /\ Count("test_failed")' = Count("test_failed")
       /\ Count("subtest_failed")' = Count("subtest_failed")
       /\ Sent("subtest_failed")' = Sent("subtest_failed")
  BY <1>6 DEF Count
<1>11. /\ Count("test_passed") \in Nat /\ Count("test_failed") \in Nat /\ Count("subtest_failed") \in Nat
       /\ Count("subtest_failed") = 0 <=> Sent("subtest_failed") = {}
  BY <1>3, CountFinite
<1>12. /\ totals.testsPassed = Count("test_passed")
       /\ totals.tests = totals.testsPassed + Count("test_failed")
       /\ totals.subtests = totals.subtestsPassed + Count("subtest_failed")
       /\ Count("test_failed") = 0 <=> totals.subtests = totals.subtestsPassed
  BY <1>1, <1>2, <1>11 DEF Tallied, HwTypeOK
<1>13. totals.testsPassed = totals.tests <=> Sent("subtest_failed") = {}
  <2>1. totals.subtestsPassed \in Nat
    BY <1>1 DEF HwTypeOK
  <2> QED BY <1>11, <1>12, <2>1
<1>14. VerdictSound'
  <2>1. /\ verdict.numbers[1] = Count("test_passed")'
        /\ verdict.numbers[2] = verdict.numbers[1] + Count("test_failed")'
        /\ verdict.numbers[4] = verdict.numbers[3] + Count("subtest_failed")'
        /\ Sent("all_tests_passed")' # {} <=> Sent("subtest_failed")' = {}
    BY <1>3, <1>9, <1>10, <1>12, <1>13
  <2> QED BY <1>8, <2>1 DEF VerdictSound
<1>15. HwTypeOK'
  BY <1>1, <1>2, <1>5 DEF HwTypeOK, Ats
<1>16. Tallied'
  BY <1>1, <1>2, <1>10 DEF Tallied
<1> QED BY <1>2, <1>14, <1>15, <1>16 DEF HwIInv, Unreported

(* The lines of a ResultPrinter say nothing of tests. *)
LEMMA ResultsKept == HwIInv /\ PrintResults => HwIInv'
<1> SUFFICES ASSUME HwIInv, PrintResults PROVE HwIInv'
  OBVIOUS
<1> DEFINE shown == [n \in 1 .. results |-> Line("result", <<n>>)]
<1>1. HwTypeOK /\ Tallied /\ Unreported
  BY DEF HwIInv
<1>2. /\ at = "printing" /\ at' = "finishing" /\ UNCHANGED <<kind, status, totals, results>>
      /\ sent' = sent \o shown
  BY DEF PrintResults
<1>3. /\ shown \in Seq(Lines) /\ Len(shown) = results /\ results \in Nat /\ sent \in Seq(Lines)
      /\ \A n \in 1 .. results : shown[n].text = "result"
  <2>1. results \in Nat /\ sent \in Seq(Lines)
    BY <1>1 DEF HwTypeOK
  <2>2. \A n \in 1 .. results : Line("result", <<n>>) \in Lines /\ Line("result", <<n>>).text = "result"
    <3>1. ASSUME NEW n \in 1 .. results
          PROVE  Line("result", <<n>>) \in Lines /\ Line("result", <<n>>).text = "result"
      <4>1. <<n>> \in Seq(Nat)
        BY <2>1
      <4> QED BY <4>1 DEF Line, Lines, Texts
    <3> QED BY <3>1, Zenon
  <2> QED BY <2>1, <2>2
<1> HIDE DEF shown
<1>4. /\ sent' \in Seq(Lines) /\ DOMAIN sent = 1 .. Len(sent) /\ DOMAIN sent' = 1 .. Len(sent) + results
      /\ \A n \in 1 .. Len(sent) : sent'[n] = sent[n]
      /\ \A n \in Len(sent) + 1 .. Len(sent) + results : sent'[n] = shown[n - Len(sent)]
  <2>1. sent \o shown \in Seq(Lines) /\ Len(sent \o shown) = Len(sent) + results
    BY <1>3
  <2>2. DOMAIN (sent \o shown) = 1 .. Len(sent) + results /\ DOMAIN sent = 1 .. Len(sent)
    BY <1>3, <2>1
  <2>3. \A n \in 1 .. Len(sent) : (sent \o shown)[n] = sent[n]
    BY <1>3
  <2>4. \A n \in Len(sent) + 1 .. Len(sent) + results : (sent \o shown)[n] = shown[n - Len(sent)]
    BY <1>3
  <2> QED BY <1>2, <2>1, <2>2, <2>3, <2>4
<1>5. \A n \in Len(sent) + 1 .. Len(sent) + results : sent'[n].text = "result"
  <2> SUFFICES ASSUME NEW n \in Len(sent) + 1 .. Len(sent) + results
               PROVE  sent'[n].text = "result"
    OBVIOUS
  <2>1. n - Len(sent) \in 1 .. results
    BY <1>3
  <2> QED BY <1>3, <1>4, <2>1
<1>6. ASSUME NEW text, text # "result" PROVE Sent(text)' = Sent(text)
  <2>1. Len(sent) \in Nat
    BY <1>3
  <2>2. \A n \in 1 .. Len(sent) + results :
            n \in 1 .. Len(sent) \/ n \in Len(sent) + 1 .. Len(sent) + results
    BY <1>3, <2>1
  <2>3. 1 .. Len(sent) \subseteq 1 .. Len(sent) + results
    BY <1>3, <2>1
  <2> QED BY <1>4, <1>5, <1>6, <2>2, <2>3 DEF Sent
<1>7. /\ Count("test_passed")' = Count("test_passed") /\ Count("test_failed")' = Count("test_failed")
      /\ Count("subtest_failed")' = Count("subtest_failed")
  BY <1>6 DEF Count
<1>8. Sent("tests_passed_out_of")' = {}
  BY <1>1, <1>2, <1>6 DEF Unreported
<1>9. HwTypeOK' /\ Tallied'
  BY <1>1, <1>2, <1>4, <1>7 DEF HwTypeOK, Ats, Tallied
<1> QED BY <1>2, <1>8, <1>9, NothingSaid DEF HwIInv, Unreported

(* The next program starts from nothing, as the first. *)
LEMMA RunKept == Run => HwIInv'
<1> SUFFICES ASSUME Run PROVE HwIInv'
  OBVIOUS
<1>1. HwTypeOK'
  BY DEF Run, HwTypeOK, Main, Kinds, Ats, TestStatus, Counters
<1>2. ASSUME NEW text PROVE Sent(text)' = {} /\ Count(text)' = 0
  <2>1. Sent(text)' = {}
    BY DEF Run, Sent
  <2> QED BY <2>1, FS_EmptySet DEF Count
<1>3. Tallied'
  <2>1. at' # "testing"
    BY DEF Run, Main, Kinds
  <2> QED BY <1>2, <2>1 DEF Run, Tallied, Counters
<1>4. Unreported' /\ VerdictSound'
  BY <1>2, NothingSaid DEF Unreported
<1> QED BY <1>1, <1>3, <1>4 DEF HwIInv

LEMMA HwInvariant == HwSpec => []HwIInv
<1>1. HwIInv /\ [HwNext]_hwvars => HwIInv'
  BY SilentKept, SpokenKept, ReportKept, ResultsKept, RunKept DEF HwNext, ProgramStep, ClientStep
<1> QED BY <1>1, HwInitIInv, PTL DEF HwSpec

(* The counters and lines of the harness keep their types. *)
THEOREM HwTypeCorrect == HwSpec => []HwTypeOK
<1>1. HwIInv => HwTypeOK
  BY DEF HwIInv
<1> QED BY <1>1, HwInvariant, PTL

(* For programs of any number of tests and subtests, what the last lines say is   *)
(* what the lines before them add up to, and "All tests passed" comes exactly   *)
(* when no subtest failed.                                                  *)
THEOREM ReportIsSound == HwSpec => []VerdictSound
<1>1. HwIInv => VerdictSound
  BY DEF HwIInv
<1> QED BY <1>1, HwInvariant, PTL

(***************************************************************************)
(* IpcStatistics                                                           *)
(***************************************************************************)
(* Multiplication by something positive, which the provers do not know. *)
LEMMA TimesGrows ==
    ASSUME NEW w \in Nat \ {0}, NEW q \in Int
    PROVE  w * q \in Int /\ (q >= 1 => w * q >= w) /\ (q <= -1 => w * q <= -w)
<1>1. w * q \in Int /\ w * (q - 1) \in Int /\ w * (q + 1) \in Int
  OBVIOUS
<1>2. w * q = w * (q - 1) + w /\ w * q = w * (q + 1) - w
  OBVIOUS
<1>3. \A a, b \in Nat : a * b >= 0
  OBVIOUS
<1>4. q >= 1 => w * (q - 1) >= 0
  BY <1>3
<1>5. q <= -1 => w * (-(q + 1)) >= 0
  BY <1>3
<1>6. w * (-(q + 1)) = -(w * (q + 1))
  OBVIOUS
<1> QED BY <1>1, <1>2, <1>4, <1>5, <1>6

(* The remainder is the only one there can be. *)
LEMMA RemainderUnique ==
    ASSUME NEW w \in Nat \ {0}, NEW q \in Int, NEW r \in 0 .. w - 1
    PROVE  (w * q + r) % w = r
<1> DEFINE n == w * q + r
           d == n \div w
           m == n % w
<1>1. n \in Int /\ w * q \in Int
  OBVIOUS
<1> HIDE DEF n
<1>2. d \in Int /\ m \in 0 .. w - 1 /\ n = w * d + m
  BY <1>1
<1> HIDE DEF d, m
<1>3. n = w * q + r
  BY DEF n
<1>4. w * (q - d) = w * q - w * d
  BY <1>2
<1>5. q - d \in Int /\ w * d \in Int
  BY <1>2
<1>6. w * (q - d) = m - r
  BY <1>1, <1>2, <1>3, <1>4, <1>5
<1>7. q - d = 0
  BY <1>2, <1>5, <1>6, TimesGrows
<1>8. w * 0 = 0
  OBVIOUS
<1>9. m = r
  BY <1>2, <1>6, <1>7, <1>8
<1> QED BY <1>9 DEF m, n

(* A difference that has wrapped round has the square of the true distance, if    *)
(* that fits.                                                               *)
LEMMA SquaredDistance ==
    ASSUME NEW t \in 0 .. Word - 1, NEW m \in 0 .. Word - 1, (t - m) * (t - m) < Word
    PROVE  Squared((t - m) % Word) = (t - m) * (t - m)
<1> DEFINE d == t - m
<1>1. Word \in Nat \ {0} /\ d \in Int /\ d > -Word /\ d < Word
  BY WordsCounted
<1>2. d * d < Word
  OBVIOUS
<1> HIDE DEF d
<1>3. d * d \in 0 .. Word - 1
  <2>1. \A a, b \in Nat : a * b \in Nat
    OBVIOUS
  <2>2. d * d = (-d) * (-d) /\ (d \in Nat \/ -d \in Nat)
    BY <1>1
  <2>3. d * d \in Nat
    BY <2>1, <2>2
  <2> QED BY <1>1, <1>2, <2>3
<1>4. CASE d >= 0
  <2>1. (Word * 0 + d) % Word = d
    BY <1>1, <1>4, RemainderUnique
  <2>2. (Word * 0 + d * d) % Word = d * d
    BY <1>1, <1>3, RemainderUnique
  <2>3. Word * 0 + d = d /\ Word * 0 + d * d = d * d
    BY <1>1, <1>3
  <2> QED BY <2>1, <2>2, <2>3 DEF Squared, d
<1>5. CASE d < 0
  <2>1. (Word * (-1) + (d + Word)) % Word = d + Word
    BY <1>1, <1>5, RemainderUnique
  <2>2. Word * (-1) + (d + Word) = d
    BY <1>1
  <2>3. (Word * (2 * d + Word) + d * d) % Word = d * d
    <3>1. Word \in Nat \ {0} /\ 2 * d + Word \in Int
      BY <1>1
    <3> QED BY <1>3, <3>1, RemainderUnique, Zenon
  <2>4. (d + Word) * (d + Word) = Word * (2 * d + Word) + d * d
    BY <1>1
  <2> QED BY <2>1, <2>2, <2>3, <2>4 DEF Squared, d
<1> QED BY <1>1, <1>4, <1>5

(* The sums of the squares agree while every distance so far is small enough. *)
Near(n) == (sample[n] - mean) * (sample[n] - mean) < Word
StatisticsIInv ==
    /\ StatisticsTypeOK
    /\ turn \in {"measuring", "adding"} => acc = exact
    /\ turn = "measuring" => seen = 0
    /\ turn # "measuring" => sample # <<>>
    /\ turn \in {"squaring", "printing"} /\ (\A n \in 1 .. seen : Near(n)) => acc = exact

LEMMA StatisticsInitIInv == StatisticsInit => StatisticsIInv
  BY WordsCounted DEF StatisticsInit, StatisticsIInv, StatisticsTypeOK

LEMMA StatisticsKept == StatisticsIInv /\ [StatisticsNext]_statistics => StatisticsIInv'
<1> SUFFICES ASSUME StatisticsIInv, [StatisticsNext]_statistics PROVE StatisticsIInv'
  OBVIOUS
<1>1. /\ sample \in Seq(Ticks) /\ turn \in {"measuring", "adding", "squaring", "printing"}
      /\ seen \in 0 .. Len(sample) /\ mean \in 0 .. Word - 1 /\ acc \in Nat /\ exact \in Nat
      /\ Len(sample) \in Nat /\ Word \in Nat \ {0}
      /\ \A n \in 1 .. Len(sample) : sample[n] \in 0 .. Word - 1
  <2>1. \A n \in 1 .. Len(sample) : sample[n] \in Ticks
    BY DEF StatisticsIInv, StatisticsTypeOK
  <2>2. \A n \in 1 .. Len(sample) : sample[n] \in 0 .. Word - 1
    BY <2>1, TicksFit
  <2>3. StatisticsTypeOK /\ Len(sample) \in Nat
    BY DEF StatisticsIInv, StatisticsTypeOK
  <2> QED BY <2>2, <2>3, WordsCounted DEF StatisticsTypeOK
<1> USE DEF StatisticsIInv, StatisticsTypeOK
<1>2. CASE RecordTicks
  <2>1. PICK t \in Ticks : sample' = Append(sample, t)
    BY <1>2 DEF RecordTicks
  <2>2. sample' \in Seq(Ticks) /\ Len(sample') = Len(sample) + 1
    BY <1>1, <2>1
  <2> QED BY <1>1, <1>2, <2>2 DEF RecordTicks
<1>3. CASE StartPrinting
  BY <1>1, <1>3 DEF StartPrinting
<1>4. CASE AddTicks
  <2>1. mean' \in 0 .. Word - 1
    <3>1. mean + sample[seen + 1] \in Int
      BY <1>1, <1>4 DEF AddTicks
    <3>2. \A a \in Int : a % Word \in 0 .. Word - 1
      BY <1>1
    <3>3. (mean + sample[seen + 1]) % Word \in 0 .. Word - 1
      BY <3>1, <3>2, Zenon
    <3> QED BY <1>4, <3>3 DEF AddTicks
  <2> QED BY <1>1, <1>4, <2>1 DEF AddTicks
<1>5. CASE Average
  <2>1. Len(sample) \in Nat \ {0} /\ mean' = mean \div Len(sample)
    BY <1>1, <1>5 DEF Average
  <2>2. mean' \in 0 .. Word - 1
    <3>1. \A a \in Nat, b \in Nat \ {0} : a \div b \in 0 .. a
      OBVIOUS
    <3>2. mean' \in 0 .. mean
      BY <1>1, <2>1, <3>1
    <3> QED BY <1>1, <3>2
  <2> QED BY <1>1, <1>5, <2>2 DEF Average
<1>6. CASE AddSquare
  <2> DEFINE t == sample[seen + 1]
             square == Squared((t - mean) % Word)
  <2>1. t \in 0 .. Word - 1 /\ seen + 1 \in 0 .. Len(sample) /\ seen \in Nat
    BY <1>1, <1>6 DEF AddSquare
  <2>2. square \in Nat /\ (t - mean) * (t - mean) \in Nat
    <3>1. (t - mean) % Word \in Int /\ t - mean \in Int
      BY <1>1, <2>1
    <3>2. \A a \in Int : a * a \in Nat /\ (a * a) % Word \in Nat
      BY <1>1
    <3> QED BY <3>1, <3>2 DEF Squared
  <2>3. /\ turn = "squaring" /\ turn' = turn /\ seen' = seen + 1 /\ UNCHANGED <<sample, mean>>
        /\ acc' = acc + square /\ exact' = exact + (t - mean) * (t - mean)
    BY <1>6 DEF AddSquare
  <2>4. ASSUME \A n \in 1 .. seen' : Near(n)' PROVE acc' = exact'
    <3>1. \A n \in 1 .. seen + 1 : Near(n)
      BY <2>3, <2>4 DEF Near
    <3>2. acc = exact
      <4>1. \A n \in 1 .. seen : Near(n)
        BY <2>1, <3>1
      <4> QED BY <2>3, <4>1
    <3>3. (t - mean) * (t - mean) < Word
      <4>1. seen + 1 \in 1 .. seen + 1
        BY <2>1
      <4> QED BY <3>1, <4>1 DEF Near
    <3>4. square = (t - mean) * (t - mean)
      BY <1>1, <2>1, <3>3, SquaredDistance
    <3> QED BY <2>3, <3>2, <3>4
  <2>5. StatisticsTypeOK'
    <3> HIDE DEF t, square
    <3> QED BY <1>1, <2>1, <2>2, <2>3
  <2> QED BY <2>3, <2>4, <2>5
<1>7. CASE PrintDeviation
  BY <1>1, <1>7 DEF PrintDeviation, Near
<1>8. CASE UNCHANGED statistics
  BY <1>8 DEF statistics, Near
<1> QED BY <1>2, <1>3, <1>4, <1>5, <1>6, <1>7, <1>8 DEF StatisticsNext, Printed

LEMMA StatisticsInvariant == StatisticsSpec => []StatisticsIInv
  BY StatisticsInitIInv, StatisticsKept, PTL DEF StatisticsSpec

(* For a machine word of any width and a sample of any size, the mean and the    *)
(* sums stay what a u64, or a double, can be.                                 *)
THEOREM StatisticsTypeCorrect == StatisticsSpec => []StatisticsTypeOK
<1>1. StatisticsIInv => StatisticsTypeOK
  BY DEF StatisticsIInv
<1> QED BY <1>1, StatisticsInvariant, PTL

(* A tick below the mean wraps round, and its square is right all the same,       *)
(* however many ticks there are and however they are spread, while no distance   *)
(* from the mean has a square of more than a word.                            *)
THEOREM WrappingIsHarmless == StatisticsSpec => []DeviationExact
<1>1. StatisticsIInv => DeviationExact
  BY DEF StatisticsIInv, DeviationExact, Near
<1> QED BY <1>1, StatisticsInvariant, PTL

=============================================================================
