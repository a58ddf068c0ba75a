------------------------ MODULE HarnessStepsProofs -------------------------
(***************************************************************************)
(* The steps of the test harnesses, for any numbers of servers, starts,     *)
(* operations, calls and clerks.  A step of the tester takes a program to   *)
(* one of the same shape and preserves what the rest of the program relies  *)
(* on; steps of calls change nothing that the tester relies on.  Of the     *)
(* ends that are enabled, what is pending is all that matters of the rest   *)
(* of a program, and a step of the tester takes one step out of it.  Lemmas *)
(* that only one other lemma uses are steps of its proof.                   *)
(***************************************************************************)
EXTENDS HarnessInvariant, TLAPS

\* The prover of every step that names no other.
USE Zenon

----------------------------------------------------------------------------
(***************************************************************************)
(* What is left of a program after its next step.                           *)
(***************************************************************************)
LEMMA NextStep ==
  ASSUME TodoInv, todo # <<>>
  PROVE  /\ Program(todo) /\ Len(todo) > 0 /\ 1 \in 1 .. Len(todo) /\ Script(todo[1])
         /\ 1 \in 1 .. Len(todo[1]) /\ todo[1][1] \in Steps
         /\ Ready(todo[1][1]) /\ todo[1][1].op \in StepsOf(kind)
         /\ WillBeSevered(todo[1], ends, enabled)
<1>1. Program(todo) /\ OfKind(todo, kind) /\ WillBeSevered(todo[1], ends, enabled)
  BY DEF TodoInv
<1>2. todo \in Seq(Seq(Steps))
  BY <1>1 DEF Program
<1>3. Len(todo) > 0 /\ 1 \in 1 .. Len(todo)
  BY <1>2, SMT
<1>4. Script(todo[1])
  BY <1>1, <1>3 DEF Program
<1>5. todo[1] \in Seq(Steps) /\ Len(todo[1]) > 0
  BY <1>4 DEF Script
<1>6. 1 \in 1 .. Len(todo[1]) /\ todo[1][1] \in Steps
  <2> DEFINE s == todo[1]
  <2>1. s \in Seq(Steps) /\ Len(s) > 0
    BY <1>5, SMT
  <2> HIDE DEF s
  <2>2. 1 \in 1 .. Len(s) /\ s[1] \in Steps
    BY <2>1, SMT
  <2> QED
    BY <2>2, SMT DEF s
<1>7. Ready(todo[1][1])
  BY <1>3 DEF TodoInv
<1>8. todo[1][1].op \in StepsOf(kind)
  BY <1>1, <1>3, <1>6 DEF OfKind
<1> QED
  BY <1>1, <1>3, <1>4, <1>6, <1>7, <1>8

\* A new script cuts off whom it takes down.
LEMMA OpeningSevers ==
  ASSUME NEW s, Opening(s), NEW es, NEW en
  PROVE  WillBeSevered(s, es, en)
  BY DEF Opening, Severs, WillBeSevered

LEMMA Follows ==
  ASSUME NEW m, NEW n \in StepNames, m \in Before(n)
  PROVE  After(m, n)
  BY DEF Before, StepNames, After

LEMMA SenderOf ==
  ASSUME NEW x \in Steps
  PROVE  Sender(x) \in Peers
  BY DEF Steps, Sender

LEMMA NextTodo ==
  /\ TodoInv /\ Advance /\ TodoEffect(todo[1][1]) => TodoInv'
  /\ TodoInv /\ Advance => Remaining
\* What is left of a script.
<1>TailElements.
    ASSUME NEW S, NEW s \in Seq(S), Len(s) > 1
    PROVE  /\ Tail(s) \in Seq(S) /\ Len(Tail(s)) = Len(s) - 1
           /\ \A k \in 1 .. Len(s) - 1 : Tail(s)[k] = s[k + 1]
    BY <1>TailElements, SMT
<1>MoreThanOne.
    ASSUME NEW n \in Nat, n > 0, n # 1
    PROVE  n > 1
    BY <1>MoreThanOne, SMT
<1>TailScript.
    ASSUME NEW s, Script(s), Len(s) # 1
    PROVE  /\ Script(Tail(s)) /\ Full(Tail(s)) /\ Len(Tail(s)) = Len(s) - 1 /\ Len(s) \in Nat /\ Len(s) > 1
           /\ \A k \in 1 .. Len(Tail(s)) : Tail(s)[k] = s[k + 1] /\ k + 1 \in 1 .. Len(s)
           /\ Tail(s)[1].i = s[1].i /\ s[1].op \in Before(Tail(s)[1].op)
           /\ Tail(s)[Len(Tail(s))] = s[Len(s)]
           /\ Makes(s) <=> Making(s[1]) \/ Makes(Tail(s))
           /\ Links(s) <=> Linking(s[1]) \/ Links(Tail(s))
           /\ Making(s[1]) => ~Makes(Tail(s))
  <2> USE <1>TailScript
  <2> DEFINE t == Tail(s)
             n == Len(s) - 1
  <2>1. s \in Seq(Steps) /\ Len(s) > 0
    BY DEF Script
  <2>2. Len(s) \in Nat /\ Len(s) > 1
    <3>1. Len(s) \in Nat
      BY <2>1, SMT
    <3>2. Len(s) > 0 /\ Len(s) # 1
      BY <2>1, SMT
    <3> QED
      BY <3>1, <3>2, <1>MoreThanOne
  <2>3. t \in Seq(Steps) /\ Len(t) = n /\ \A k \in 1 .. n : t[k] = s[k + 1]
    BY <2>1, <2>2, <1>TailElements
  <2>4. /\ n \in Nat /\ n > 0 /\ 1 \in 1 .. n /\ n \in 1 .. n
        /\ 1 + 1 = 2 /\ n + 1 = Len(s) /\ 1 \in 1 .. Len(s)
        /\ \A k \in 1 .. n : k + 1 \in 1 .. Len(s) /\ k \in 1 .. Len(s) - 1 /\ 1 # k + 1
        /\ \A k \in 1 .. n - 1 : k \in 1 .. n /\ k + 1 \in 1 .. n /\ k + 1 \in 1 .. Len(s) - 1
        /\ \A k, l \in 1 .. n : k + 1 = l + 1 => k = l
        /\ \A k, l \in 1 .. n : l < k => l + 1 < k + 1
    BY <2>2, SMT
  <2>5. ASSUME NEW k \in 1 .. Len(s), k # 1 PROVE k - 1 \in 1 .. n /\ k = (k - 1) + 1
    BY <2>2, <2>5, SMT
  <2>6. /\ \A k \in 1 .. Len(s) : s[k].i = s[1].i
        /\ \A k \in 1 .. Len(s) - 1 : s[k].op \in Before(s[k + 1].op)
        /\ \A k, l \in 1 .. Len(s) : Making(s[k]) /\ Making(s[l]) => k = l
        /\ \A k, l \in 1 .. Len(s) : s[k].op = "kill" /\ l < k => s[l].op \in Quiet
    BY DEF Script
  <2> HIDE DEF t, n
  <2>7. ASSUME NEW k \in 1 .. n PROVE t[k].i = s[1].i
    <3>1. t[k] = s[k + 1] /\ k + 1 \in 1 .. Len(s)
      BY <2>3, <2>4
    <3> QED
      BY <2>6, <3>1
  <2>8. t[1] = s[1 + 1] /\ t[n] = s[n + 1] /\ s[1].op \in Before(t[1].op)
    <3>1. t[1] = s[1 + 1] /\ t[n] = s[n + 1]
      BY <2>3, <2>4
    <3>2. 1 \in 1 .. Len(s) - 1
      BY <2>2, SMT
    <3> QED
      BY <2>6, <3>1, <3>2
  <2>9. ASSUME NEW k \in 1 .. n - 1 PROVE t[k].op \in Before(t[k + 1].op)
    <3>1. t[k] = s[k + 1] /\ t[k + 1] = s[(k + 1) + 1] /\ k + 1 \in 1 .. Len(s) - 1
      BY <2>3, <2>4
    <3> QED
      BY <2>6, <3>1
  <2>10. ASSUME NEW k \in 1 .. n, NEW l \in 1 .. n, Making(t[k]), Making(t[l]) PROVE k = l
    <3>1. t[k] = s[k + 1] /\ t[l] = s[l + 1] /\ k + 1 \in 1 .. Len(s) /\ l + 1 \in 1 .. Len(s)
      BY <2>3, <2>4
    <3>2. k + 1 = l + 1
      BY <2>6, <2>10, <3>1
    <3> QED
      BY <2>4, <3>2
  <2>11. ASSUME NEW k \in 1 .. n, NEW l \in 1 .. n, t[k].op = "kill", l < k PROVE t[l].op \in Quiet
    <3>1. t[k] = s[k + 1] /\ t[l] = s[l + 1] /\ k + 1 \in 1 .. Len(s) /\ l + 1 \in 1 .. Len(s)
      BY <2>3, <2>4
    <3>2. l + 1 < k + 1
      BY <2>4, <2>11
    <3> QED
      BY <2>6, <2>11, <3>1, <3>2
  <2>12. 1 .. Len(t) = 1 .. n /\ 1 .. Len(t) - 1 = 1 .. n - 1 /\ Len(t) > 0
    BY <2>3, <2>4, SMT
  <2>13. Script(t)
    BY <2>3, <2>4, <2>7, <2>9, <2>10, <2>11, <2>12 DEF Script
  <2>14. t[1].op # "attach" /\ t[1].op # "detach"
    <3>1. Before("attach") = {} /\ Before("detach") = {}
      BY SMT DEF Before
    <3> QED
      BY <2>8, <3>1
  <2>15. Full(t)
    BY <2>14 DEF Full
  <2>16. /\ Makes(t) <=> \E k \in 1 .. n : Making(t[k])
         /\ Links(t) <=> \E k \in 1 .. n : Linking(t[k])
    BY <2>12 DEF Makes, Links
  <2>17. /\ Makes(s) <=> Making(s[1]) \/ Makes(t)
         /\ Links(s) <=> Linking(s[1]) \/ Links(t)
    <3>1. /\ Making(s[1]) \/ Makes(t) => Makes(s)
          /\ Linking(s[1]) \/ Links(t) => Links(s)
      BY <2>3, <2>4, <2>16 DEF Makes, Links
    <3>2. ASSUME NEW k \in 1 .. Len(s)
          PROVE  /\ Making(s[k]) => Making(s[1]) \/ Makes(t)
                 /\ Linking(s[k]) => Linking(s[1]) \/ Links(t)
      <4>1. CASE k = 1
        BY <4>1
      <4>2. CASE k # 1
        <5>1. k - 1 \in 1 .. n /\ t[k - 1] = s[k]
          BY <2>3, <2>5, <4>2
        <5> QED
          BY <2>16, <5>1
      <4> QED
        BY <4>1, <4>2, SMT
    <3> QED
      BY <3>1, <3>2 DEF Makes, Links
  <2>18. Making(s[1]) => ~Makes(t)
    <3>1. ASSUME Making(s[1]), NEW k \in 1 .. n, Making(t[k]) PROVE FALSE
      BY <2>3, <2>4, <2>6, <3>1
    <3> QED
      BY <2>16, <3>1
  <2>19. \A k \in 1 .. Len(t) : t[k] = s[k + 1] /\ k + 1 \in 1 .. Len(s)
    BY <2>3, <2>4, <2>12
  <2>20. t[Len(t)] = s[Len(s)] /\ t[1].i = s[1].i /\ Len(t) = Len(s) - 1
    BY <2>3, <2>4, <2>7, <2>8 DEF n
  <2> QED
    BY <2>2, <2>8, <2>13, <2>15, <2>17, <2>18, <2>19, <2>20 DEF t
<1>RestElements.
    ASSUME NEW S, NEW p \in Seq(S), Len(p) > 0, NEW r,
           r = RestProgram(p), Tail(p[1]) \in S
    PROVE  r \in Seq(S) /\ Left(p, r)
  <2> USE <1>RestElements
  <2>0. Len(p) \in Nat
    BY SMT
  <2>1. CASE Len(p[1]) = 1
    <3>1. r = Tail(p)
      BY <2>1 DEF RestProgram
    <3>2. \A a : From(p, a) = a + 1
      BY <2>1 DEF From
    <3>3. r \in Seq(S) /\ Len(r) = Len(p) - 1 /\ \A a \in 1 .. Len(p) - 1 : r[a] = p[a + 1]
      BY <3>1, SMT
    <3>4. \A a \in 1 .. Len(p) - 1 : a + 1 # 1
      BY <2>0, SMT
    <3> QED
      BY <2>0, <2>1, <3>2, <3>3, <3>4 DEF Left
  <2>2. CASE Len(p[1]) # 1
    <3>1. r = [p EXCEPT ![1] = Tail(p[1])]
      BY <2>2 DEF RestProgram
    <3>2. \A a : From(p, a) = a
      BY <2>2 DEF From
    <3> DEFINE t == Tail(p[1])
    <3> HIDE DEF t
    <3>3. r = [p EXCEPT ![1] = t] /\ t \in S
      BY <3>1 DEF t
    <3>4. r \in Seq(S) /\ Len(r) = Len(p) /\ r[1] = t /\ \A a \in 1 .. Len(p) : a # 1 => r[a] = p[a]
      BY <2>0, <3>3, SMT
    <3> QED
      BY <2>0, <2>2, <3>2, <3>4 DEF t, Left
  <2> QED
    BY <2>1, <2>2, SMT
<1>RestIsRestOf.
    ASSUME NEW p, Program(p), Len(p) > 0, NEW r, r = RestProgram(p)
    PROVE  r \in Seq(Seq(Steps)) /\ RestOf(p, r)
  <2> USE <1>RestIsRestOf
  <2> DEFINE S == Seq(Steps)
             n == Len(p)
             m == Len(r)
  <2>1. p \in Seq(S)
    BY DEF Program
  <2>2. n \in Nat
    BY <2>1, SMT
  <2>3. 1 \in 1 .. n
    <3>1. n > 0
      BY SMT
    <3> QED
      BY <2>2, <3>1, SMT
  <2>4. p[1] \in S /\ Len(p[1]) > 0
    BY <2>3 DEF Program, Script
  <2>5. Tail(p[1]) \in S
    <3> DEFINE s == p[1]
    <3>1. s \in Seq(Steps) /\ Len(s) > 0
      BY <2>4, SMT
    <3> HIDE DEF s
    <3>2. Tail(s) \in Seq(Steps)
      BY <3>1, SMT
    <3> QED
      BY <3>2, SMT DEF s
  <2> HIDE DEF S
  <2>6. /\ r \in Seq(S)
        /\ Len(p[1]) = 1 => m = n - 1
        /\ Len(p[1]) # 1 => m = n
        /\ \A a \in 1 .. m : From(p, a) # 1 => r[a] = p[From(p, a)]
        /\ \A a \in 1 .. m : From(p, a) = 1 => r[a] = Tail(p[1])
    <3>1. r \in Seq(S) /\ Left(p, r)
      BY <2>1, <2>5, <1>RestElements
    <3> QED
      BY <3>1 DEF Left
  <2> HIDE DEF n, m
  <2>7. CASE Len(p[1]) = 1
    <3>1. m = n - 1 /\ \A a : From(p, a) = a + 1
      BY <2>6, <2>7 DEF From
    <3>2. /\ \A a \in 1 .. m : a + 1 \in 1 .. n /\ a + 1 # 1 /\ a + 1 \in 2 .. n
          /\ \A a \in 2 .. m : a \in 1 .. m /\ a + 1 \in 2 .. n
          /\ \A a, b \in 1 .. m : (a + 1 = b + 1 => a = b) /\ (a + 1 < b + 1 => a < b)
          /\ \A b \in 2 .. n : b \in 1 .. n /\ b # 1 /\ ~(b < 1)
      BY <2>2, <3>1, SMT
    <3>3. ASSUME NEW b \in 2 .. n PROVE b - 1 \in 1 .. m /\ (b - 1) + 1 = b
      BY <2>2, <3>1, SMT
    <3>4. \A b \in 2 .. n : \E a \in 1 .. m : a + 1 = b
      BY <3>3
    <3>5. \A a \in 1 .. m : r[a] = p[From(p, a)]
      BY <2>6, <3>1, <3>2
    <3>6. /\ \A a \in 1 .. m : From(p, a) \in 1 .. n /\ From(p, a) # 1 /\ From(p, a) \in 2 .. n
          /\ \A a \in 2 .. m : a \in 1 .. m /\ From(p, a) \in 2 .. n
      <4>1. ASSUME NEW a \in 1 .. m PROVE From(p, a) \in 1 .. n /\ From(p, a) # 1 /\ From(p, a) \in 2 .. n
        <5>1. From(p, a) = a + 1
          BY <3>1
        <5> QED
          BY <2>2, <3>1, <5>1, SMT
      <4>2. \A a \in 2 .. m : a \in 1 .. m
        BY <3>2
      <4> QED
        BY <4>1, <4>2
    <3>7. ASSUME NEW a \in 1 .. m, NEW b \in 1 .. m
          PROVE  (From(p, a) = From(p, b) => a = b) /\ (From(p, a) < From(p, b) => a < b)
      <4>1. From(p, a) = a + 1 /\ From(p, b) = b + 1
        BY <3>1
      <4> QED
        BY <2>2, <3>1, <4>1, SMT
    <3>8. \A b \in 2 .. n : \E a \in 1 .. m : From(p, a) = b
      BY <3>1, <3>4
    <3>9. RestOf(p, r)
      BY <2>3, <2>7, <3>2, <3>5, <3>6, <3>7, <3>8 DEF RestOf, n, m
    <3> QED
      BY <2>6, <3>9 DEF S
  <2>8. CASE Len(p[1]) # 1
    <3>1. m = n /\ \A a : From(p, a) = a
      BY <2>6, <2>8 DEF From
    <3>2. /\ \A a \in 1 .. n : a # 1 => a \in 2 .. n
          /\ \A b \in 2 .. n : b \in 1 .. n /\ b # 1 /\ ~(b < 1)
      BY <2>2, SMT
    <3>3. \A a \in 1 .. m : (From(p, a) # 1 => r[a] = p[From(p, a)] /\ From(p, a) \in 2 .. n)
      BY <2>6, <3>1, <3>2
    <3>4. \A a \in 1 .. m : (From(p, a) = 1 => a = 1 /\ r[a] = Tail(p[1]))
      BY <2>6, <3>1
    <3>5. /\ \A a \in 1 .. m : From(p, a) \in 1 .. n
          /\ \A a \in 2 .. m : a \in 1 .. m /\ From(p, a) \in 2 .. n
          /\ \A a, b \in 1 .. m : (From(p, a) = From(p, b) => a = b) /\ (From(p, a) < From(p, b) => a < b)
      <4>1. \A a \in 1 .. m : From(p, a) \in 1 .. n
        BY <3>1
      <4>2. \A a \in 2 .. m : a \in 1 .. m /\ From(p, a) \in 2 .. n
        BY <3>1, <3>2
      <4>3. ASSUME NEW a \in 1 .. m, NEW b \in 1 .. m
            PROVE  (From(p, a) = From(p, b) => a = b) /\ (From(p, a) < From(p, b) => a < b)
        <5>1. From(p, a) = a /\ From(p, b) = b
          BY <3>1
        <5> QED
          BY <5>1
      <4> QED
        BY <4>1, <4>2, <4>3
    <3>6. /\ 1 \in 1 .. m /\ From(p, 1) = 1
          /\ \A b \in 2 .. n : \E a \in 1 .. m : From(p, a) = b
      BY <2>3, <3>1, <3>2
    <3>7. RestOf(p, r)
      BY <2>3, <2>8, <3>2, <3>3, <3>4, <3>5, <3>6 DEF RestOf, n, m
    <3> QED
      BY <2>6, <3>7 DEF S
  <2> QED
    BY <2>7, <2>8, SMT
<1>TailSuffix.
    ASSUME NEW s, Script(s), Len(s) # 1
    PROVE  Suffix(s, Tail(s))
    BY <1>TailSuffix, <1>TailScript DEF Suffix
<1>RestSuffix.
    ASSUME NEW p, Program(p), NEW r, RestOf(p, r)
    PROVE  \A a \in 1 .. Len(r) : Suffix(p[From(p, a)], r[a])
  <2> USE <1>RestSuffix
  <2> SUFFICES ASSUME NEW a \in 1 .. Len(r) PROVE Suffix(p[From(p, a)], r[a])
    OBVIOUS
  <2>1. From(p, a) \in 1 .. Len(p) /\ 1 \in 1 .. Len(p)
    BY DEF RestOf
  <2>2. Script(p[1]) /\ Script(p[From(p, a)]) /\ Full(p[From(p, a)])
    BY <2>1 DEF Program
  <2>3. CASE From(p, a) = 1
    <3>1. r[a] = Tail(p[1]) /\ Len(p[1]) # 1
      BY <2>3 DEF RestOf
    <3>2. Suffix(p[1], Tail(p[1]))
      BY <2>2, <3>1, <1>TailSuffix
    <3> QED
      BY <2>3, <3>1, <3>2
  <2>4. CASE From(p, a) # 1
    <3>1. r[a] = p[From(p, a)]
      BY <2>4 DEF RestOf
    <3> QED
      BY <2>2, <3>1 DEF Suffix
  <2> QED
    BY <2>3, <2>4
\* What is left of a program is one.
<1>RestIsProgram.
    ASSUME NEW p, Program(p), Len(p) > 0, NEW r, r = RestProgram(p)
    PROVE  Program(r) /\ RestOf(p, r)
  <2> USE <1>RestIsProgram
  <2>0. r \in Seq(Seq(Steps)) /\ RestOf(p, r)
    BY <1>RestIsRestOf
  <2>1. ASSUME NEW a \in 1 .. Len(r) PROVE Suffix(p[From(p, a)], r[a]) /\ From(p, a) \in 1 .. Len(p)
    BY <2>0, <1>RestSuffix DEF RestOf
  <2>2. \A a \in 1 .. Len(r) : Script(r[a]) /\ Full(r[a])
    BY <2>1 DEF Suffix
  <2>3. ASSUME NEW a \in 2 .. Len(r) PROVE Opening(r[a])
    <3>1. a \in 1 .. Len(r) /\ From(p, a) \in 2 .. Len(p)
      BY <2>0 DEF RestOf
    <3>2. From(p, a) # 1
      BY <2>0, <3>1 DEF RestOf
    <3>3. r[a] = p[From(p, a)]
      BY <2>0, <3>1, <3>2 DEF RestOf
    <3> QED
      BY <3>1, <3>3 DEF Program
  <2>4. ASSUME NEW a \in 1 .. Len(r), NEW b \in 1 .. Len(r), Makes(r[a]), Makes(r[b]), r[a][1].i = r[b][1].i
        PROVE  a = b
    <3>1. /\ Makes(p[From(p, a)]) /\ Makes(p[From(p, b)]) /\ p[From(p, a)][1].i = p[From(p, b)][1].i
          /\ From(p, a) \in 1 .. Len(p) /\ From(p, b) \in 1 .. Len(p)
      BY <2>1, <2>4 DEF Suffix
    <3>2. From(p, a) = From(p, b)
      BY <3>1 DEF Program
    <3> QED
      BY <2>0, <3>2 DEF RestOf
  <2>5. ASSUME NEW a \in 1 .. Len(r), NEW b \in 1 .. Len(r), Makes(r[a]), Links(r[b])
        PROVE  a < b
    <3>1. /\ Makes(p[From(p, a)]) /\ Links(p[From(p, b)])
          /\ From(p, a) \in 1 .. Len(p) /\ From(p, b) \in 1 .. Len(p)
      BY <2>1, <2>5 DEF Suffix
    <3>2. From(p, a) < From(p, b)
      BY <3>1 DEF Program
    <3> QED
      BY <2>0, <3>2 DEF RestOf
  <2>6. ASSUME NEW a \in 1 .. Len(r), NEW b \in 1 .. Len(r), r[a][Len(r[a])].op = "kill"
        PROVE  ~Links(r[b])
    <3>1. /\ p[From(p, a)][Len(p[From(p, a)])].op = "kill" /\ (Links(r[b]) => Links(p[From(p, b)]))
          /\ From(p, a) \in 1 .. Len(p) /\ From(p, b) \in 1 .. Len(p)
      BY <2>1, <2>6 DEF Suffix
    <3> QED
      BY <3>1 DEF Program
  <2> QED
    BY <2>0, <2>2, <2>3, <2>4, <2>5, <2>6 DEF Program
<1>RestOfKind.
    ASSUME NEW p, Program(p), NEW r, RestOf(p, r), NEW what, OfKind(p, what)
    PROVE  OfKind(r, what)
  <2> USE <1>RestOfKind
  <2> SUFFICES ASSUME NEW a \in 1 .. Len(r), NEW k \in 1 .. Len(r[a]) PROVE r[a][k].op \in StepsOf(what)
    BY DEF OfKind
  <2>1. From(p, a) \in 1 .. Len(p) /\ 1 \in 1 .. Len(p)
    BY DEF RestOf
  <2>2. CASE From(p, a) = 1
    <3>1. r[a] = Tail(p[1]) /\ Len(p[1]) # 1
      BY <2>2 DEF RestOf
    <3>2. Script(p[1])
      BY <2>1 DEF Program
    <3>3. \A l \in 1 .. Len(Tail(p[1])) : Tail(p[1])[l] = p[1][l + 1] /\ l + 1 \in 1 .. Len(p[1])
      BY <3>1, <3>2, <1>TailScript
    <3> QED
      BY <2>1, <3>1, <3>3 DEF OfKind
  <2>3. CASE From(p, a) # 1
    <3>1. r[a] = p[From(p, a)]
      BY <2>3 DEF RestOf
    <3> QED
      BY <2>1, <3>1 DEF OfKind
  <2> QED
    BY <2>2, <2>3
<1>NextProgram.
    ASSUME TodoInv, Advance
    PROVE  Program(todo)' /\ OfKind(todo, kind)' /\ RestOf(todo, todo')
  <2> USE <1>NextProgram
  <2>1. Program(todo) /\ Len(todo) > 0 /\ OfKind(todo, kind) /\ todo' = RestProgram(todo) /\ kind' = kind
    BY NextStep DEF Advance, TodoInv, Rest, RestProgram
  <2>2. Program(todo') /\ RestOf(todo, todo')
    BY <2>1, <1>RestIsProgram
  <2>3. OfKind(todo', kind)
    BY <2>1, <2>2, <1>RestOfKind
  <2> QED
    BY <2>1, <2>2, <2>3
\* A server is made once.
<1>NextMade.
    ASSUME TodoInv, Advance, NEW a \in 1 .. Len(todo'), Makes(todo'[a])
    PROVE  /\ From(todo, a) \in 1 .. Len(todo) /\ Makes(todo[From(todo, a)])
           /\ todo[From(todo, a)][1].i = todo'[a][1].i
           /\ Making(todo[1][1]) => todo'[a][1].i # todo[1][1].i
  <2> USE <1>NextMade
  <2> DEFINE b == From(todo, a)
  <2>1. Program(todo) /\ RestOf(todo, todo')
    BY <1>NextProgram DEF TodoInv
  <2>2. Suffix(todo[b], todo'[a]) /\ b \in 1 .. Len(todo)
    BY <2>1, <1>RestSuffix DEF RestOf
  <2>3. Makes(todo[b]) /\ todo[b][1].i = todo'[a][1].i
    BY <2>2 DEF Suffix
  <2>4. ASSUME Making(todo[1][1]), todo'[a][1].i = todo[1][1].i
        PROVE  FALSE
    <3>1. 1 \in 1 .. Len(todo) /\ 1 \in 1 .. Len(todo[1]) /\ Script(todo[1])
      BY NextStep DEF Advance
    <3>2. Makes(todo[1])
      BY <2>4, <3>1 DEF Makes
    <3>3. b = 1
      BY <2>1, <2>2, <2>3, <2>4, <3>1, <3>2 DEF Program
    <3>4. todo'[a] = Tail(todo[1]) /\ Len(todo[1]) # 1
      BY <2>1, <3>3 DEF RestOf
    <3> QED
      BY <2>4, <3>1, <3>4, <1>TailScript
  <2> QED
    BY <2>2, <2>3, <2>4
<1>NotFirst.
    ASSUME NEW n \in Nat, NEW b \in 1 .. n, b # 1
    PROVE  b \in 2 .. n
    BY <1>NotFirst, SMT
<1>OnlyStep.
    ASSUME NEW s, Len(s) = 1
    PROVE  (Makes(s) <=> Making(s[1])) /\ (Links(s) <=> Linking(s[1]))
  <2> USE <1>OnlyStep
  <2>1. \A k \in 1 .. Len(s) : k = 1
    BY SMT
  <2>2. 1 \in 1 .. Len(s)
    BY SMT
  <2> QED
    BY <2>1, <2>2 DEF Makes, Links
<1>StillToBeMade.
    ASSUME TodoInv, Advance, NEW i, ToBeMade(todo, i)
    PROVE  ToBeMade(todo', i) \/ (Making(todo[1][1]) /\ i = todo[1][1].i)
  <2> USE <1>StillToBeMade
  <2>1. PICK b \in 1 .. Len(todo) : Makes(todo[b]) /\ todo[b][1].i = i
    BY DEF ToBeMade
  <2>2. RestOf(todo, todo') /\ Script(todo[1])
    BY <1>NextProgram, NextStep DEF Advance
  <2>3. Len(todo) \in Nat
    <3>1. todo \in Seq(Seq(Steps))
      BY DEF TodoInv, Program
    <3> QED
      BY <3>1, SMT
  <2>4. CASE b # 1
    <3>1. b \in 2 .. Len(todo)
      BY <2>3, <2>4, <1>NotFirst
    <3>2. PICK a \in 1 .. Len(todo') : From(todo, a) = b
      BY <2>2, <3>1 DEF RestOf
    <3>3. todo'[a] = todo[b]
      BY <2>2, <2>4, <3>2 DEF RestOf
    <3> QED
      BY <2>1, <3>3 DEF ToBeMade
  <2>5. CASE b = 1 /\ Len(todo[1]) = 1
    BY <2>1, <2>5, <1>OnlyStep
  <2>6. CASE b = 1 /\ Len(todo[1]) # 1
    <3>1. 1 \in 1 .. Len(todo') /\ From(todo, 1) = 1
      BY <2>2, <2>6 DEF RestOf
    <3>2. todo'[1] = Tail(todo[1])
      BY <2>2, <3>1 DEF RestOf
    <3>3. (Makes(todo[1]) <=> Making(todo[1][1]) \/ Makes(Tail(todo[1]))) /\ Tail(todo[1])[1].i = todo[1][1].i
      BY <2>2, <2>6, <1>TailScript
    <3> QED
      BY <2>1, <2>6, <3>1, <3>2, <3>3 DEF ToBeMade
  <2> QED
    BY <2>4, <2>5, <2>6
\* Where a script of what is left begins.
<1>NextScript.
    ASSUME TodoInv, Advance, NEW a \in 1 .. Len(todo')
    PROVE  /\ todo'[a] \in Seq(Steps) /\ Script(todo'[a]) /\ 1 \in 1 .. Len(todo'[a]) /\ todo'[a][1] \in Steps
           /\ \/ /\ From(todo, a) = 1 /\ todo'[a] = Tail(todo[1]) /\ Len(todo[1]) # 1
                 /\ todo'[a][1].i = todo[1][1].i /\ todo[1][1].op \in Before(todo'[a][1].op)
              \/ /\ From(todo, a) # 1 /\ From(todo, a) \in 2 .. Len(todo) /\ todo'[a] = todo[From(todo, a)]
                 /\ From(todo, a) \in 1 .. Len(todo) /\ Opening(todo'[a])
  <2> USE <1>NextScript
  <2>1. Program(todo) /\ Program(todo') /\ RestOf(todo, todo') /\ Script(todo[1])
    BY <1>NextProgram, NextStep DEF Advance
  <2>2. Script(todo'[a])
    BY <2>1 DEF Program
  <2>3. todo'[a] \in Seq(Steps) /\ Len(todo'[a]) > 0
    BY <2>2 DEF Script
  <2>4. 1 \in 1 .. Len(todo'[a]) /\ todo'[a][1] \in Steps
    <3> DEFINE s == todo'[a]
    <3>1. s \in Seq(Steps) /\ Len(s) > 0
      BY <2>3, SMT
    <3> HIDE DEF s
    <3>2. 1 \in 1 .. Len(s) /\ s[1] \in Steps
      BY <3>1, SMT
    <3> QED
      BY <3>2, SMT DEF s
  <2>5. CASE From(todo, a) = 1
    <3>1. todo'[a] = Tail(todo[1]) /\ Len(todo[1]) # 1
      BY <2>1, <2>5 DEF RestOf
    <3>2. Tail(todo[1])[1].i = todo[1][1].i /\ todo[1][1].op \in Before(Tail(todo[1])[1].op)
      BY <2>1, <3>1, <1>TailScript
    <3> QED
      BY <2>2, <2>3, <2>4, <2>5, <3>1, <3>2
  <2>6. CASE From(todo, a) # 1
    <3>1. From(todo, a) \in 2 .. Len(todo) /\ todo'[a] = todo[From(todo, a)] /\ From(todo, a) \in 1 .. Len(todo)
      BY <2>1, <2>6 DEF RestOf
    <3>2. Opening(todo'[a])
      BY <2>1, <3>1 DEF Program
    <3> QED
      BY <2>2, <2>3, <2>4, <2>6, <3>1, <3>2
  <2> QED
    BY <2>5, <2>6
<1>NextReady.
    ASSUME TodoInv, Advance, TodoEffect(todo[1][1]), NEW a \in 1 .. Len(todo')
    PROVE  ReadyWhen(todo'[a][1], connected', servers', attached', running')
  <2> USE <1>NextReady
  <2> DEFINE o == todo[1][1]
             x == todo'[a][1]
  <2>1. x \in Steps /\ 1 \in 1 .. Len(todo'[a])
    BY <1>NextScript
  <2>2. CASE From(todo, a) = 1
    <3>1. x.i = o.i /\ o.op \in Before(x.op)
      BY <2>2, <1>NextScript
    <3> HIDE DEF x
    <3>2. ReadyWhen(x, connected', servers', attached', running')
      BY <2>1, <3>1 DEF TodoEffect
    <3> QED
      BY <3>2, SMT DEF x
  <2>3. CASE From(todo, a) # 1
    <3>1. todo'[a] = todo[From(todo, a)] /\ From(todo, a) \in 1 .. Len(todo) /\ Opening(todo'[a])
      BY <2>3, <1>NextScript
    <3>2. x.op \in {"attach", "detach", "make", "make enabled", "unlink out", "link out"}
      BY <3>1 DEF Opening
    <3>3. ASSUME Making(x) PROVE ~running'[x.i]
      <4>1. Makes(todo'[a])
        BY <2>1, <3>3 DEF Makes
      <4>2. Making(o) => x.i # o.i
        BY <4>1, <1>NextMade
      <4>3. Ready(x)
        BY <3>1 DEF TodoInv
      <4>4. ~running[x.i]
        BY <3>3, <4>3 DEF Ready, ReadyWhen
      <4>5. x.i \in Peers
        BY <2>1, SMT DEF Steps
      <4> HIDE DEF x
      <4> QED
        BY <4>2, <4>4, <4>5 DEF TodoEffect
    <3> HIDE DEF x
    <3>4. ReadyWhen(x, connected', servers', attached', running')
      BY <3>2, <3>3 DEF ReadyWhen
    <3> QED
      BY <3>4, SMT DEF x
  <2> QED
    BY <2>2, <2>3, SMT
<1>SmallerIndex.
    ASSUME NEW n \in Nat, NEW k \in 1 .. n - 1, NEW l \in 1 .. (k + 1) - 1, l # 1
    PROVE  l - 1 \in 1 .. k - 1 /\ (l - 1) + 1 = l /\ l - 1 \in 1 .. n - 1
    BY <1>SmallerIndex, SMT
<1>LaterIndex.
    ASSUME NEW n \in Nat, NEW k \in 1 .. n - 1
    PROVE  k + 1 \in 1 .. n /\ 1 < k + 1
    BY <1>LaterIndex, SMT
<1>NextSevered.
    ASSUME TodoInv, Advance, TodoEffect(todo[1][1]), todo' # <<>>
    PROVE  WillBeSevered(todo'[1], ends', enabled')
  <2> USE <1>NextSevered
  <2> DEFINE s == todo[1]
             t == todo'[1]
             o == s[1]
  <2>1. 1 \in 1 .. Len(todo')
    <3>1. todo' \in Seq(Seq(Steps))
      BY <1>NextProgram DEF Program
    <3> QED
      BY <3>1, SMT
  <2>2. CASE Opening(t)
    BY <2>2, OpeningSevers
  <2>3. CASE ~Opening(t)
    <3>1. t = Tail(s) /\ Len(s) # 1
      BY <2>1, <2>3, <1>NextScript
    <3>2. Script(s) /\ WillBeSevered(s, ends, enabled) /\ 1 \in 1 .. Len(s)
      BY NextStep DEF Advance
    <3>3. Len(t) = Len(s) - 1 /\ Len(s) \in Nat /\ \A k \in 1 .. Len(t) : t[k] = s[k + 1]
      <4>1. Len(Tail(s)) = Len(s) - 1 /\ Len(s) \in Nat
        BY <3>1, <3>2, <1>TailScript
      <4>2. \A k \in 1 .. Len(Tail(s)) : Tail(s)[k] = s[k + 1]
        BY <3>1, <3>2, <1>TailScript
      <4> HIDE DEF s, t
      <4> QED
        BY <3>1, <4>1, <4>2
    <3> HIDE DEF s, t
    <3>4. ASSUME NEW k \in 1 .. Len(t), t[k].op = "kill", NEW j \in Peers
          PROVE  Severed(t[k].i, j, ends', enabled') \/ \E l \in 1 .. k - 1 : Cutting(t[l], j)
      <4>1. k \in 1 .. Len(s) - 1 /\ t[k] = s[k + 1]
        BY <3>3
      <4>2. k + 1 \in 1 .. Len(s) /\ 1 < k + 1
        BY <3>3, <4>1, <1>LaterIndex
      <4>3. s[k + 1].op = "kill" /\ s[k + 1].i = o.i /\ s[k + 1] \in Steps
        <5>1. s \in Seq(Steps)
          BY <3>2 DEF Script
        <5>2. s[k + 1] \in Steps
          BY <4>2, <5>1, SMT
        <5> QED
          BY <3>2, <3>4, <4>1, <4>2, <5>2 DEF Script
      <4>4. o.op \in Quiet
        BY <3>2, <4>2, <4>3 DEF Script
      <4>5. o.i \in Peers
        BY <4>3, SMT DEF Steps
      <4>6. Severed(o.i, j, ends, enabled) \/ \E l \in 1 .. (k + 1) - 1 : Cutting(s[l], j)
        BY <3>2, <4>2, <4>3 DEF WillBeSevered
      <4>7. TodoEffect(o)
        BY DEF s
      <4>8. CASE Severed(o.i, j, ends, enabled)
        <5>1. Severed(o.i, j, ends', enabled')
          BY <4>4, <4>5, <4>7, <4>8 DEF TodoEffect
        <5> QED
          BY <4>1, <4>3, <5>1
      <4>9. CASE \E l \in 1 .. (k + 1) - 1 : Cutting(s[l], j)
        <5>1. PICK l \in 1 .. (k + 1) - 1 : Cutting(s[l], j)
          BY <4>9, SMT
        <5>2. CASE l = 1
          <6>1. Severed(o.i, j, ends', enabled')
            BY <4>7, <5>1, <5>2 DEF TodoEffect
          <6> QED
            BY <4>1, <4>3, <6>1
        <5>3. CASE l # 1
          <6>1. l - 1 \in 1 .. k - 1 /\ (l - 1) + 1 = l /\ l - 1 \in 1 .. Len(s) - 1
            BY <3>3, <4>1, <5>3, <1>SmallerIndex, SMT
          <6>2. t[l - 1] = s[l]
            BY <3>3, <6>1
          <6> QED
            BY <5>1, <6>1, <6>2
        <5> QED
          BY <5>2, <5>3, SMT
      <4> QED
        BY <4>6, <4>8, <4>9, SMT
    <3>5. WillBeSevered(t, ends', enabled')
      BY <3>4 DEF WillBeSevered
    <3> QED
      BY <3>5, SMT DEF t
  <2> QED
    BY <2>2, <2>3, SMT
\* What is left was there before.
<1>NextAt.
    ASSUME TodoInv, Advance, NEW a \in 1 .. Len(todo'), NEW k \in 1 .. Len(todo'[a])
    PROVE  \E b \in 1 .. Len(todo) : \E l \in 1 .. Len(todo[b]) : todo[b][l] = todo'[a][k]
  <2> USE <1>NextAt
  <2>1. CASE From(todo, a) = 1
    <3>1. todo'[a] = Tail(todo[1]) /\ Len(todo[1]) # 1
      BY <2>1, <1>NextScript
    <3>2. Script(todo[1]) /\ 1 \in 1 .. Len(todo)
      BY NextStep DEF Advance
    <3>3. \A l \in 1 .. Len(Tail(todo[1])) : Tail(todo[1])[l] = todo[1][l + 1] /\ l + 1 \in 1 .. Len(todo[1])
      BY <3>1, <3>2, <1>TailScript
    <3> QED
      BY <3>1, <3>2, <3>3
  <2>2. CASE From(todo, a) # 1
    BY <2>2, <1>NextScript
  <2> QED
    BY <2>1, <2>2, SMT
\* Who is taken down is made again, if somebody is to be linked.
<1>KilledIsMade.
    ASSUME TodoInv, Advance, todo[1][1].op = "kill", NEW b \in 1 .. Len(todo), Links(todo[b])
    PROVE  ToBeMade(todo', todo[1][1].i)
  <2> USE <1>KilledIsMade
  <2>1. Program(todo) /\ 1 \in 1 .. Len(todo) /\ Script(todo[1]) /\ RestOf(todo, todo')
    BY NextStep, <1>NextProgram DEF Advance
  <2>2. Len(todo[1]) # 1
    BY <2>1 DEF Program
  <2>3. 1 \in 1 .. Len(todo') /\ From(todo, 1) = 1
    BY <2>1, <2>2 DEF RestOf
  <2>4. /\ todo'[1][1].i = todo[1][1].i /\ todo[1][1].op \in Before(todo'[1][1].op)
        /\ 1 \in 1 .. Len(todo'[1]) /\ todo'[1][1] \in Steps
    BY <2>3, <1>NextScript
  <2>5. todo'[1][1].op \in StepNames
    BY <2>4, SMT DEF Steps
  <2>6. todo'[1][1].op = "make"
    <3>1. After(todo[1][1].op, todo'[1][1].op)
      BY <2>4, <2>5, Follows
    <3> QED
      BY <3>1 DEF After
  <2>7. Makes(todo'[1])
    BY <2>4, <2>6 DEF Makes, Making
  <2> QED
    BY <2>3, <2>4, <2>7 DEF ToBeMade
<1>NextSenders.
    ASSUME TodoInv, Advance, TodoEffect(todo[1][1])
    PROVE  SendersRun'
  <2> USE <1>NextSenders
  <2> DEFINE o == todo[1][1]
  <2> SUFFICES ASSUME NEW a \in 1 .. Len(todo'), NEW k \in 1 .. Len(todo'[a]), Linking(todo'[a][k])
               PROVE  running'[Sender(todo'[a][k])] \/ ToBeMade(todo', Sender(todo'[a][k]))
    BY DEF SendersRun
  <2> DEFINE x == todo'[a][k]
             w == Sender(x)
  <2>1. PICK b \in 1 .. Len(todo) : \E l \in 1 .. Len(todo[b]) : todo[b][l] = x
    BY <1>NextAt
  <2>2. Linking(x) /\ Links(todo[b])
    BY <2>1 DEF Links
  <2>3. x \in Steps
    <3>1. todo'[a] \in Seq(Steps)
      BY <1>NextScript
    <3> QED
      BY <3>1, SMT
  <2>4. w \in Peers
    BY <2>3, SenderOf
  <2>5. running[w] \/ ToBeMade(todo, w)
    BY <2>1 DEF TodoInv, SendersRun
  <2> HIDE DEF x, w
  <2>6. CASE running[w]
    <3>1. running'[w] \/ (o.op = "kill" /\ w = o.i)
      BY <2>4, <2>6 DEF TodoEffect
    <3>2. ASSUME o.op = "kill" /\ w = o.i PROVE ToBeMade(todo', w)
      BY <2>2, <3>2, <1>KilledIsMade
    <3>3. running'[w] \/ ToBeMade(todo', w)
      BY <3>1, <3>2
    <3> QED
      BY <3>3 DEF w, x
  <2>7. CASE ToBeMade(todo, w)
    <3>1. ToBeMade(todo', w) \/ (Making(o) /\ w = o.i)
      BY <2>7, <1>StillToBeMade
    <3>2. running'[w] \/ ToBeMade(todo', w)
      BY <3>1 DEF TodoEffect
    <3> QED
      BY <3>2 DEF w, x
  <2> QED
    BY <2>5, <2>6, <2>7, SMT
<1>NextMayStart.
    ASSUME TodoInv, Advance, TodoEffect(todo[1][1])
    PROVE  MayStart'
  <2> USE <1>NextMayStart
  <2> SUFFICES ASSUME NEW a \in 1 .. Len(todo'), Makes(todo'[a])
               PROVE  gen'[todo'[a][1].i] < MaxStarts
    BY DEF MayStart
  <2> DEFINE i == todo'[a][1].i
             b == From(todo, a)
  <2>1. b \in 1 .. Len(todo) /\ Makes(todo[b]) /\ todo[b][1].i = i
    BY <1>NextMade
  <2>2. Making(todo[1][1]) => i # todo[1][1].i
    BY <1>NextMade
  <2>3. i \in Peers
    <3>1. todo'[a][1] \in Steps
      BY <1>NextScript
    <3> QED
      BY <3>1, SMT DEF Steps
  <2>4. gen[i] < MaxStarts
    BY <2>1 DEF TodoInv, MayStart
  <2> HIDE DEF i
  <2>5. gen'[i] = gen[i]
    BY <2>2, <2>3 DEF TodoEffect
  <2>6. gen'[i] < MaxStarts
    BY <2>4, <2>5
  <2> QED
    BY <2>6, SMT DEF i
<1>NextTodo.
    ASSUME TodoInv, Advance, TodoEffect(todo[1][1])
    PROVE  TodoInv'
  <2> USE <1>NextTodo
  <2>1. \A a \in 1 .. Len(todo') : ReadyWhen(todo'[a][1], connected', servers', attached', running')
    BY <1>NextReady
  <2>2. (\A a \in 1 .. Len(todo) : Ready(todo[a][1]))'
    BY <2>1 DEF Ready
  <2> QED
    BY <2>2, <1>NextProgram, <1>NextSevered, <1>NextSenders, <1>NextMayStart DEF TodoInv
<1>SecondStep.
    ASSUME NEW s, NEW l \in 1 .. Len(s), l # 1
    PROVE  Len(s) # 1
  <2>1. Len(s) = 1 => \A k \in 1 .. Len(s) : k = 1
    BY SMT
  <2> QED
    BY <2>1, <1>SecondStep
\* What was there before is left, except the step that was taken.
<1>NextPlace.
    ASSUME TodoInv, Advance, NEW b \in 1 .. Len(todo), NEW l \in 1 .. Len(todo[b])
    PROVE  \/ todo[b][l] = todo[1][1]
           \/ \E a \in 1 .. Len(todo') : \E k \in 1 .. Len(todo'[a]) : todo'[a][k] = todo[b][l]
  <2> USE <1>NextPlace
  <2>1. RestOf(todo, todo') /\ Script(todo[1])
    BY <1>NextProgram, NextStep DEF Advance
  <2>2. CASE b # 1
    <3>1. todo \in Seq(Seq(Steps))
      BY DEF TodoInv, Program
    <3>2. Len(todo) \in Nat
      BY <3>1, SMT
    <3>3. b \in 2 .. Len(todo)
      BY <2>2, <3>2, <1>NotFirst
    <3>4. PICK a \in 1 .. Len(todo') : From(todo, a) = b
      BY <2>1, <3>3 DEF RestOf
    <3>5. todo'[a] = todo[b]
      BY <2>1, <2>2, <3>4 DEF RestOf
    <3> QED
      BY <3>5
  <2>3. CASE b = 1 /\ l # 1
    <3> DEFINE s == todo[1]
               t == Tail(s)
    <3>0. l \in 1 .. Len(s) /\ l # 1
      BY <2>3
    <3>1. Len(s) # 1
      BY <3>0, <1>SecondStep
    <3>2. 1 \in 1 .. Len(todo') /\ todo'[1] = t
      BY <2>1, <3>1 DEF RestOf
    <3>3. Len(t) = Len(s) - 1 /\ Len(s) \in Nat /\ \A k \in 1 .. Len(t) : t[k] = s[k + 1]
      BY <2>1, <3>1, <1>TailScript
    <3>4. l \in 1 .. Len(s)
      BY <2>3
    <3> HIDE DEF s, t
    <3>5. l - 1 \in 1 .. Len(t) /\ (l - 1) + 1 = l
      BY <2>3, <3>3, <3>4, SMT
    <3>6. t[l - 1] = s[l]
      BY <3>3, <3>5
    <3> QED
      BY <2>3, <3>2, <3>5, <3>6 DEF s
  <2> QED
    BY <2>2, <2>3
<1>NextPending.
    ASSUME TodoInv, Advance
    PROVE  Remaining
  <2> USE <1>NextPending
  <2>1. ASSUME NEW x \in Pending(todo') PROVE x \in Pending(todo)
    <3>1. x \in Steps /\ \E a \in 1 .. Len(todo') : \E k \in 1 .. Len(todo'[a]) : todo'[a][k] = x
      BY <2>1 DEF Pending
    <3>a. PICK a \in 1 .. Len(todo') : \E k \in 1 .. Len(todo'[a]) : todo'[a][k] = x
      BY <3>1
    <3>2. PICK k \in 1 .. Len(todo'[a]) : todo'[a][k] = x
      BY <3>a
    <3>3. \E b \in 1 .. Len(todo) : \E l \in 1 .. Len(todo[b]) : todo[b][l] = todo'[a][k]
      BY <1>NextAt
    <3>4. \E b \in 1 .. Len(todo) : \E l \in 1 .. Len(todo[b]) : todo[b][l] = x
      BY <3>2, <3>3
    <3> QED
      BY <3>1, <3>4 DEF Pending
  <2>2. ASSUME NEW x \in Pending(todo) PROVE x = todo[1][1] \/ x \in Pending(todo')
    <3>1. x \in Steps /\ \E b \in 1 .. Len(todo) : \E l \in 1 .. Len(todo[b]) : todo[b][l] = x
      BY <2>2 DEF Pending
    <3>b. PICK b \in 1 .. Len(todo) : \E l \in 1 .. Len(todo[b]) : todo[b][l] = x
      BY <3>1
    <3>2. PICK l \in 1 .. Len(todo[b]) : todo[b][l] = x
      BY <3>b
    <3>3. \/ todo[b][l] = todo[1][1]
          \/ \E a \in 1 .. Len(todo') : \E k \in 1 .. Len(todo'[a]) : todo'[a][k] = todo[b][l]
      BY <1>NextPlace
    <3>4. x = todo[1][1] \/ \E a \in 1 .. Len(todo') : \E k \in 1 .. Len(todo'[a]) : todo'[a][k] = x
      BY <3>2, <3>3
    <3> QED
      BY <3>1, <3>4 DEF Pending
  <2>3. ASSUME Making(todo[1][1]), NEW x \in Pending(todo'), Making(x), x.i = todo[1][1].i PROVE FALSE
    <3>1. PICK a \in 1 .. Len(todo') : \E k \in 1 .. Len(todo'[a]) : todo'[a][k] = x
      BY <2>3 DEF Pending
    <3>2. Makes(todo'[a])
      BY <2>3, <3>1 DEF Makes
    <3>3. x.i = todo'[a][1].i
      BY <3>1, <1>NextScript DEF Script
    <3> QED
      BY <2>3, <3>2, <3>3, <1>NextMade
  <2> QED
    BY <2>1, <2>2, <2>3 DEF Remaining
<1> QED
  BY <1>NextTodo, <1>NextPending

----------------------------------------------------------------------------
(***************************************************************************)
(* The effects of the steps of the tester, and what each of them preserves. *)
(***************************************************************************)
LEMMA Excepted ==
  ASSUME NEW S, NEW f, IsFun(f, S), NEW a, NEW v, NEW g, g = [f EXCEPT ![a] = v]
  PROVE  Updated(f, g, S, a, v)
<1>1. DOMAIN f = S
  BY DEF IsFun
<1>2. g = [x \in S |-> IF x = a THEN v ELSE f[x]]
  BY <1>1
<1>3. g = [x \in S |-> g[x]] /\ (a \in S => g[a] = v) /\ \A x \in S : x # a => g[x] = f[x]
  BY <1>2
<1> QED
  BY <1>3 DEF IsFun, Updated

LEMMA SavedIsKept ==
  ASSUME NEW i
  PROVE  saved(i) = Kept(i, attached, copy, base, executed, gen)
  BY DEF saved, disk, Kept

LEMMA Transitive ==
  ASSUME NEW a \in Nat, NEW b \in Nat, NEW c \in Nat, a <= b, b <= c
  PROVE  a <= c
  BY SMT

LEMMA InstanceParts ==
  ASSUME NEW x \in Instances
  PROVE  x[1] \in Peers /\ x[2] \in Nat /\ x[2] \in 1 .. MaxStarts
  BY RaftConfigAssumption, SMT DEF Instances, Peers

LEMMA GenNat ==
  ASSUME Types, NEW i \in Peers
  PROVE  gen[i] \in Nat
<1>1. gen[i] \in 0 .. MaxStarts
  BY DEF Types
<1> QED
  BY <1>1, RaftConfigAssumption, SMT

LEMMA EndParts ==
  ASSUME NEW e \in EndNames
  PROVE  e[4] \in Peers /\ (e[3] = "raft" => e[1] \in Peers /\ e[2] \in 1 .. MaxStarts)
  BY SMT DEF EndNames

LEMMA CallFrame ==
  ASSUME StateInv, CallsSame, \A e \in ends : e \in ends', Keeps,
         \A i \in Peers : gen'[i] \in Nat /\ gen[i] <= gen'[i]
  PROVE  \A c \in Calls : CallInv(c)'
<1> SUFFICES ASSUME NEW c \in Calls PROVE CallInv(c)'
  OBVIOUS
<1>1. CallInv(c) /\ Types
  BY DEF StateInv
<1>2. call' = call /\ end' = end /\ req' = req /\ view' = view /\ handler' = handler /\ executed' = executed
  BY DEF CallsSame
<1>3. ASSUME NEW x \in Instances, x[2] <= gen[x[1]] PROVE x[2] <= gen'[x[1]]
  <2>1. x[1] \in Peers /\ x[2] \in Nat
    BY InstanceParts
  <2>2. gen[x[1]] \in Nat /\ gen'[x[1]] \in Nat /\ gen[x[1]] <= gen'[x[1]]
    BY <1>1, <2>1, GenNat
  <2> QED
    BY <1>3, <2>1, <2>2, Transitive
<1>4. req[c] \in {"deliver", "select", "answered"} =>
        /\ view[c].servername = end[c][4] /\ view[c].server \in Instances /\ view[c].server # None
        /\ view[c].server[1] = end[c][4] /\ view[c].server[2] <= gen'[end[c][4]]
  BY <1>1, <1>3 DEF CallInv
<1>5. handler[c] # "none" => view[c].server \in Instances /\ view[c].server[2] <= gen'[view[c].server[1]]
  BY <1>1, <1>3 DEF CallInv
<1>6. req[c] = "reply" \/ call[c] = "true" => c \in Kept(end[c][4], attached', copy', base', executed', gen')
  <2>1. SUFFICES ASSUME req[c] = "reply" \/ call[c] = "true"
                 PROVE  c \in Kept(end[c][4], attached', copy', base', executed', gen')
    OBVIOUS
  <2>2. c \in Kept(end[c][4], attached, copy, base, executed, gen)
    BY <1>1, <2>1 DEF CallInv
  <2>3. end[c] \in EndNames
    BY <1>1, <2>1 DEF CallInv, Types
  <2>4. end[c][4] \in Peers
    BY <2>3, EndParts
  <2> QED
    BY <2>2, <2>4 DEF Keeps
<1>7. call[c] # "idle" => end[c] \in ends'
  BY <1>1 DEF CallInv
<1> QED
  BY <1>1, <1>2, <1>4, <1>5, <1>6, <1>7 DEF CallInv

LEMMA SameSaved ==
  ASSUME CallsSame, SavedSame, gen' = gen
  PROVE  Keeps
  BY DEF CallsSame, SavedSame, Keeps

LEMMA SameGen ==
  ASSUME Types, gen' = gen
  PROVE  \A i \in Peers : gen'[i] \in Nat /\ gen[i] <= gen'[i]
<1> SUFFICES ASSUME NEW i \in Peers PROVE gen'[i] \in Nat /\ gen[i] <= gen'[i]
  OBVIOUS
<1>1. gen[i] \in Nat
  BY GenNat
<1>2. gen[i] <= gen[i]
  BY <1>1, SMT
<1> QED
  BY <1>1, <1>2

\* A step that neither changes what is saved nor makes a server.
LEMMA SameCalls ==
  ASSUME StateInv, CallsSame, SavedSame, EndsSame, gen' = gen
  PROVE  \A c \in Calls : CallInv(c)'
<1>1. Types
  BY DEF StateInv
<1>2. Keeps /\ \A e \in ends : e \in ends'
  BY SameSaved DEF EndsSame
<1> QED
  BY <1>1, <1>2, SameGen, CallFrame

LEMMA KeptKeeps ==
  ASSUME KeptSame
  PROVE  Keeps
  BY DEF KeptSame, Keeps

LEMMA SameKept ==
  ASSUME CallsSame, SavedSame, gen' = gen
  PROVE  KeptSame
  BY DEF CallsSame, SavedSame, KeptSame

LEMMA StepParts ==
  ASSUME NEW o \in Steps
  PROVE  o.i \in Peers /\ o.j \in Peers /\ o.op \in StepNames
  BY DEF Steps

LEMMA PlainEffect ==
  ASSUME NEW o, running' = running, gen' = gen, ~Making(o),
         \A x \in Steps : x.i = o.i /\ o.op \in Before(x.op) =>
           ReadyWhen(x, connected', servers', attached', running'),
         o.op \in Quiet => \A i, j \in Peers : Severed(i, j, ends, enabled) => Severed(i, j, ends', enabled'),
         \A j \in Peers : Cutting(o, j) => Severed(o.i, j, ends', enabled')
  PROVE  TodoEffect(o)
  BY DEF TodoEffect

LEMMA NextIsAfter ==
  ASSUME NEW o, NEW x \in Steps, o.op \in Before(x.op)
  PROVE  After(o.op, x.op)
  BY StepParts, Follows

LEMMA MakePreserves ==
  \A o : \A yes \in BOOLEAN :
    StateInv /\ Apt(o) /\ kind' = kind /\ Making(o) /\ Made(o.i, yes) => Preserves(o)
<1>NewEndParts.
    ASSUME NEW i \in Peers, NEW g \in 1 .. MaxStarts, NEW e
    PROVE  e \in NamedEnds(i, g) => e \in EndNames /\ e[1] = i /\ e[2] = g /\ e[3] = "raft"
    BY <1>NewEndParts, SMT DEF EndNames, NamedEnds
<1>Successor.
    ASSUME NEW g \in Nat, g < MaxStarts
    PROVE  /\ g + 1 \in 1 .. MaxStarts /\ g + 1 \in 0 .. MaxStarts /\ g + 1 > 0 /\ g <= g + 1 /\ g + 1 \in Nat /\ g + 1 # g
           /\ g + 1 \in g + 1 .. MaxStarts
           /\ \A x \in (g + 1) + 1 .. MaxStarts : x \in g + 1 .. MaxStarts
           /\ \A x \in 0 .. MaxStarts : x <= g => x <= g + 1
    BY <1>Successor, RaftConfigAssumption, SMT
<1>MadeBasics.
    ASSUME StateInv, NEW i \in Peers, NEW yes \in BOOLEAN, Made(i, yes), gen[i] < MaxStarts
    PROVE  /\ gen[i] + 1 \in 1 .. MaxStarts /\ <<i, gen[i] + 1>> \in Instances
           /\ Updated(gen, gen', Peers, i, gen[i] + 1)
           /\ Updated(attached, attached', Peers, i, TRUE)
           /\ Updated(running, running', Peers, i, TRUE)
           /\ Updated(base, base', Instances, <<i, gen[i] + 1>>, Kept(i, attached, copy, base, executed, gen))
           /\ \A e \in NewEnds(i) : e \in EndNames /\ e[1] = i /\ e[2] = gen[i] + 1 /\ e[3] = "raft"
           /\ connected' = connected /\ servers' = servers /\ copy' = copy /\ CallsSame
  <2> USE <1>MadeBasics
  <2>1. Types
    BY DEF StateInv
  <2>2. gen[i] \in Nat
    BY <2>1, GenNat
  <2>3. gen[i] + 1 \in 1 .. MaxStarts
    BY <2>2, <1>Successor
  <2>4. <<i, gen[i] + 1>> \in Instances
    BY <2>3 DEF Instances
  <2>5. \A e \in NewEnds(i) : e \in EndNames /\ e[1] = i /\ e[2] = gen[i] + 1 /\ e[3] = "raft"
    <3> DEFINE g == gen[i] + 1
    <3>1. g \in 1 .. MaxStarts
      BY <2>3, SMT
    <3>3. NewEnds(i) = NamedEnds(i, g)
      BY DEF NewEnds
    <3> HIDE DEF g
    <3>2. \A e \in NamedEnds(i, g) : e \in EndNames /\ e[1] = i /\ e[2] = g /\ e[3] = "raft"
      BY <3>1, <1>NewEndParts, SMT
    <3> QED
      BY <3>2, <3>3 DEF g
  <2>6. Updated(gen, gen', Peers, i, gen[i] + 1)
    BY <2>1, Excepted DEF Types, Made
  <2>7. Updated(attached, attached', Peers, i, TRUE)
    BY <2>1, Excepted DEF Types, Made
  <2>8. Updated(running, running', Peers, i, TRUE)
    BY <2>1, Excepted DEF Types, Made
  <2>9. Updated(base, base', Instances, <<i, gen[i] + 1>>, Kept(i, attached, copy, base, executed, gen))
    BY <2>1, Excepted DEF Types, Made
  <2> QED
    BY <2>3, <2>4, <2>5, <2>6, <2>7, <2>8, <2>9 DEF Made
<1>MadeTypes.
    ASSUME StateInv, NEW i \in Peers, NEW yes \in BOOLEAN, Made(i, yes), gen[i] < MaxStarts
    PROVE  /\ Types'
           /\ \A e \in EndNames : (e \in NewEnds(i) => enabled'[e] = yes /\ connections'[e] = e[4])
                               /\ (e \notin NewEnds(i) => enabled'[e] = enabled[e] /\ connections'[e] = connections[e])
  <2> USE <1>MadeTypes
  <2>1. /\ Types /\ CallsSame /\ connected' = connected /\ servers' = servers /\ copy' = copy
        /\ ends' = ends \cup NewEnds(i)
        /\ enabled' = [e \in EndNames |-> IF e \in NewEnds(i) THEN yes ELSE enabled[e]]
        /\ connections' = [e \in EndNames |-> IF e \in NewEnds(i) THEN e[4] ELSE connections[e]]
    BY DEF StateInv, Made
  <2>2. /\ IsFun(gen', Peers) /\ IsFun(attached', Peers) /\ IsFun(running', Peers) /\ IsFun(base', Instances)
        /\ gen'[i] = gen[i] + 1 /\ \A x \in Peers : x # i => gen'[x] = gen[x]
    <3>1. /\ Updated(gen, gen', Peers, i, gen[i] + 1)
          /\ Updated(attached, attached', Peers, i, TRUE)
          /\ Updated(running, running', Peers, i, TRUE)
          /\ Updated(base, base', Instances, <<i, gen[i] + 1>>, Kept(i, attached, copy, base, executed, gen))
      BY <1>MadeBasics
    <3> QED
      BY <3>1 DEF Updated
  <2>3. /\ \A e \in EndNames : (e \in NewEnds(i) => enabled'[e] = yes /\ connections'[e] = e[4])
                            /\ (e \notin NewEnds(i) => enabled'[e] = enabled[e] /\ connections'[e] = connections[e])
    BY <2>1
  <2>4. IsFun(enabled', EndNames) /\ IsFun(connections', EndNames)
    BY <2>1 DEF IsFun
  <2>5. \A e \in EndNames : enabled'[e] \in BOOLEAN
    BY <2>1, <2>3 DEF Types
  <2>6. ends' \subseteq EndNames
    <3>1. \A e \in NewEnds(i) : e \in EndNames
      BY <1>MadeBasics
    <3> QED
      BY <2>1, <3>1 DEF Types
  <2>7. \A x \in Peers : gen'[x] \in 0 .. MaxStarts
    <3>1. gen[i] \in Nat
      BY <2>1, GenNat
    <3>2. gen[i] + 1 \in 0 .. MaxStarts
      BY <3>1, <1>Successor
    <3> QED
      BY <2>1, <2>2, <3>2 DEF Types
  <2>8. Types'
    BY <2>1, <2>2, <2>4, <2>5, <2>6, <2>7 DEF Types, CallsSame
  <2> QED
    BY <2>3, <2>8
<1>MadeKept.
    ASSUME StateInv, NEW i \in Peers, NEW yes \in BOOLEAN, Made(i, yes), gen[i] < MaxStarts
    PROVE  KeptSame
  <2> USE <1>MadeKept
  <2> SUFFICES ASSUME NEW x \in Peers
               PROVE  Kept(x, attached', copy', base', executed', gen') = Kept(x, attached, copy, base, executed, gen)
    BY DEF KeptSame
  <2>0. Types /\ ServerInv(x)
    BY DEF StateInv
  <2> DEFINE K == Kept(i, attached, copy, base, executed, gen)
             n == <<i, gen[i] + 1>>
  <2>1. /\ n \in Instances /\ CallsSame /\ copy' = copy
        /\ Updated(gen, gen', Peers, i, gen[i] + 1)
        /\ Updated(attached, attached', Peers, i, TRUE)
        /\ Updated(base, base', Instances, n, K)
    BY <1>MadeBasics
  <2> HIDE DEF K
  <2>2. executed' = executed
    BY <2>1 DEF CallsSame
  <2>3. CASE x = i
    <3>1. attached'[x] = TRUE /\ gen'[x] = gen[x] + 1 /\ base'[n] = K
      BY <2>1, <2>3 DEF Updated
    <3>2. executed[n] = {}
      <4>1. gen[x] \in Nat
        BY <2>0, GenNat
      <4>2. gen[x] + 1 \in gen[x] + 1 .. MaxStarts
        BY <2>3, <4>1, <1>Successor
      <4> QED
        BY <2>0, <2>3, <4>2 DEF ServerInv
    <3>3. Kept(x, attached', copy', base', executed', gen') = base'[n] \cup executed'[n]
      BY <2>3, <3>1 DEF Kept
    <3> QED
      BY <2>2, <2>3, <3>1, <3>2, <3>3 DEF K
  <2>4. CASE x # i
    <3>1. attached'[x] = attached[x] /\ gen'[x] = gen[x]
      BY <2>1, <2>4 DEF Updated
    <3>2. ASSUME attached[x] PROVE base'[<<x, gen[x]>>] = base[<<x, gen[x]>>]
      <4>1. gen[x] > 0
        BY <2>0, <3>2 DEF ServerInv
      <4>2. gen[x] \in 1 .. MaxStarts
        <5>1. gen[x] \in 0 .. MaxStarts
          BY <2>0 DEF Types
        <5> QED
          BY <4>1, <5>1, SMT
      <4>3. <<x, gen[x]>> \in Instances /\ <<x, gen[x]>> # n
        BY <2>4, <4>2, SMT DEF Instances
      <4> HIDE DEF n
      <4> QED
        BY <2>1, <4>3 DEF Updated
    <3> QED
      BY <2>1, <2>2, <3>1, <3>2 DEF Kept
  <2> QED
    BY <2>3, <2>4, SMT
<1>MadeServers.
    ASSUME StateInv, NEW i \in Peers, NEW yes \in BOOLEAN, Made(i, yes), gen[i] < MaxStarts, ~running[i], kind' = kind,
           NEW x \in Peers
    PROVE  ServerInv(x)'
  <2> USE <1>MadeServers
  <2>1. Types /\ ServerInv(x)
    BY DEF StateInv
  <2>2. /\ Updated(gen, gen', Peers, i, gen[i] + 1)
        /\ Updated(attached, attached', Peers, i, TRUE)
        /\ Updated(running, running', Peers, i, TRUE)
        /\ connected' = connected /\ servers' = servers /\ executed' = executed
    BY <1>MadeBasics DEF CallsSame
  <2>3. CASE x = i
    <3>1. attached'[x] = TRUE /\ running'[x] = TRUE /\ gen'[x] = gen[x] + 1
      BY <2>2, <2>3 DEF Updated
    <3>2. gen[x] \in Nat
      BY <2>1, GenNat
    <3>3. gen[x] + 1 > 0 /\ \A g \in (gen[x] + 1) + 1 .. MaxStarts : g \in gen[x] + 1 .. MaxStarts
      BY <2>3, <3>2, <1>Successor
    <3> QED
      BY <2>1, <2>2, <2>3, <3>1, <3>3 DEF ServerInv
  <2>4. CASE x # i
    <3>1. attached'[x] = attached[x] /\ running'[x] = running[x] /\ gen'[x] = gen[x]
      BY <2>2, <2>4 DEF Updated
    <3> QED
      BY <2>1, <2>2, <3>1 DEF ServerInv
  <2> QED
    BY <2>3, <2>4, SMT
<1>MadeEnds.
    ASSUME StateInv, NEW i \in Peers, NEW yes \in BOOLEAN, Made(i, yes), gen[i] < MaxStarts, ~running[i],
           NEW e \in ends'
    PROVE  EndInv(e)'
  <2> USE <1>MadeEnds
  <2>0. Types /\ Types'
    BY <1>MadeTypes DEF StateInv
  <2>1. e \in EndNames
    BY <2>0 DEF Types
  <2>2. /\ e \in NewEnds(i) => enabled'[e] = yes /\ connections'[e] = e[4]
        /\ e \notin NewEnds(i) => enabled'[e] = enabled[e] /\ connections'[e] = connections[e]
    BY <2>1, <1>MadeTypes
  <2>3. /\ Updated(gen, gen', Peers, i, gen[i] + 1)
        /\ Updated(running, running', Peers, i, TRUE)
    BY <1>MadeBasics
  <2>4. gen[i] \in Nat
    BY <2>0, GenNat
  <2>5. CASE e \in NewEnds(i)
    <3>1. e[1] = i /\ e[2] = gen[i] + 1 /\ e[3] = "raft"
      BY <2>5, <1>MadeBasics
    <3>2. gen'[i] = gen[i] + 1 /\ running'[i] = TRUE
      BY <2>3 DEF Updated
    <3>3. gen[i] + 1 <= gen[i] + 1
      BY <2>4, SMT
    <3> QED
      BY <2>2, <2>5, <3>1, <3>2, <3>3 DEF EndInv
  <2>6. CASE e \notin NewEnds(i)
    <3>1. EndInv(e)
      BY <2>6 DEF Made, StateInv
    <3>2. CASE e[3] = "raft" /\ e[1] = i
      <4>1. ~enabled[e] /\ e[2] <= gen[i]
        BY <3>1, <3>2 DEF EndInv
      <4>2. e[2] <= gen[i] + 1
        <5>1. e[2] \in 1 .. MaxStarts
          BY <2>1, <3>2, EndParts
        <5>2. e[2] \in Nat
          BY <5>1, RaftConfigAssumption, SMT
        <5> QED
          BY <2>4, <4>1, <5>2, SMT
      <4>3. gen'[i] = gen[i] + 1
        BY <2>3 DEF Updated
      <4> QED
        BY <2>2, <2>6, <3>1, <3>2, <4>1, <4>2, <4>3 DEF EndInv
    <3>3. CASE e[3] = "raft" /\ e[1] # i
      <4>1. e[1] \in Peers
        BY <2>1, <3>3, EndParts
      <4>2. gen'[e[1]] = gen[e[1]] /\ running'[e[1]] = running[e[1]]
        BY <2>3, <3>3, <4>1 DEF Updated
      <4> QED
        BY <2>2, <2>6, <3>1, <3>3, <4>2 DEF EndInv
    <3>4. CASE e[3] # "raft"
      BY <2>2, <2>6, <3>1, <3>4 DEF EndInv
    <3> QED
      BY <3>2, <3>3, <3>4, SMT
  <2> QED
    BY <2>5, <2>6, SMT
<1>MadeKeeps.
    ASSUME StateInv, NEW i \in Peers, NEW yes \in BOOLEAN, Made(i, yes), gen[i] < MaxStarts, ~running[i], kind' = kind
    PROVE  StateInv' /\ KeptSame
  <2> USE <1>MadeKeeps
  <2>1. Types /\ CallsSame /\ KeptSame /\ Types'
    <3>1. Types
      BY DEF StateInv
    <3>2. CallsSame
      BY <1>MadeBasics
    <3>3. KeptSame
      BY <1>MadeKept
    <3>4. Types'
      BY <1>MadeTypes
    <3> QED
      BY <3>1, <3>2, <3>3, <3>4
  <2>2. \A x \in Peers : gen'[x] \in Nat /\ gen[x] <= gen'[x]
    <3> SUFFICES ASSUME NEW x \in Peers PROVE gen'[x] \in Nat /\ gen[x] <= gen'[x]
      OBVIOUS
    <3>1. gen[x] \in Nat
      BY <2>1, GenNat
    <3>2. Updated(gen, gen', Peers, i, gen[i] + 1)
      BY <1>MadeBasics
    <3>3. gen'[x] = gen[x] \/ gen'[x] = gen[x] + 1
      BY <3>2 DEF Updated
    <3> QED
      BY <3>1, <3>3, SMT
  <2>3. \A e \in ends : e \in ends'
    BY DEF Made
  <2>4. \A c \in Calls : CallInv(c)'
    BY <2>1, <2>2, <2>3, KeptKeeps, CallFrame
  <2> QED
    BY <2>1, <2>4, <1>MadeServers, <1>MadeEnds DEF StateInv
<1>MakePreserves.
    ASSUME StateInv, NEW o, Apt(o), kind' = kind, Making(o), NEW yes \in BOOLEAN, Made(o.i, yes)
    PROVE  Preserves(o)
  <2> USE <1>MakePreserves
  <2>1. o.i \in Peers /\ gen[o.i] < MaxStarts /\ ~running[o.i]
    BY DEF Apt, Ready, ReadyWhen
  <2>2. StateInv' /\ KeptSame
    BY <2>1, <1>MadeKeeps
  <2>3. /\ Updated(gen, gen', Peers, o.i, gen[o.i] + 1)
        /\ Updated(attached, attached', Peers, o.i, TRUE)
        /\ Updated(running, running', Peers, o.i, TRUE)
    BY <2>1, <1>MadeBasics
  <2>4. /\ attached'[o.i] = TRUE /\ running'[o.i] = TRUE
        /\ \A x \in Peers : x # o.i => running'[x] = running[x] /\ gen'[x] = gen[x]
    BY <2>1, <2>3 DEF Updated
  <2>5. ASSUME NEW x \in Steps, x.i = o.i, o.op \in Before(x.op)
        PROVE  ReadyWhen(x, connected', servers', attached', running')
    <3>1. x.op = "serve"
      BY <2>5, NextIsAfter DEF After, Making
    <3> QED
      BY <2>4, <2>5, <3>1 DEF ReadyWhen, Making
  <2>6. o.op \notin Quiet /\ \A j \in Peers : ~Cutting(o, j)
    BY DEF Making, Cutting, Quiet
  <2>7. TodoEffect(o)
    BY <2>1, <2>4, <2>5, <2>6 DEF TodoEffect
  <2> QED
    BY <2>2, <2>7 DEF Preserves
<1> QED
  BY <1>MakePreserves

LEMMA DoesPreserves ==
  \A o : StateInv /\ Apt(o) /\ kind' = kind /\ Does(o) => Preserves(o)
<1>SetConnectedEffect.
    ASSUME NEW i, NEW yes, SetConnected(i, yes)
    PROVE  Connected(i, yes)
    BY <1>SetConnectedEffect DEF SetConnected, netVars, callVars, savedVars, Connected, CallsSame, SavedSame, EndsSame
<1>SetEnabledEffect.
    ASSUME NEW present, NEW e, NEW yes, SetEnabled(present, e, yes)
    PROVE  Toggled(present, e, yes)
    BY <1>SetEnabledEffect DEF SetEnabled, Network, net!Enable, netVars, callVars, savedVars, Toggled, CallsSame, SavedSame, EndsSame
<1>DeleteEffect.
    ASSUME NEW i, Delete(i)
    PROVE  Registered(i, None)
    BY <1>DeleteEffect DEF Delete, Network, net!DeleteServer, netVars, callVars, savedVars, Registered, CallsSame, SavedSame, EndsSame
<1>ServeEffect.
    ASSUME NEW i, Serve(i)
    PROVE  Registered(i, <<i, gen[i]>>)
    BY <1>ServeEffect DEF Serve, Network, net!AddServer, netVars, callVars, savedVars, Registered, CallsSame, SavedSame, EndsSame
<1>CopyEffect.
    ASSUME NEW i, CopyPersister(i)
    PROVE  Copied(i)
    BY <1>CopyEffect, SavedIsKept DEF CopyPersister, netVars, callVars, Copied, CallsSame, EndsSame
<1>KillEffect.
    ASSUME NEW i, Kill(i)
    PROVE  Killed(i)
    BY <1>KillEffect DEF Kill, netVars, callVars, savedVars, Killed, CallsSame, SavedSame, EndsSame
<1>MakeEffect.
    ASSUME NEW i, Make(i)
    PROVE  Made(i, FALSE)
    BY <1>MakeEffect, SavedIsKept DEF Make, callVars, Made, NewEnds, NamedEnds, CallsSame
<1>MakeEnabledEffect.
    ASSUME NEW i, MakeEnabled(i), Types
    PROVE  Made(i, TRUE)
  <2> USE <1>MakeEnabledEffect
  <2>1. \A e \in EndNames : (e \in NewEnds(i) \/ enabled[e]) = (IF e \in NewEnds(i) THEN TRUE ELSE enabled[e])
    BY DEF Types
  <2> QED
    BY SavedIsKept, <2>1 DEF MakeEnabled, callVars, Made, NewEnds, NamedEnds, CallsSame
<1>ConnectedKeeps.
    ASSUME StateInv, NEW i \in Peers, NEW yes \in BOOLEAN, Connected(i, yes), kind' = kind,
           yes => running[i] /\ kind = "raft"
    PROVE  StateInv' /\ (connected'[i] <=> yes)
  <2> USE <1>ConnectedKeeps
  <2>1. /\ IsFun(connected, Peers) /\ Types
        /\ connected' = [connected EXCEPT ![i] = yes] /\ enabled' = enabled /\ servers' = servers
        /\ gen' = gen /\ running' = running /\ CallsSame /\ SavedSame /\ EndsSame
    BY DEF StateInv, Types, Connected
  <2>2. /\ IsFun(connected', Peers) /\ connected'[i] = yes
        /\ \A x \in Peers : x # i => connected'[x] = connected[x]
    <3>1. Updated(connected, connected', Peers, i, yes)
      BY <2>1, Excepted
    <3> QED
      BY <3>1 DEF Updated
  <2>3. Types'
    BY <2>1, <2>2 DEF Types, CallsSame, SavedSame, EndsSame
  <2>4. ASSUME NEW x \in Peers PROVE ServerInv(x)'
    <3>1. ServerInv(x)
      BY DEF StateInv
    <3>2. connected'[x] => connected[x] \/ (running[x] /\ kind = "raft")
      BY <2>2
    <3> QED
      BY <2>1, <3>1, <3>2 DEF ServerInv, CallsSame, SavedSame
  <2>5. \A e \in ends' : EndInv(e)'
    BY <2>1 DEF StateInv, EndInv, EndsSame
  <2>6. \A c \in Calls : CallInv(c)'
    BY <2>1, SameCalls
  <2> QED
    BY <2>2, <2>3, <2>4, <2>5, <2>6 DEF StateInv
<1>ToggledKeeps.
    ASSUME StateInv, NEW i \in Peers, NEW j \in Peers, NEW yes \in BOOLEAN, NEW present,
           Toggled(present, endname(i, j), yes), kind' = kind,
           present /\ yes => running[i]
    PROVE  /\ StateInv'
           /\ \A e \in EndNames : (present /\ e = endname(i, j) => (enabled'[e] <=> yes))
                               /\ (~present \/ e # endname(i, j) => enabled'[e] = enabled[e])
  <2> USE <1>ToggledKeeps
  <2> DEFINE f == endname(i, j)
  <2>1. /\ Types
        /\ connected' = connected /\ servers' = servers
        /\ gen' = gen /\ running' = running /\ CallsSame /\ SavedSame /\ EndsSame
    BY DEF StateInv, Toggled
  <2>2. f[1] = i /\ f[2] = gen[i] /\ f[3] = "raft" /\ f[4] = j
    BY SMT DEF endname
  <2> HIDE DEF f
  <2>3. /\ IsFun(enabled', EndNames)
        /\ \A e \in EndNames : (present /\ e = f => enabled'[e] = yes)
                            /\ (~present \/ e # f => enabled'[e] = enabled[e])
    <3>1. IsFun(enabled, EndNames)
      BY <2>1 DEF Types
    <3>2. CASE present
      <4>1. enabled' = [enabled EXCEPT ![f] = yes]
        BY <3>2 DEF Toggled, f
      <4>2. Updated(enabled, enabled', EndNames, f, yes)
        BY <3>1, <4>1, Excepted
      <4> QED
        BY <3>2, <4>2 DEF Updated
    <3>3. CASE ~present
      <4>1. enabled' = enabled
        BY <3>3 DEF Toggled
      <4> QED
        BY <3>1, <3>3, <4>1
    <3> QED
      BY <3>2, <3>3
  <2>4. \A e \in EndNames : enabled'[e] \in BOOLEAN
    BY <2>1, <2>3 DEF Types
  <2>5. Types'
    BY <2>1, <2>3, <2>4 DEF Types, CallsSame, SavedSame, EndsSame
  <2>6. \A x \in Peers : ServerInv(x)'
    BY <2>1 DEF StateInv, ServerInv, CallsSame, SavedSame
  <2>7. ASSUME NEW e \in ends' PROVE EndInv(e)'
    <3>1. e \in ends /\ connections' = connections
      BY <2>1 DEF EndsSame
    <3>2. EndInv(e) /\ e \in EndNames
      BY <2>1, <3>1 DEF StateInv, Types
    <3>3. e[3] = "raft" /\ enabled'[e] => e[2] = gen[e[1]] /\ running[e[1]]
      BY <2>2, <2>3, <3>2 DEF EndInv
    <3> QED
      BY <2>1, <3>1, <3>2, <3>3 DEF EndInv
  <2>8. \A c \in Calls : CallInv(c)'
    BY <2>1, SameCalls
  <2>9. StateInv'
    BY <2>5, <2>6, <2>7, <2>8 DEF StateInv
  <2> QED
    BY <2>3, <2>9 DEF f
<1>RegisteredKeeps.
    ASSUME StateInv, NEW i \in Peers, NEW inst, Registered(i, inst), kind' = kind,
           inst = None \/ (inst = <<i, gen[i]>> /\ attached[i] /\ running[i])
    PROVE  StateInv' /\ servers'[i] = inst
  <2> USE <1>RegisteredKeeps
  <2>1. /\ IsFun(servers, Peers) /\ Types
        /\ servers' = [servers EXCEPT ![i] = inst] /\ enabled' = enabled /\ connected' = connected
        /\ gen' = gen /\ running' = running /\ CallsSame /\ SavedSame /\ EndsSame
    BY DEF StateInv, Types, Registered
  <2>2. /\ IsFun(servers', Peers) /\ servers'[i] = inst
        /\ \A x \in Peers : x # i => servers'[x] = servers[x]
    <3>1. Updated(servers, servers', Peers, i, inst)
      BY <2>1, Excepted
    <3> QED
      BY <3>1 DEF Updated
  <2>3. Types'
    BY <2>1, <2>2 DEF Types, CallsSame, SavedSame, EndsSame
  <2>4. ASSUME NEW x \in Peers PROVE ServerInv(x)'
    <3>1. ServerInv(x)
      BY DEF StateInv
    <3>2. \/ servers'[x] = None
          \/ servers'[x] = servers[x]
          \/ servers'[x] = <<x, gen[x]>> /\ attached[x] /\ running[x]
      BY <2>2
    <3> QED
      BY <2>1, <3>1, <3>2 DEF ServerInv, CallsSame, SavedSame
  <2>5. \A e \in ends' : EndInv(e)'
    BY <2>1 DEF StateInv, EndInv, EndsSame
  <2>6. \A c \in Calls : CallInv(c)'
    BY <2>1, SameCalls
  <2> QED
    BY <2>2, <2>3, <2>4, <2>5, <2>6 DEF StateInv
<1>CopiedKeeps.
    ASSUME StateInv, NEW i \in Peers, Copied(i), kind' = kind, servers[i] = None
    PROVE  StateInv' /\ ~attached'[i] /\ KeptSame
  <2> USE <1>CopiedKeeps
  <2>1. /\ IsFun(copy, Peers) /\ IsFun(attached, Peers) /\ Types
        /\ copy' = [copy EXCEPT ![i] = Kept(i, attached, copy, base, executed, gen)]
        /\ attached' = [attached EXCEPT ![i] = FALSE]
        /\ base' = base /\ servers' = servers /\ enabled' = enabled /\ connected' = connected
        /\ gen' = gen /\ running' = running /\ CallsSame /\ EndsSame
    BY DEF StateInv, Types, Copied
  <2>2. /\ IsFun(attached', Peers) /\ attached'[i] = FALSE
        /\ \A x \in Peers : x # i => attached'[x] = attached[x]
    <3>1. Updated(attached, attached', Peers, i, FALSE)
      BY <2>1, Excepted
    <3> QED
      BY <3>1 DEF Updated
  <2>3. /\ IsFun(copy', Peers) /\ copy'[i] = Kept(i, attached, copy, base, executed, gen)
        /\ \A x \in Peers : x # i => copy'[x] = copy[x]
    <3>1. Updated(copy, copy', Peers, i, Kept(i, attached, copy, base, executed, gen))
      BY <2>1, Excepted
    <3> QED
      BY <3>1 DEF Updated
  <2>4. Types'
    BY <2>1, <2>2, <2>3 DEF Types, CallsSame, EndsSame
  <2>5. ASSUME NEW x \in Peers PROVE ServerInv(x)'
    <3>1. ServerInv(x)
      BY DEF StateInv
    <3>2. (attached'[x] => attached[x]) /\ (servers[x] # None => attached'[x] = attached[x])
      BY <2>2
    <3> QED
      BY <2>1, <3>1, <3>2 DEF ServerInv, CallsSame
  <2>6. \A e \in ends' : EndInv(e)'
    BY <2>1 DEF StateInv, EndInv, EndsSame
  <2>7. KeptSame
    <3> SUFFICES ASSUME NEW x \in Peers
                 PROVE  Kept(x, attached', copy', base', executed', gen') = Kept(x, attached, copy, base, executed, gen)
      BY DEF KeptSame
    <3>1. CASE x = i
      <4>1. Kept(x, attached', copy', base', executed', gen') = copy'[x]
        BY <2>2, <3>1 DEF Kept
      <4> QED
        BY <2>3, <3>1, <4>1
    <3>2. CASE x # i
      <4>1. attached'[x] = attached[x] /\ copy'[x] = copy[x] /\ base' = base /\ gen' = gen /\ executed' = executed
        BY <2>1, <2>2, <2>3, <3>2 DEF CallsSame
      <4> QED
        BY <4>1 DEF Kept
    <3> QED
      BY <3>1, <3>2, SMT
  <2>8. \A c \in Calls : CallInv(c)'
    <3>1. \A e \in ends : e \in ends'
      BY <2>1 DEF EndsSame
    <3> QED
      BY <2>1, <2>7, <3>1, KeptKeeps, SameGen, CallFrame
  <2> QED
    BY <2>2, <2>4, <2>5, <2>6, <2>7, <2>8 DEF StateInv
<1>KilledKeeps.
    ASSUME StateInv, NEW i \in Peers, Killed(i), kind' = kind,
           ~attached[i], servers[i] = None, ~connected[i],
           \A e \in ends : e[3] = "raft" /\ e[1] = i => ~enabled[e]
    PROVE  StateInv' /\ ~running'[i] /\ \A x \in Peers : x # i => running'[x] = running[x]
  <2> USE <1>KilledKeeps
  <2>1. /\ IsFun(running, Peers) /\ Types
        /\ running' = [running EXCEPT ![i] = FALSE] /\ enabled' = enabled /\ connected' = connected
        /\ gen' = gen /\ servers' = servers /\ CallsSame /\ SavedSame /\ EndsSame
    BY DEF StateInv, Types, Killed
  <2>2. /\ IsFun(running', Peers) /\ running'[i] = FALSE
        /\ \A x \in Peers : x # i => running'[x] = running[x]
    <3>1. Updated(running, running', Peers, i, FALSE)
      BY <2>1, Excepted
    <3> QED
      BY <3>1 DEF Updated
  <2>3. Types'
    BY <2>1, <2>2 DEF Types, CallsSame, SavedSame, EndsSame
  <2>4. ASSUME NEW x \in Peers PROVE ServerInv(x)'
    <3>1. ServerInv(x)
      BY DEF StateInv
    <3>2. (x = i /\ ~running'[x]) \/ running'[x] = running[x]
      BY <2>2
    <3> QED
      BY <2>1, <3>1, <3>2 DEF ServerInv, CallsSame, SavedSame
  <2>5. ASSUME NEW e \in ends' PROVE EndInv(e)'
    <3>1. e \in ends /\ connections' = connections
      BY <2>1 DEF EndsSame
    <3>2. EndInv(e) /\ e \in EndNames
      BY <2>1, <3>1 DEF StateInv, Types
    <3>3. e[3] = "raft" => e[1] \in Peers
      BY <3>2, EndParts
    <3>4. e[3] = "raft" /\ enabled[e] => running'[e[1]]
      BY <2>2, <3>1, <3>2, <3>3 DEF EndInv
    <3> QED
      BY <2>1, <3>1, <3>2, <3>4 DEF EndInv
  <2>6. \A c \in Calls : CallInv(c)'
    BY <2>1, SameCalls
  <2> QED
    BY <2>2, <2>3, <2>4, <2>5, <2>6 DEF StateInv
<1>SeveredSame.
    ASSUME ends' = ends, \A e \in ends : enabled'[e] => enabled[e]
    PROVE  \A i, j \in Peers : Severed(i, j, ends, enabled) => Severed(i, j, ends', enabled')
    BY <1>SeveredSame DEF Severed
<1>OnlyEndname.
    ASSUME NEW e \in EndNames, NEW i \in Peers, NEW j, e[1] = i, e[2] = gen[i], e[3] = "raft", e[4] = j
    PROVE  e = endname(i, j)
    BY <1>OnlyEndname, SMT DEF EndNames, endname
\* The server's own end is the only one that can be enabled.
<1>CutOff.
    ASSUME StateInv', NEW i \in Peers, NEW j \in Peers, gen' = gen, gen[i] > 0 => ~enabled'[endname(i, j)]
    PROVE  Severed(i, j, ends', enabled')
  <2> USE <1>CutOff
  <2> SUFFICES ASSUME NEW e \in ends', e[1] = i, e[3] = "raft", e[4] = j, enabled'[e] PROVE FALSE
    BY DEF Severed
  <2>1. e \in EndNames /\ EndInv(e)' /\ ServerInv(i)'
    BY DEF StateInv, Types
  <2>2. e[2] = gen[i] /\ running'[i] /\ gen[i] > 0
    BY <2>1 DEF EndInv, ServerInv
  <2>3. e = endname(i, j)
    BY <2>1, <2>2, <1>OnlyEndname
  <2> QED
    BY <2>2, <2>3
<1>AttachPreserves.
    ASSUME StateInv, NEW o, Apt(o), kind' = kind, o.op = "attach", SetConnected(o.i, TRUE)
    PROVE  Preserves(o)
  <2> USE <1>AttachPreserves
  <2>1. Connected(o.i, TRUE)
    BY <1>SetConnectedEffect
  <2>2. o.i \in Peers /\ running[o.i] /\ kind = "raft"
    BY DEF Apt, Linking, Sender, StepsOf
  <2>3. StateInv' /\ connected'[o.i]
    BY <2>1, <2>2, <1>ConnectedKeeps
  <2>4. gen' = gen /\ running' = running /\ CallsSame /\ SavedSame /\ ends' = ends /\ enabled' = enabled
    BY <2>1 DEF Connected, EndsSame
  <2>5. KeptSame
    BY <2>4, SameKept
  <2>6. ASSUME NEW x \in Steps, x.i = o.i, o.op \in Before(x.op)
        PROVE  ReadyWhen(x, connected', servers', attached', running')
    <3>1. x.op = "enable out"
      BY <2>6, NextIsAfter DEF After
    <3> QED
      BY <2>3, <2>6, <3>1 DEF ReadyWhen, Making
  <2>7. TodoEffect(o)
    <3>1. ~Making(o) /\ o.op \notin Quiet /\ \A j \in Peers : ~Cutting(o, j)
      BY DEF Making, Quiet, Cutting
    <3> QED
      BY <2>4, <2>6, <3>1, PlainEffect
  <2> QED
    BY <2>3, <2>5, <2>7 DEF Preserves
<1>DetachPreserves.
    ASSUME StateInv, NEW o, Apt(o), kind' = kind, o.op = "detach", SetConnected(o.i, FALSE)
    PROVE  Preserves(o)
  <2> USE <1>DetachPreserves
  <2>1. Connected(o.i, FALSE)
    BY <1>SetConnectedEffect
  <2>2. o.i \in Peers
    BY DEF Apt
  <2>3. StateInv' /\ ~connected'[o.i]
    BY <2>1, <2>2, <1>ConnectedKeeps
  <2>4. gen' = gen /\ running' = running /\ CallsSame /\ SavedSame /\ ends' = ends /\ enabled' = enabled
    BY <2>1 DEF Connected, EndsSame
  <2>5. KeptSame
    BY <2>4, SameKept
  <2>6. ASSUME NEW x \in Steps, x.i = o.i, o.op \in Before(x.op)
        PROVE  ReadyWhen(x, connected', servers', attached', running')
    <3>1. x.op = "disable out"
      BY <2>6, NextIsAfter DEF After
    <3> QED
      BY <2>3, <2>6, <3>1 DEF ReadyWhen, Making
  <2>7. TodoEffect(o)
    <3>1. ~Making(o) /\ \A j \in Peers : ~Cutting(o, j)
      BY DEF Making, Cutting
    <3>2. \A i, j \in Peers : Severed(i, j, ends, enabled) => Severed(i, j, ends', enabled')
      BY <2>4
    <3> QED
      BY <2>4, <2>6, <3>1, <3>2, PlainEffect
  <2> QED
    BY <2>3, <2>5, <2>7 DEF Preserves
\* After an end was enabled or disabled, the next step is ready if this one was.
<1>ToggleReady.
    ASSUME StateInv, NEW o, Apt(o), o.op \in Toggles,
           connected' = connected, servers' = servers, attached' = attached, running' = running,
           NEW x \in Steps, x.i = o.i, o.op \in Before(x.op)
    PROVE  ReadyWhen(x, connected', servers', attached', running')
  <2> USE <1>ToggleReady
  <2>1. After(o.op, x.op)
    BY NextIsAfter
  <2>2. o.i \in Peers /\ o.op \in StepsOf(kind) /\ Ready(o)
    BY DEF Apt
  <2>3. CASE o.op \in {"enable out", "enable in"}
    <3>1. connected[o.i]
      BY <2>2, <2>3 DEF Ready, ReadyWhen
    <3>2. x.op \in {"enable out", "enable in"}
      BY <2>1, <2>3 DEF After
    <3> QED
      BY <3>1, <3>2 DEF ReadyWhen, Making
  <2>4. CASE o.op \in {"disable out", "disable in"}
    <3>1. ~connected[o.i]
      BY <2>2, <2>4 DEF Ready, ReadyWhen
    <3>2. x.op \in {"disable out", "disable in", "delete"}
      BY <2>1, <2>4 DEF After
    <3> QED
      BY <3>1, <3>2 DEF ReadyWhen, Making
  <2>5. CASE o.op \in {"unlink out", "unlink in", "link out", "link in"}
    <3>1. kind # "raft"
      BY <2>2, <2>5 DEF StepsOf
    <3>2. ~connected[o.i]
      BY <2>2, <3>1 DEF StateInv, ServerInv
    <3>3. x.op \in {"unlink out", "unlink in", "link out", "link in", "delete"}
      BY <2>1, <2>5 DEF After
    <3> QED
      BY <3>2, <3>3 DEF ReadyWhen, Making
  <2> QED
    BY <2>3, <2>4, <2>5 DEF Toggles
<1>TogglePreserves.
    ASSUME StateInv, NEW o, Apt(o), kind' = kind, o.op \in Toggles,
           NEW i \in Peers, NEW j \in Peers, NEW yes \in BOOLEAN, NEW present,
           SetEnabled(present, endname(i, j), yes),
           present /\ yes => running[i],
           o.op \in Quiet => ~yes,
           \A x \in Peers : Cutting(o, x) => ~yes /\ o.i = i /\ x = j /\ (gen[i] > 0 => present)
    PROVE  Preserves(o)
  <2> USE <1>TogglePreserves
  <2>1. Toggled(present, endname(i, j), yes)
    BY <1>SetEnabledEffect
  <2>2. /\ gen' = gen /\ running' = running /\ CallsSame /\ SavedSame /\ ends' = ends
        /\ connected' = connected /\ servers' = servers /\ attached' = attached
    BY <2>1 DEF Toggled, EndsSame, SavedSame
  <2>3. /\ StateInv'
        /\ \A e \in EndNames : (present /\ e = endname(i, j) => (enabled'[e] <=> yes))
                            /\ (~present \/ e # endname(i, j) => enabled'[e] = enabled[e])
    BY <2>1, <1>ToggledKeeps
  <2>4. KeptSame
    BY <2>2, SameKept
  <2>5. \A x \in Steps : x.i = o.i /\ o.op \in Before(x.op) => ReadyWhen(x, connected', servers', attached', running')
    BY <2>2, <1>ToggleReady
  <2>6. ~Making(o)
    BY DEF Making, Toggles
  <2>7. ASSUME o.op \in Quiet
        PROVE  \A x, y \in Peers : Severed(x, y, ends, enabled) => Severed(x, y, ends', enabled')
    <3>1. \A e \in ends : e \in EndNames
      BY DEF StateInv, Types
    <3>2. \A e \in ends : enabled'[e] => enabled[e]
      BY <2>3, <2>7, <3>1
    <3> QED
      BY <2>2, <3>2, <1>SeveredSame
  <2>8. ASSUME NEW x \in Peers, Cutting(o, x) PROVE Severed(o.i, x, ends', enabled')
    <3>1. ~yes /\ o.i = i /\ x = j /\ (gen[i] > 0 => present)
      BY <2>8
    <3>2. ASSUME gen[i] > 0 PROVE ~enabled'[endname(i, j)]
      <4>1. endname(i, j) \in EndNames
        <5>1. gen[i] \in 0 .. MaxStarts
          BY DEF StateInv, Types
        <5> QED
          BY <3>2, <5>1, SMT DEF endname, EndNames
      <4> QED
        BY <2>3, <3>1, <3>2, <4>1
    <3> QED
      BY <2>2, <2>3, <3>1, <3>2, <1>CutOff
  <2>9. TodoEffect(o)
    BY <2>2, <2>5, <2>6, <2>7, <2>8, PlainEffect
  <2> QED
    BY <2>3, <2>4, <2>9 DEF Preserves
\* Every step that enables or disables an end.
<1>EnablePreserves.
    ASSUME StateInv, NEW o, Apt(o), kind' = kind, o.op \in {"enable out", "enable in"}, Does(o)
    PROVE  Preserves(o)
  <2> USE <1>EnablePreserves
  <2>1. o.i \in Peers /\ o.j \in Peers /\ connected[o.i]
    BY DEF Apt, Ready, ReadyWhen
  <2>2. \A x \in Peers : connected[x] => running[x]
    BY DEF StateInv, ServerInv
  <2>3. o.op \in Toggles /\ o.op \notin Quiet /\ \A x \in Peers : ~Cutting(o, x)
    BY DEF Toggles, Quiet, Cutting
  <2>4. CASE o.op = "enable out"
    <3>1. SetEnabled(connected[o.j], endname(o.i, o.j), TRUE)
      BY <2>4 DEF Does
    <3> QED
      BY <2>1, <2>2, <2>3, <3>1, <1>TogglePreserves
  <2>5. CASE o.op = "enable in"
    <3>1. SetEnabled(connected[o.j], endname(o.j, o.i), TRUE)
      BY <2>5 DEF Does
    <3> QED
      BY <2>1, <2>2, <2>3, <3>1, <1>TogglePreserves
  <2> QED
    BY <2>4, <2>5
<1>LinkPreserves.
    ASSUME StateInv, NEW o, Apt(o), kind' = kind, o.op \in {"link out", "link in"}, Does(o)
    PROVE  Preserves(o)
  <2> USE <1>LinkPreserves
  <2>1. o.i \in Peers /\ o.j \in Peers /\ running[Sender(o)]
    BY DEF Apt, Linking
  <2>3. o.op \in Toggles /\ o.op \notin Quiet /\ \A x \in Peers : ~Cutting(o, x)
    BY DEF Toggles, Quiet, Cutting
  <2>4. CASE o.op = "link out"
    <3>1. SetEnabled(TRUE, endname(o.i, o.j), TRUE) /\ Sender(o) = o.i
      BY <2>4 DEF Does, Sender
    <3> QED
      BY <2>1, <2>3, <3>1, <1>TogglePreserves
  <2>5. CASE o.op = "link in"
    <3>1. SetEnabled(TRUE, endname(o.j, o.i), TRUE) /\ Sender(o) = o.j
      BY <2>5 DEF Does, Sender
    <3> QED
      BY <2>1, <2>3, <3>1, <1>TogglePreserves
  <2> QED
    BY <2>4, <2>5
<1>DisablePreserves.
    ASSUME StateInv, NEW o, Apt(o), kind' = kind,
           o.op \in {"disable out", "disable in", "unlink out", "unlink in"}, Does(o)
    PROVE  Preserves(o)
  <2> USE <1>DisablePreserves
  <2>1. o.i \in Peers /\ o.j \in Peers /\ o.op \in Toggles
    BY DEF Apt, Toggles
  <2>2. \A x : Cutting(o, x) => o.op \in {"disable out", "unlink out"} /\ x = o.j
    BY DEF Cutting
  <2>3. CASE o.op = "disable out"
    <3>1. SetEnabled(gen[o.i] > 0, endname(o.i, o.j), FALSE)
      BY <2>3 DEF Does
    <3> QED
      BY <2>1, <2>2, <3>1, <1>TogglePreserves
  <2>4. CASE o.op = "unlink out"
    <3>1. SetEnabled(TRUE, endname(o.i, o.j), FALSE)
      BY <2>4 DEF Does
    <3> QED
      BY <2>1, <2>2, <3>1, <1>TogglePreserves
  <2>5. CASE o.op = "disable in"
    <3>1. SetEnabled(gen[o.j] > 0, endname(o.j, o.i), FALSE)
      BY <2>5 DEF Does
    <3>2. \A x \in Peers : ~Cutting(o, x)
      BY <2>2, <2>5
    <3> QED
      BY <2>1, <3>1, <3>2, <1>TogglePreserves
  <2>6. CASE o.op = "unlink in"
    <3>1. SetEnabled(TRUE, endname(o.j, o.i), FALSE)
      BY <2>6 DEF Does
    <3>2. \A x \in Peers : ~Cutting(o, x)
      BY <2>2, <2>6
    <3> QED
      BY <2>1, <3>1, <3>2, <1>TogglePreserves
  <2> QED
    BY <2>3, <2>4, <2>5, <2>6
<1>DeletePreserves.
    ASSUME StateInv, NEW o, Apt(o), kind' = kind, o.op = "delete", Delete(o.i)
    PROVE  Preserves(o)
  <2> USE <1>DeletePreserves
  <2>1. Registered(o.i, None)
    BY <1>DeleteEffect
  <2>2. o.i \in Peers /\ ~connected[o.i]
    BY DEF Apt, Ready, ReadyWhen
  <2>3. StateInv' /\ servers'[o.i] = None
    BY <2>1, <2>2, <1>RegisteredKeeps
  <2>4. /\ gen' = gen /\ running' = running /\ CallsSame /\ SavedSame /\ ends' = ends /\ enabled' = enabled
        /\ connected' = connected
    BY <2>1 DEF Registered, EndsSame
  <2>5. KeptSame
    BY <2>4, SameKept
  <2>6. ASSUME NEW x \in Steps, x.i = o.i, o.op \in Before(x.op)
        PROVE  ReadyWhen(x, connected', servers', attached', running')
    <3>1. x.op = "copy"
      BY <2>6, NextIsAfter DEF After
    <3> QED
      BY <2>2, <2>3, <2>4, <2>6, <3>1 DEF ReadyWhen, Making
  <2>7. TodoEffect(o)
    <3>1. ~Making(o) /\ \A j \in Peers : ~Cutting(o, j)
      BY DEF Making, Cutting
    <3>2. \A i, j \in Peers : Severed(i, j, ends, enabled) => Severed(i, j, ends', enabled')
      BY <2>4
    <3> QED
      BY <2>4, <2>6, <3>1, <3>2, PlainEffect
  <2> QED
    BY <2>3, <2>5, <2>7 DEF Preserves
<1>ServePreserves.
    ASSUME StateInv, NEW o, Apt(o), kind' = kind, o.op = "serve", Serve(o.i)
    PROVE  Preserves(o)
  <2> USE <1>ServePreserves
  <2>1. Registered(o.i, <<o.i, gen[o.i]>>)
    BY <1>ServeEffect
  <2>2. o.i \in Peers /\ attached[o.i] /\ running[o.i]
    BY DEF Apt, Ready, ReadyWhen
  <2>3. StateInv'
    BY <2>1, <2>2, <1>RegisteredKeeps
  <2>4. gen' = gen /\ running' = running /\ CallsSame /\ SavedSame
    BY <2>1 DEF Registered
  <2>5. KeptSame
    BY <2>4, SameKept
  <2>6. ASSUME NEW x \in Steps, o.op \in Before(x.op) PROVE FALSE
    BY <2>6, NextIsAfter DEF After
  <2>7. TodoEffect(o)
    <3>1. ~Making(o) /\ o.op \notin Quiet /\ \A j \in Peers : ~Cutting(o, j)
      BY DEF Making, Cutting, Quiet
    <3> QED
      BY <2>4, <2>6, <3>1, PlainEffect
  <2> QED
    BY <2>3, <2>5, <2>7 DEF Preserves
<1>CopyPreserves.
    ASSUME StateInv, NEW o, Apt(o), kind' = kind, o.op = "copy", CopyPersister(o.i)
    PROVE  Preserves(o)
  <2> USE <1>CopyPreserves
  <2>1. Copied(o.i)
    BY <1>CopyEffect
  <2>2. o.i \in Peers /\ ~connected[o.i] /\ servers[o.i] = None
    BY DEF Apt, Ready, ReadyWhen
  <2>3. StateInv' /\ ~attached'[o.i] /\ KeptSame
    BY <2>1, <2>2, <1>CopiedKeeps
  <2>4. /\ gen' = gen /\ running' = running /\ ends' = ends /\ enabled' = enabled
        /\ connected' = connected /\ servers' = servers
    BY <2>1 DEF Copied, EndsSame
  <2>6. ASSUME NEW x \in Steps, x.i = o.i, o.op \in Before(x.op)
        PROVE  ReadyWhen(x, connected', servers', attached', running')
    <3>1. x.op = "kill"
      BY <2>6, NextIsAfter DEF After
    <3> QED
      BY <2>2, <2>3, <2>4, <2>6, <3>1 DEF ReadyWhen, Making
  <2>7. TodoEffect(o)
    <3>1. ~Making(o) /\ \A j \in Peers : ~Cutting(o, j)
      BY DEF Making, Cutting
    <3>2. \A i, j \in Peers : Severed(i, j, ends, enabled) => Severed(i, j, ends', enabled')
      BY <2>4
    <3> QED
      BY <2>4, <2>6, <3>1, <3>2, PlainEffect
  <2> QED
    BY <2>3, <2>7 DEF Preserves
<1>KillPreserves.
    ASSUME StateInv, NEW o, Apt(o), kind' = kind, o.op = "kill", Kill(o.i)
    PROVE  Preserves(o)
  <2> USE <1>KillPreserves
  <2>1. Killed(o.i)
    BY <1>KillEffect
  <2>2. o.i \in Peers /\ ~connected[o.i] /\ servers[o.i] = None /\ ~attached[o.i]
    BY DEF Apt, Ready, ReadyWhen
  <2>3. ASSUME NEW e \in ends, e[3] = "raft", e[1] = o.i PROVE ~enabled[e]
    <3>1. e[4] \in Peers
      BY EndParts DEF StateInv, Types
    <3>2. Severed(o.i, e[4], ends, enabled)
      BY <3>1 DEF Apt
    <3> QED
      BY <2>3, <3>2 DEF Severed
  <2>4. StateInv' /\ ~running'[o.i] /\ \A x \in Peers : x # o.i => running'[x] = running[x]
    BY <2>1, <2>2, <2>3, <1>KilledKeeps
  <2>5. gen' = gen /\ CallsSame /\ SavedSame
    BY <2>1 DEF Killed
  <2>6. KeptSame
    BY <2>5, SameKept
  <2>7. ASSUME NEW x \in Steps, x.i = o.i, o.op \in Before(x.op)
        PROVE  ReadyWhen(x, connected', servers', attached', running')
    <3>1. x.op = "make"
      BY <2>7, NextIsAfter DEF After
    <3> QED
      BY <2>4, <2>7, <3>1 DEF ReadyWhen
  <2>8. ~Making(o) /\ o.op \notin Quiet /\ \A j \in Peers : ~Cutting(o, j)
    BY DEF Making, Cutting, Quiet
  <2>9. TodoEffect(o)
    BY <2>4, <2>5, <2>7, <2>8 DEF TodoEffect
  <2> QED
    BY <2>4, <2>6, <2>9 DEF Preserves
<1>DoesPreserves.
    ASSUME StateInv, NEW o, Apt(o), kind' = kind, Does(o)
    PROVE  Preserves(o)
  <2> USE <1>DoesPreserves
  <2>1. CASE o.op \in {"enable out", "enable in"}
    BY <2>1, <1>EnablePreserves
  <2>2. CASE o.op \in {"link out", "link in"}
    BY <2>2, <1>LinkPreserves
  <2>3. CASE o.op \in {"disable out", "disable in", "unlink out", "unlink in"}
    BY <2>3, <1>DisablePreserves
  <2>4. CASE o.op = "attach"
    <3>1. SetConnected(o.i, TRUE)
      BY <2>4 DEF Does
    <3> QED
      BY <2>4, <3>1, <1>AttachPreserves
  <2>5. CASE o.op = "detach"
    <3>1. SetConnected(o.i, FALSE)
      BY <2>5 DEF Does
    <3> QED
      BY <2>5, <3>1, <1>DetachPreserves
  <2>6. CASE o.op = "delete"
    <3>1. Delete(o.i)
      BY <2>6 DEF Does
    <3> QED
      BY <2>6, <3>1, <1>DeletePreserves
  <2>7. CASE o.op = "copy"
    <3>1. CopyPersister(o.i)
      BY <2>7 DEF Does
    <3> QED
      BY <2>7, <3>1, <1>CopyPreserves
  <2>8. CASE o.op = "kill"
    <3>1. Kill(o.i)
      BY <2>8 DEF Does
    <3> QED
      BY <2>8, <3>1, <1>KillPreserves
  <2>9. CASE o.op = "serve"
    <3>1. Serve(o.i)
      BY <2>9 DEF Does
    <3> QED
      BY <2>9, <3>1, <1>ServePreserves
  <2>10. CASE o.op = "make"
    <3>1. Make(o.i) /\ Making(o)
      BY <2>10 DEF Does, Making
    <3>2. Made(o.i, FALSE)
      BY <3>1, <1>MakeEffect
    <3> QED
      BY <3>1, <3>2, MakePreserves
  <2>11. CASE o.op = "make enabled"
    <3>1. MakeEnabled(o.i) /\ Making(o) /\ Types
      BY <2>11 DEF Does, Making, StateInv
    <3>2. Made(o.i, TRUE)
      BY <3>1, <1>MakeEnabledEffect
    <3> QED
      BY <3>1, <3>2, MakePreserves
  <2> QED
    BY <2>1, <2>2, <2>3, <2>4, <2>5, <2>6, <2>7, <2>8, <2>9, <2>10, <2>11 DEF Does
<1> QED
  BY <1>DoesPreserves

----------------------------------------------------------------------------
(***************************************************************************)
(* Every step of the tester preserves the invariant.                        *)
(***************************************************************************)
LEMMA TesterDoes ==
  TodoInv /\ Tester => Advance /\ Does(todo[1][1])
<1>PerformDoes.
    ASSUME NEW o, o.op \in StepsOf("raft"), Perform(o)
    PROVE  Does(o)
  <2> USE <1>PerformDoes
  <2>1. CASE o.op = "delete"
    BY <2>1 DEF Perform, Does
  <2>2. CASE o.op = "copy"
    BY <2>2 DEF Perform, Does
  <2>3. CASE o.op = "kill"
    BY <2>3 DEF Perform, Does
  <2>4. CASE o.op = "make"
    BY <2>4 DEF Perform, Does
  <2>5. CASE o.op = "serve"
    BY <2>5 DEF Perform, Does
  <2>6. CASE o.op = "attach"
    BY <2>6 DEF Perform, Does
  <2>7. CASE o.op = "detach"
    BY <2>7 DEF Perform, Does
  <2>8. CASE o.op = "enable out"
    BY <2>8 DEF Perform, Does
  <2>9. CASE o.op = "enable in"
    BY <2>9 DEF Perform, Does
  <2>10. CASE o.op = "disable out"
    BY <2>10 DEF Perform, Does
  <2>11. CASE o.op = "disable in"
    BY <2>11 DEF Perform, Does
  <2> QED
    BY <2>1, <2>2, <2>3, <2>4, <2>5, <2>6, <2>7, <2>8, <2>9, <2>10, <2>11 DEF StepsOf
<1>PerformServiceDoes.
    ASSUME NEW o, NEW what, what # "raft", o.op \in StepsOf(what), PerformService(o)
    PROVE  Does(o)
  <2> USE <1>PerformServiceDoes
  <2>1. CASE o.op \in {"delete", "copy", "kill", "make", "serve"}
    <3>1. Perform(o) /\ o.op \in StepsOf("raft")
      BY <2>1 DEF PerformService, StepsOf
    <3> QED
      BY <3>1, <1>PerformDoes
  <2>2. CASE o.op = "link out"
    BY <2>2 DEF PerformService, Does
  <2>3. CASE o.op = "link in"
    BY <2>3 DEF PerformService, Does
  <2>4. CASE o.op = "unlink out"
    BY <2>4 DEF PerformService, Does
  <2>5. CASE o.op = "unlink in"
    BY <2>5 DEF PerformService, Does
  <2>6. CASE o.op = "make enabled"
    BY <2>6 DEF PerformService, Does
  <2> QED
    BY <2>1, <2>2, <2>3, <2>4, <2>5, <2>6 DEF StepsOf
<1>TesterDoes.
    ASSUME TodoInv, Tester
    PROVE  Advance /\ Does(todo[1][1])
  <2> USE <1>TesterDoes
  <2>1. todo # <<>> /\ todo' = Rest /\ kind' = kind
    BY DEF Tester, Continue, ContinueService, serviceVars
  <2>2. todo[1][1].op \in StepsOf(kind)
    BY <2>1, NextStep
  <2>3. Does(todo[1][1])
    BY <2>2, <1>PerformDoes, <1>PerformServiceDoes DEF Tester, Continue, ContinueService
  <2> QED
    BY <2>1, <2>3 DEF Advance
<1> QED
  BY <1>TesterDoes

LEMMA NextApt ==
  TodoInv /\ todo # <<>> => Apt(todo[1][1])
\* The server that the tester links runs.
<1>LinkedRuns.
    ASSUME TodoInv, todo # <<>>, Linking(todo[1][1])
    PROVE  running[Sender(todo[1][1])]
  <2> USE <1>LinkedRuns
  <2>1. Program(todo) /\ 1 \in 1 .. Len(todo) /\ 1 \in 1 .. Len(todo[1])
    BY NextStep
  <2>2. running[Sender(todo[1][1])] \/ ToBeMade(todo, Sender(todo[1][1]))
    BY <2>1 DEF TodoInv, SendersRun
  <2>3. Links(todo[1])
    BY <2>1 DEF Links
  <2>4. ASSUME NEW a \in 1 .. Len(todo), Makes(todo[a]) PROVE FALSE
    <3>1. a < 1
      BY <2>1, <2>3, <2>4 DEF Program
    <3> QED
      BY <3>1, SMT
  <2> QED
    BY <2>2, <2>4 DEF ToBeMade
<1>NoneBefore.
    ASSUME NEW s, NEW j
    PROVE  ~\E l \in 1 .. 1 - 1 : Cutting(s[l], j)
    BY <1>NoneBefore, SMT
<1>NextApt.
    ASSUME TodoInv, todo # <<>>
    PROVE  Apt(todo[1][1])
  <2> USE <1>NextApt
  <2> DEFINE o == todo[1][1]
  <2>1. 1 \in 1 .. Len(todo) /\ 1 \in 1 .. Len(todo[1]) /\ o \in Steps /\ o.op \in StepsOf(kind)
    BY NextStep
  <2>2. o.i \in Peers /\ o.j \in Peers
    BY <2>1, StepParts
  <2>3. Ready(o) /\ WillBeSevered(todo[1], ends, enabled) /\ MayStart
    BY <2>1 DEF TodoInv
  <2>4. Linking(o) => running[Sender(o)]
    BY <1>LinkedRuns
  <2>5. Making(o) => gen[o.i] < MaxStarts
    BY <2>1, <2>3 DEF MayStart, Makes
  <2>6. o.op = "kill" => \A j \in Peers : Severed(o.i, j, ends, enabled)
    BY <2>1, <2>3, <1>NoneBefore DEF WillBeSevered
  <2> QED
    BY <2>1, <2>2, <2>3, <2>4, <2>5, <2>6 DEF Apt
<1> QED
  BY <1>NextApt

LEMMA TesterStep ==
  ASSUME HarnessInv, Tester
  PROVE  HarnessInv' /\ KeptSame
<1>1. StateInv /\ TodoInv
  BY DEF HarnessInv
<1>2. Advance /\ Does(todo[1][1])
  BY <1>1, TesterDoes
<1>3. todo # <<>> /\ kind' = kind
  BY <1>2 DEF Advance
<1>4. Apt(todo[1][1])
  BY <1>1, <1>3, NextApt
<1>5. Preserves(todo[1][1])
  BY <1>1, <1>2, <1>3, <1>4, DoesPreserves
<1>6. StateInv' /\ KeptSame /\ TodoEffect(todo[1][1])
  BY <1>5 DEF Preserves
<1>7. TodoInv'
  BY <1>1, <1>2, <1>6, NextTodo
<1> QED
  BY <1>6, <1>7 DEF HarnessInv

----------------------------------------------------------------------------
(***************************************************************************)
(* The steps of the calls, which the tester does not notice.                *)
(***************************************************************************)
LEMMA StepAt ==
  ASSUME NEW p \in Seq(Seq(Steps)), NEW a \in 1 .. Len(p), NEW k \in 1 .. Len(p[a])
  PROVE  p[a][k] \in Steps
<1> DEFINE s == p[a]
<1>1. s \in Seq(Steps)
  BY SMT
<1>2. k \in 1 .. Len(s)
  BY SMT
<1> HIDE DEF s
<1>3. s[k] \in Steps
  BY <1>1, <1>2, SMT
<1> QED
  BY <1>3, SMT DEF s

LEMMA SameState ==
  ASSUME StateInv, TestedSame, CallsSame
  PROVE  StateInv' /\ KeptSame
<1>1. /\ Types /\ gen' = gen /\ running' = running /\ connected' = connected /\ servers' = servers
      /\ ends' = ends /\ enabled' = enabled /\ connections' = connections /\ kind' = kind /\ SavedSame
  BY DEF StateInv, TestedSame
<1>2. Types'
  BY <1>1 DEF Types, SavedSame, CallsSame
<1>3. \A i \in Peers : ServerInv(i)'
  BY <1>1 DEF StateInv, ServerInv, SavedSame, CallsSame
<1>4. \A e \in ends' : EndInv(e)'
  BY <1>1 DEF StateInv, EndInv
<1>5. \A c \in Calls : CallInv(c)'
  BY <1>1, SameCalls DEF EndsSame
<1> QED
  BY <1>1, <1>2, <1>3, <1>4, <1>5, SameKept DEF StateInv

LEMMA TodoFrame ==
  ASSUME TodoInv, todo' = todo, kind' = kind, gen' = gen, running' = running, connected' = connected,
         servers' = servers, attached' = attached,
         \A i, j \in Peers : Severed(i, j, ends, enabled) => Severed(i, j, ends', enabled')
  PROVE  TodoInv'
<1>1. /\ Program(todo) /\ OfKind(todo, kind)
      /\ \A a \in 1 .. Len(todo) : Ready(todo[a][1])
      /\ todo # <<>> => WillBeSevered(todo[1], ends, enabled)
      /\ MayStart /\ SendersRun
  BY DEF TodoInv
<1>2. \A a \in 1 .. Len(todo) : Ready(todo[a][1])'
  BY <1>1 DEF Ready
<1>3. MayStart' /\ SendersRun'
  BY <1>1 DEF MayStart, SendersRun
<1>4. ASSUME todo # <<>> PROVE WillBeSevered(todo[1], ends', enabled')
  <2> SUFFICES ASSUME NEW k \in 1 .. Len(todo[1]), todo[1][k].op = "kill", NEW j \in Peers
               PROVE  \/ Severed(todo[1][k].i, j, ends', enabled')
                      \/ \E l \in 1 .. k - 1 : Cutting(todo[1][l], j)
    BY DEF WillBeSevered
  <2>1. \/ Severed(todo[1][k].i, j, ends, enabled)
        \/ \E l \in 1 .. k - 1 : Cutting(todo[1][l], j)
    BY <1>1, <1>4 DEF WillBeSevered
  <2>2. todo \in Seq(Seq(Steps)) /\ 1 \in 1 .. Len(todo)
    BY <1>4, NextStep DEF TodoInv, Program
  <2>3. todo[1][k].i \in Peers
    BY <2>2, StepAt, StepParts
  <2> QED
    BY <2>1, <2>3
<1> QED
  BY <1>1, <1>2, <1>3, <1>4 DEF TodoInv

LEMMA TodoSame ==
  ASSUME TodoInv, TestedSame, todo' = todo
  PROVE  TodoInv'
<1>1. /\ kind' = kind /\ gen' = gen /\ running' = running /\ connected' = connected
      /\ servers' = servers /\ attached' = attached /\ ends' = ends /\ enabled' = enabled
  BY DEF TestedSame, SavedSame
<1>2. \A i, j \in Peers : Severed(i, j, ends, enabled) => Severed(i, j, ends', enabled')
  BY <1>1
<1> QED
  BY <1>1, <1>2, TodoFrame

LEMMA InstanceOf ==
  ASSUME StateInv, NEW i \in Peers, gen[i] > 0
  PROVE  <<i, gen[i]>> \in Instances
<1>1. gen[i] \in 0 .. MaxStarts
  BY DEF StateInv, Types
<1> QED
  BY <1>1, SMT DEF Instances

LEMMA GrowsKeeps ==
  ASSUME StateInv, TestedSame, Grows
  PROVE  Keeps
<1> SUFFICES ASSUME NEW i \in Peers, NEW c, c \in Kept(i, attached, copy, base, executed, gen)
             PROVE  c \in Kept(i, attached', copy', base', executed', gen')
  BY DEF Keeps
<1>1. attached' = attached /\ copy' = copy /\ base' = base /\ gen' = gen
  BY DEF TestedSame, SavedSame
<1>2. CASE attached[i]
  <2>1. gen[i] > 0
    BY <1>2 DEF StateInv, ServerInv
  <2>2. <<i, gen[i]>> \in Instances
    BY <2>1, InstanceOf
  <2> QED
    BY <1>1, <1>2, <2>2 DEF Kept, Grows
<1>3. CASE ~attached[i]
  BY <1>1, <1>3 DEF Kept
<1> QED
  BY <1>2, <1>3, SMT

LEMMA Moving ==
  ASSUME NEW f, NEW g, NEW c \in Calls, NEW v, IsFun(f, Calls), Sets(f, g, c, v)
  PROVE  Moved(f, g, c) /\ g[c] = v
<1>1. Updated(f, g, Calls, c, v)
  BY Excepted DEF Sets
<1> QED
  BY <1>1 DEF Updated, Moved

LEMMA OtherCall ==
  ASSUME StateInv, TestedSame, Grows, NEW c \in Calls, Moves(c), NEW d \in Calls, d # c
  PROVE  CallInv(d)'
<1>1. CallInv(d) /\ Types
  BY DEF StateInv
<1>2. /\ call'[d] = call[d] /\ end'[d] = end[d] /\ req'[d] = req[d] /\ view'[d] = view[d]
      /\ handler'[d] = handler[d]
  BY DEF Moves, Moved
<1>3. gen' = gen /\ ends' = ends
  BY DEF TestedSame
<1>4. handler[d] \in {"replying", "gone"} => d \in executed'[view[d].server]
  BY <1>1 DEF CallInv, Grows
<1>5. ASSUME req[d] = "reply" \/ call[d] = "true"
      PROVE  d \in Kept(end[d][4], attached', copy', base', executed', gen')
  <2>1. d \in Kept(end[d][4], attached, copy, base, executed, gen)
    BY <1>1, <1>5 DEF CallInv
  <2>2. end[d] \in EndNames
    BY <1>1, <1>5 DEF CallInv, Types
  <2>3. end[d][4] \in Peers
    BY <2>2, EndParts
  <2> QED
    BY <2>1, <2>3, GrowsKeeps DEF Keeps
<1> QED
  BY <1>1, <1>2, <1>3, <1>4, <1>5 DEF CallInv

\* A step of call c.
LEMMA CallStep ==
  ASSUME StateInv, TestedSame, Grows, NEW c \in Calls, Moves(c), CallInv(c)',
         \A i \in Peers : \A g \in gen[i] + 1 .. MaxStarts : executed'[<<i, g>>] = {}
  PROVE  StateInv'
<1>1. /\ Types /\ gen' = gen /\ running' = running /\ connected' = connected /\ servers' = servers
      /\ ends' = ends /\ enabled' = enabled /\ connections' = connections /\ kind' = kind /\ SavedSame
  BY DEF StateInv, TestedSame
<1>2. /\ IsFun(call', Calls) /\ IsFun(end', Calls) /\ IsFun(req', Calls) /\ IsFun(view', Calls)
      /\ IsFun(handler', Calls) /\ IsFun(executed', Instances)
  BY DEF Moves, Moved, Grows
<1>3. Types'
  BY <1>1, <1>2 DEF Types, SavedSame
<1>4. \A i \in Peers : ServerInv(i)'
  BY <1>1 DEF StateInv, ServerInv, SavedSame
<1>5. \A e \in ends' : EndInv(e)'
  BY <1>1 DEF StateInv, EndInv
<1>6. \A d \in Calls : CallInv(d)'
  BY OtherCall
<1> QED
  BY <1>3, <1>4, <1>5, <1>6 DEF StateInv

LEMMA SameExecuted ==
  ASSUME StateInv, executed' = executed
  PROVE  Grows /\ \A i \in Peers : \A g \in gen[i] + 1 .. MaxStarts : executed'[<<i, g>>] = {}
  BY DEF StateInv, Types, ServerInv, Grows

LEMMA QuietStep ==
  ASSUME StateInv, TestedSame, executed' = executed, NEW c \in Calls, Moves(c), CallInv(c)'
  PROVE  StateInv'
  BY SameExecuted, CallStep

LEMMA NetTested ==
  ASSUME NetSame, UNCHANGED cfgVars, kind' = kind
  PROVE  TestedSame /\ todo' = todo
  BY DEF NetSame, cfgVars, TestedSame, SavedSame

LEMMA CallTypes ==
  ASSUME StateInv
  PROVE  IsFun(call, Calls) /\ IsFun(end, Calls) /\ IsFun(req, Calls) /\ IsFun(view, Calls) /\ IsFun(handler, Calls)
  BY DEF StateInv, Types

LEMMA NotMoved ==
  ASSUME StateInv, NEW c
  PROVE  /\ Moved(call, call, c) /\ Moved(end, end, c) /\ Moved(req, req, c)
         /\ Moved(view, view, c) /\ Moved(handler, handler, c)
  BY CallTypes DEF Moved

LEMMA PlacedMoves ==
  ASSUME StateInv, NEW c \in Calls, NEW e, net!Call(c, e)
  PROVE  NetSame /\ executed' = executed /\ Moves(c) /\ CallInv(c)'
<1>1. IsFun(call, Calls) /\ IsFun(end, Calls) /\ CallInv(c)
  BY CallTypes DEF StateInv
<1>2. /\ NetSame /\ executed' = executed /\ view' = view /\ handler' = handler /\ req' = req
      /\ e \in ends /\ call[c] = "idle" /\ Sets(call, call', c, "send") /\ Sets(end, end', c, e)
  BY DEF net!Call, net!netVars, NetSame, Sets
<1>3. Moved(call, call', c) /\ call'[c] = "send"
  BY <1>1, <1>2, Moving
<1>4. Moved(end, end', c) /\ end'[c] = e
  BY <1>1, <1>2, Moving
<1>5. Moves(c)
  <2>1. Moved(view, view, c) /\ Moved(handler, handler, c) /\ Moved(req, req, c)
    BY NotMoved
  <2> QED
    BY <1>2, <1>3, <1>4, <2>1 DEF Moves
<1>6. handler[c] = "none" /\ req[c] = "none"
  <2>1. req[c] = "none"
    BY <1>1, <1>2 DEF CallInv
  <2> QED
    BY <1>1, <2>1 DEF CallInv
<1>7. CallInv(c)'
  BY <1>2, <1>3, <1>4, <1>6 DEF CallInv, NetSame
<1> QED
  BY <1>2, <1>5, <1>7

LEMMA KeptDown ==
  ASSUME KeptSame
  PROVE  DownKept
<1>1. \A i : saved(i)' = Kept(i, attached', copy', base', executed', gen')
  BY DEF saved, disk, Kept
<1> QED
  BY <1>1, SavedIsKept DEF DownKept, KeptSame

LEMMA TestedDown ==
  ASSUME StateInv, TestedSame
  PROVE  DownKept
<1>1. attached' = attached /\ copy' = copy
  BY DEF TestedSame, SavedSame
<1>2. \A i \in Peers : ~running[i] => ~attached[i]
  BY DEF StateInv, ServerInv
<1> QED
  BY <1>1, <1>2 DEF DownKept, saved

LEMMA CallSafe ==
  ASSUME HarnessInv, NetSame, UNCHANGED cfgVars, kind' = kind, executed' = executed,
         NEW c \in Calls, Moves(c), CallInv(c)'
  PROVE  Safe
<1>1. StateInv /\ TodoInv
  BY DEF HarnessInv
<1>2. TestedSame /\ todo' = todo
  BY NetTested
<1>3. StateInv'
  BY <1>1, <1>2, QuietStep
<1>4. TodoInv'
  BY <1>1, <1>2, TodoSame
<1>5. DownKept
  BY <1>1, <1>2, TestedDown
<1> QED
  BY <1>3, <1>4, <1>5 DEF Safe, HarnessInv

LEMMA CallsSafe ==
  ASSUME HarnessInv, NEW c \in Calls, RaftCalls(c), kind' = kind
  PROVE  Safe
<1>1. PICK e \in ends : net!Call(c, e)
  BY DEF RaftCalls
<1>2. UNCHANGED cfgVars /\ StateInv
  BY DEF RaftCalls, HarnessInv
<1>3. NetSame /\ executed' = executed /\ Moves(c) /\ CallInv(c)'
  BY <1>1, <1>2, PlacedMoves
<1> QED
  BY <1>2, <1>3, CallSafe

LEMMA SameSafe ==
  ASSUME HarnessInv, TestedSame, CallsSame, todo' = todo
  PROVE  Safe
<1>1. StateInv /\ TodoInv
  BY DEF HarnessInv
<1>2. StateInv' /\ KeptSame
  BY <1>1, SameState
<1>3. TodoInv'
  BY <1>1, TodoSame
<1> QED
  BY <1>2, <1>3, KeptDown DEF Safe, HarnessInv

LEMMA NetworkSafe ==
  HarnessInv /\ NetworkSteps /\ kind' = kind => Safe /\ NetSame
\* The end of a call that was placed.
<1>EndOfCall.
    ASSUME StateInv, NEW c \in Calls, call[c] # "idle"
    PROVE  end[c] \in ends /\ end[c][4] \in Peers /\ connections[end[c]] = end[c][4]
  <2> USE <1>EndOfCall
  <2>1. end[c] \in ends /\ Types
    BY DEF StateInv, CallInv
  <2>2. end[c] \in EndNames /\ EndInv(end[c])
    BY <2>1 DEF StateInv, Types
  <2>3. end[c][4] \in Peers
    BY <2>2, EndParts
  <2> QED
    BY <2>1, <2>2, <2>3 DEF EndInv
<1>ReceiveMoves.
    ASSUME StateInv, NEW c \in Calls, net!Receive(c)
    PROVE  Quietly(c) /\ CallInv(c)'
  <2> USE <1>ReceiveMoves
  <2>1. IsFun(call, Calls) /\ IsFun(req, Calls) /\ CallInv(c)
    BY CallTypes DEF StateInv
  <2>2. /\ NetSame /\ executed' = executed /\ end' = end /\ view' = view /\ handler' = handler
        /\ call[c] = "send"
        /\ Sets(call, call', c, "wait") /\ Sets(req, req', c, "arrived")
    BY DEF net!Receive, net!netVars, NetSame, Sets
  <2>3. Moved(call, call', c) /\ call'[c] = "wait"
    BY <2>1, <2>2, Moving
  <2>4. Moved(req, req', c) /\ req'[c] = "arrived"
    BY <2>1, <2>2, Moving
  <2>5. Quietly(c)
    <3>1. Moved(end, end, c) /\ Moved(view, view, c) /\ Moved(handler, handler, c)
      BY NotMoved
    <3> QED
      BY <2>2, <2>3, <2>4, <3>1 DEF Quietly, Moves
  <2>6. end[c] \in ends /\ handler[c] = "none"
    <3>1. req[c] = "none" /\ call[c] # "idle"
      BY <2>1, <2>2 DEF CallInv
    <3> QED
      BY <2>1, <3>1 DEF CallInv
  <2>7. CallInv(c)'
    BY <2>2, <2>3, <2>4, <2>6 DEF CallInv, NetSame
  <2> QED
    BY <2>5, <2>7
<1>DestroyedMoves.
    ASSUME StateInv, NEW c \in Calls, net!NetworkDestroyed(c)
    PROVE  Quietly(c) /\ CallInv(c)'
  <2> USE <1>DestroyedMoves
  <2>1. IsFun(call, Calls) /\ CallInv(c)
    BY CallTypes DEF StateInv
  <2>2. /\ NetSame /\ executed' = executed /\ end' = end /\ view' = view /\ handler' = handler /\ req' = req
        /\ call[c] = "send" /\ Sets(call, call', c, "false")
    BY DEF net!NetworkDestroyed, net!netVars, NetSame, Sets
  <2>3. Moved(call, call', c) /\ call'[c] = "false"
    BY <2>1, <2>2, Moving
  <2>4. Quietly(c)
    <3>1. Moved(end, end, c) /\ Moved(view, view, c) /\ Moved(handler, handler, c) /\ Moved(req, req, c)
      BY NotMoved
    <3> QED
      BY <2>2, <2>3, <3>1 DEF Quietly, Moves
  <2>5. end[c] \in ends /\ handler[c] = "none" /\ req[c] = "none"
    <3>1. req[c] = "none" /\ call[c] # "idle"
      BY <2>1, <2>2 DEF CallInv
    <3> QED
      BY <2>1, <3>1 DEF CallInv
  <2>6. CallInv(c)'
    BY <2>2, <2>3, <2>5 DEF CallInv, NetSame
  <2> QED
    BY <2>4, <2>6
\* A call that processReq works on.
<1>InProcess.
    ASSUME StateInv, NEW c \in Calls, req[c] # "none"
    PROVE  call[c] \notin {"idle", "send"} /\ end[c] \in ends /\ end[c][4] \in Peers /\ connections[end[c]] = end[c][4]
  <2> USE <1>InProcess
  <2>1. call[c] \notin {"idle", "send"}
    BY DEF StateInv, CallInv
  <2> QED
    BY <2>1, <1>EndOfCall
<1>StillKept.
    ASSUME SavedSame, gen' = gen, executed' = executed, NEW i, NEW c
    PROVE  c \in Kept(i, attached, copy, base, executed, gen) => c \in Kept(i, attached', copy', base', executed', gen')
    BY <1>StillKept DEF SavedSame
<1>ViewedServer.
    ASSUME StateInv, NEW n \in Peers, servers[n] # None
    PROVE  Viewed(n, servers[n], gen)
  <2> USE <1>ViewedServer
  <2>1. servers[n] = <<n, gen[n]>> /\ gen[n] > 0 /\ Types
    BY DEF StateInv, ServerInv
  <2>2. <<n, gen[n]>> \in Instances
    BY <2>1, InstanceOf
  <2>3. gen[n] <= gen[n]
    <3>1. gen[n] \in Nat
      BY <2>1, GenNat
    <3> QED
      BY <3>1, SMT
  <2>4. <<n, gen[n]>>[1] = n /\ <<n, gen[n]>>[2] = gen[n]
    BY SMT
  <2>5. servers[n][1] = n /\ servers[n][2] = gen[n]
    BY <2>1, <2>4
  <2> QED
    BY <2>1, <2>2, <2>3, <2>5 DEF Viewed
<1>readMoves.
    ASSUME StateInv, SavedSame, gen' = gen, NEW c \in Calls, net!readEndnameInfo(c)
    PROVE  Quietly(c) /\ CallInv(c)'
  <2> USE <1>readMoves
  <2> DEFINE n == connections[end[c]]
             rs == IF n = None THEN None ELSE servers[n]
             w == [servername |-> n, server |-> rs, reliable |-> reliable]
             v == IF enabled[end[c]] /\ n # None /\ rs # None THEN "deliver" ELSE "fail"
  <2>1. IsFun(req, Calls) /\ IsFun(view, Calls) /\ CallInv(c)
    BY CallTypes DEF StateInv
  <2>2. /\ NetSame /\ executed' = executed /\ end' = end /\ call' = call /\ handler' = handler
        /\ req[c] = "arrived" /\ Sets(req, req', c, v) /\ Sets(view, view', c, w)
    BY DEF net!readEndnameInfo, net!Proceed, net!netVars, NetSame, Sets
  <2>3. w.servername = n /\ w.server = rs
    OBVIOUS
  <2>4. /\ v \in {"deliver", "fail"}
        /\ v = "deliver" => rs = servers[n] /\ servers[n] # None
    OBVIOUS
  <2>5. call[c] \notin {"idle", "send"} /\ end[c] \in ends /\ end[c][4] \in Peers /\ n = end[c][4]
    BY <2>2, <1>InProcess
  <2>6. handler[c] = "none"
    BY <2>1, <2>2 DEF CallInv
  <2> HIDE DEF n, rs, w, v
  <2>7. Moved(req, req', c) /\ req'[c] = v
    BY <2>1, <2>2, Moving
  <2>8. Moved(view, view', c) /\ view'[c] = w
    BY <2>1, <2>2, Moving
  <2>9. Quietly(c)
    <3>1. Moved(end, end, c) /\ Moved(call, call, c) /\ Moved(handler, handler, c)
      BY NotMoved
    <3> QED
      BY <2>2, <2>7, <2>8, <3>1 DEF Quietly, Moves
  <2>10. v = "deliver" => Viewed(end[c][4], w.server, gen)
    BY <2>3, <2>4, <2>5, <1>ViewedServer
  <2>11. call[c] = "true" => c \in Kept(end[c][4], attached', copy', base', executed', gen')
    BY <2>1, <2>2, <1>StillKept DEF CallInv
  <2>12. CallInv(c)'
    BY <2>2, <2>3, <2>4, <2>5, <2>6, <2>7, <2>8, <2>10, <2>11 DEF CallInv, NetSame, Viewed
  <2> QED
    BY <2>9, <2>12
\* processReq goes on to v, and leaves everything else alone.
<1>ProceedMoves.
    ASSUME StateInv, SavedSame, gen' = gen, NEW c \in Calls, NEW v, Sets(req, req', c, v), req[c] # "none",
           NetSame, executed' = executed, end' = end, call' = call, view' = view, handler' = handler,
           \/ v \in {"fail", "abandoned"}
           \/ v = "reply" /\ c \in Kept(end[c][4], attached, copy, base, executed, gen)
    PROVE  Quietly(c) /\ CallInv(c)'
  <2> USE <1>ProceedMoves
  <2>1. IsFun(req, Calls) /\ CallInv(c)
    BY CallTypes DEF StateInv
  <2>2. Moved(req, req', c) /\ req'[c] = v
    BY <2>1, Moving
  <2>3. Quietly(c)
    <3>1. Moved(end, end, c) /\ Moved(call, call, c) /\ Moved(handler, handler, c) /\ Moved(view, view, c)
      BY NotMoved
    <3> QED
      BY <2>2, <3>1 DEF Quietly, Moves
  <2>4. call[c] \notin {"idle", "send"} /\ end[c] \in ends
    BY <1>InProcess
  <2>5. call[c] = "true" \/ v = "reply" => c \in Kept(end[c][4], attached', copy', base', executed', gen')
    BY <2>1, <1>StillKept DEF CallInv
  <2>6. /\ handler[c] # "none" => view[c].server \in Instances /\ view[c].server[2] <= gen[view[c].server[1]]
        /\ handler[c] \in {"replying", "gone"} => c \in executed[view[c].server]
    BY <2>1 DEF CallInv
  <2>7. CallInv(c)'
    BY <2>2, <2>4, <2>5, <2>6 DEF CallInv, NetSame
  <2> QED
    BY <2>3, <2>7
<1>DropMoves.
    ASSUME StateInv, SavedSame, gen' = gen, NEW c \in Calls, net!DropRequest(c)
    PROVE  Quietly(c) /\ CallInv(c)'
  <2> USE <1>DropMoves
  <2>1. /\ NetSame /\ executed' = executed /\ end' = end /\ call' = call /\ view' = view /\ handler' = handler
        /\ req[c] # "none" /\ Sets(req, req', c, "fail")
    BY DEF net!DropRequest, net!Proceed, net!netVars, NetSame, Sets
  <2>2. "fail" \in {"fail", "abandoned"}
    OBVIOUS
  <2> QED
    BY <2>1, <2>2, <1>ProceedMoves
<1>GiveUpMoves.
    ASSUME StateInv, SavedSame, gen' = gen, NEW c \in Calls, net!GiveUp(c)
    PROVE  Quietly(c) /\ CallInv(c)'
  <2> USE <1>GiveUpMoves
  <2>1. /\ NetSame /\ executed' = executed /\ end' = end /\ call' = call /\ view' = view /\ handler' = handler
        /\ req[c] # "none" /\ Sets(req, req', c, "abandoned")
    BY DEF net!GiveUp, net!Proceed, net!netVars, NetSame, Sets
  <2>2. "abandoned" \in {"fail", "abandoned"}
    OBVIOUS
  <2> QED
    BY <2>1, <2>2, <1>ProceedMoves
\* A server that is not dead after its answer has saved what it executed where a
\* new instance will find it.
<1>AnswerIsSaved.
    ASSUME StateInv, NEW c \in Calls, req[c] = "answered", ~net!isServerDead(c)
    PROVE  c \in Kept(end[c][4], attached, copy, base, executed, gen)
  <2> USE <1>AnswerIsSaved
  <2> DEFINE n == end[c][4]
             s == view[c].server
  <2>1. CallInv(c)
    BY DEF StateInv
  <2>2. view[c].servername = n /\ s # None /\ handler[c] = "gone"
    BY <2>1 DEF CallInv
  <2>3. c \in executed[s]
    BY <2>1, <2>2 DEF CallInv
  <2>4. servers[n] = s
    BY <2>2 DEF net!isServerDead
  <2>5. n \in Peers
    BY <1>InProcess
  <2>6. s = <<n, gen[n]>> /\ attached[n]
    BY <2>2, <2>4, <2>5 DEF StateInv, ServerInv
  <2> QED
    BY <2>3, <2>6 DEF Kept
<1>FinalMoves.
    ASSUME StateInv, SavedSame, gen' = gen, NEW c \in Calls, net!FinalCheck(c)
    PROVE  Quietly(c) /\ CallInv(c)'
  <2> USE <1>FinalMoves
  <2>1. /\ NetSame /\ executed' = executed /\ end' = end /\ call' = call /\ view' = view /\ handler' = handler
        /\ req[c] # "none"
        /\ \/ Sets(req, req', c, "fail")
           \/ Sets(req, req', c, "reply") /\ req[c] = "answered" /\ ~net!isServerDead(c)
    BY DEF net!FinalCheck, net!Proceed, net!netVars, NetSame, Sets
  <2>2. CASE Sets(req, req', c, "fail")
    <3>1. "fail" \in {"fail", "abandoned"}
      OBVIOUS
    <3> QED
      BY <2>1, <2>2, <3>1, <1>ProceedMoves
  <2>3. CASE Sets(req, req', c, "reply") /\ req[c] = "answered" /\ ~net!isServerDead(c)
    <3>1. c \in Kept(end[c][4], attached, copy, base, executed, gen)
      BY <2>3, <1>AnswerIsSaved
    <3> QED
      BY <2>1, <2>3, <3>1, <1>ProceedMoves
  <2> QED
    BY <2>1, <2>2, <2>3
<1>DispatchMoves.
    ASSUME StateInv, SavedSame, gen' = gen, NEW c \in Calls, net!Dispatch(c)
    PROVE  Quietly(c) /\ CallInv(c)'
  <2> USE <1>DispatchMoves
  <2>1. IsFun(req, Calls) /\ IsFun(handler, Calls) /\ CallInv(c)
    BY CallTypes DEF StateInv
  <2>2. /\ NetSame /\ executed' = executed /\ end' = end /\ call' = call /\ view' = view
        /\ req[c] = "deliver" /\ Sets(req, req', c, "select") /\ Sets(handler, handler', c, "running")
    BY DEF net!Dispatch, net!Proceed, net!netVars, NetSame, Sets
  <2>3. Moved(req, req', c) /\ req'[c] = "select"
    BY <2>1, <2>2, Moving
  <2>4. Moved(handler, handler', c) /\ handler'[c] = "running"
    BY <2>1, <2>2, Moving
  <2>5. Quietly(c)
    <3>1. Moved(end, end, c) /\ Moved(call, call, c) /\ Moved(view, view, c)
      BY NotMoved
    <3> QED
      BY <2>2, <2>3, <2>4, <3>1 DEF Quietly, Moves
  <2>6. call[c] \notin {"idle", "send"} /\ end[c] \in ends
    BY <2>2, <1>InProcess
  <2>7. call[c] = "true" => c \in Kept(end[c][4], attached', copy', base', executed', gen')
    BY <2>1, <2>2, <1>StillKept DEF CallInv
  <2>8. /\ view[c].servername = end[c][4] /\ view[c].server \in Instances /\ view[c].server # None
        /\ view[c].server[1] = end[c][4] /\ view[c].server[2] <= gen[end[c][4]]
    BY <2>1, <2>2 DEF CallInv
  <2>9. CallInv(c)'
    BY <2>2, <2>3, <2>4, <2>6, <2>7, <2>8 DEF CallInv, NetSame
  <2> QED
    BY <2>5, <2>9
<1>TakeMoves.
    ASSUME StateInv, SavedSame, gen' = gen, NEW c \in Calls, net!TakeReply(c)
    PROVE  Quietly(c) /\ CallInv(c)'
  <2> USE <1>TakeMoves
  <2>1. IsFun(req, Calls) /\ IsFun(handler, Calls) /\ CallInv(c)
    BY CallTypes DEF StateInv
  <2>2. /\ NetSame /\ executed' = executed /\ end' = end /\ call' = call /\ view' = view
        /\ req[c] = "select" /\ handler[c] = "replying"
        /\ Sets(req, req', c, "answered") /\ Sets(handler, handler', c, "gone")
    BY DEF net!TakeReply, net!Proceed, net!netVars, NetSame, Sets
  <2>3. Moved(req, req', c) /\ req'[c] = "answered"
    BY <2>1, <2>2, Moving
  <2>4. Moved(handler, handler', c) /\ handler'[c] = "gone"
    BY <2>1, <2>2, Moving
  <2>5. Quietly(c)
    <3>1. Moved(end, end, c) /\ Moved(call, call, c) /\ Moved(view, view, c)
      BY NotMoved
    <3> QED
      BY <2>2, <2>3, <2>4, <3>1 DEF Quietly, Moves
  <2>6. call[c] \notin {"idle", "send"} /\ end[c] \in ends
    BY <2>2, <1>InProcess
  <2>7. call[c] = "true" => c \in Kept(end[c][4], attached', copy', base', executed', gen')
    BY <2>1, <2>2, <1>StillKept DEF CallInv
  <2>8. /\ view[c].servername = end[c][4] /\ view[c].server \in Instances /\ view[c].server # None
        /\ view[c].server[1] = end[c][4] /\ view[c].server[2] <= gen[end[c][4]]
    BY <2>1, <2>2 DEF CallInv
  <2>10. c \in executed[view[c].server]
    BY <2>1, <2>2 DEF CallInv
  <2>9. CallInv(c)'
    BY <2>2, <2>3, <2>4, <2>6, <2>7, <2>8, <2>10 DEF CallInv, NetSame
  <2> QED
    BY <2>5, <2>9
<1>SendMoves.
    ASSUME StateInv, SavedSame, gen' = gen, NEW c \in Calls, net!SendReply(c)
    PROVE  Quietly(c) /\ CallInv(c)'
  <2> USE <1>SendMoves
  <2> DEFINE v == IF req[c] = "reply" THEN "true" ELSE "false"
  <2>1. IsFun(req, Calls) /\ IsFun(call, Calls) /\ CallInv(c)
    BY CallTypes DEF StateInv
  <2>2. /\ NetSame /\ executed' = executed /\ end' = end /\ view' = view /\ handler' = handler
        /\ req[c] \in {"reply", "fail"}
        /\ Sets(req, req', c, "gone") /\ Sets(call, call', c, v)
    BY DEF net!SendReply, net!netVars, NetSame, Sets
  <2>3. Moved(req, req', c) /\ req'[c] = "gone"
    BY <2>1, <2>2, Moving
  <2>4. v \in {"true", "false"} /\ (v = "true" => req[c] = "reply")
    OBVIOUS
  <2> HIDE DEF v
  <2>5. Moved(call, call', c) /\ call'[c] = v
    BY <2>1, <2>2, Moving
  <2>6. Quietly(c)
    <3>1. Moved(end, end, c) /\ Moved(handler, handler, c) /\ Moved(view, view, c)
      BY NotMoved
    <3> QED
      BY <2>2, <2>3, <2>5, <3>1 DEF Quietly, Moves
  <2>7. end[c] \in ends
    BY <2>2, <1>InProcess
  <2>8. v = "true" => c \in Kept(end[c][4], attached', copy', base', executed', gen')
    BY <2>1, <2>2, <2>4, <1>StillKept DEF CallInv
  <2>9. /\ handler[c] # "none" => view[c].server \in Instances /\ view[c].server[2] <= gen[view[c].server[1]]
        /\ handler[c] \in {"replying", "gone"} => c \in executed[view[c].server]
    BY <2>1 DEF CallInv
  <2>10. CallInv(c)'
    BY <2>2, <2>3, <2>4, <2>5, <2>7, <2>8, <2>9 DEF CallInv, NetSame
  <2> QED
    BY <2>6, <2>10
<1>DrainMoves.
    ASSUME StateInv, SavedSame, gen' = gen, NEW c \in Calls, net!Drain(c)
    PROVE  Quietly(c) /\ CallInv(c)'
  <2> USE <1>DrainMoves
  <2>1. IsFun(handler, Calls) /\ CallInv(c)
    BY CallTypes DEF StateInv
  <2>2. /\ NetSame /\ executed' = executed /\ end' = end /\ call' = call /\ view' = view /\ req' = req
        /\ handler[c] = "replying" /\ req[c] \in {"abandoned", "fail", "gone"}
        /\ Sets(handler, handler', c, "gone")
    BY DEF net!Drain, net!netVars, NetSame, Sets
  <2>3. Moved(handler, handler', c) /\ handler'[c] = "gone"
    BY <2>1, <2>2, Moving
  <2>4. Quietly(c)
    <3>1. Moved(end, end, c) /\ Moved(call, call, c) /\ Moved(view, view, c) /\ Moved(req, req, c)
      BY NotMoved
    <3> QED
      BY <2>2, <2>3, <3>1 DEF Quietly, Moves
  <2>5. call[c] \notin {"idle", "send"} /\ end[c] \in ends
    BY <2>2, <1>InProcess
  <2>6. call[c] = "true" => c \in Kept(end[c][4], attached', copy', base', executed', gen')
    BY <2>1, <2>2, <1>StillKept DEF CallInv
  <2>7. /\ view[c].server \in Instances /\ view[c].server[2] <= gen[view[c].server[1]]
        /\ c \in executed[view[c].server]
    BY <2>1, <2>2 DEF CallInv
  <2>8. CallInv(c)'
    BY <2>2, <2>3, <2>5, <2>6, <2>7 DEF CallInv, NetSame
  <2> QED
    BY <2>4, <2>8
\* Whoever executes has been started.
<1>NotBeyond.
    ASSUME NEW x \in Instances, NEW n \in Nat, x[2] <= n, NEW i \in Peers, NEW g \in n + 1 .. MaxStarts
    PROVE  <<i, g>> # x
    BY <1>NotBeyond, RaftConfigAssumption, SMT DEF Instances
<1>dispatchMoves.
    ASSUME StateInv, TestedSame, NEW c \in Calls, net!dispatch(c)
    PROVE  StateInv'
  <2> USE <1>dispatchMoves
  <2> DEFINE s == view[c].server
  <2>1. IsFun(handler, Calls) /\ IsFun(executed, Instances) /\ CallInv(c) /\ Types
    BY CallTypes DEF StateInv, Types
  <2>2. /\ end' = end /\ call' = call /\ view' = view /\ req' = req
        /\ handler[c] = "running" /\ Sets(handler, handler', c, "replying")
        /\ executed' = [executed EXCEPT ![s] = executed[s] \cup {c}]
    BY DEF net!dispatch, net!netVars, Sets
  <2>3. Moved(handler, handler', c) /\ handler'[c] = "replying"
    BY <2>1, <2>2, Moving
  <2>4. Moves(c)
    <3>1. Moved(end, end, c) /\ Moved(call, call, c) /\ Moved(view, view, c) /\ Moved(req, req, c)
      BY NotMoved
    <3> QED
      BY <2>2, <2>3, <3>1 DEF Moves
  <2>5. s \in Instances /\ s[2] <= gen[s[1]] /\ req[c] \notin {"none", "arrived", "deliver"}
    BY <2>1, <2>2 DEF CallInv
  <2>6. Updated(executed, executed', Instances, s, executed[s] \cup {c})
    BY <2>1, <2>2, Excepted
  <2> HIDE DEF s
  <2>7. Grows /\ c \in executed'[s] /\ \A x \in Instances : x # s => executed'[x] = executed[x]
    BY <2>5, <2>6 DEF Updated, Grows
  <2>8. ASSUME NEW i \in Peers, NEW g \in gen[i] + 1 .. MaxStarts PROVE executed'[<<i, g>>] = {}
    <3>1. gen[i] \in Nat /\ s[1] \in Peers
      BY <2>1, <2>5, GenNat, InstanceParts
    <3>2. executed[<<i, g>>] = {}
      BY <2>8 DEF StateInv, ServerInv
    <3>3. <<i, g>> \in Instances
      BY <3>1, RaftConfigAssumption, SMT DEF Instances
    <3>4. <<i, g>> # s
      <4>1. CASE s[1] = i
        <5>1. s[2] <= gen[i]
          BY <2>5, <4>1
        <5> QED
          BY <2>5, <3>1, <5>1, <1>NotBeyond
      <4>2. CASE s[1] # i
        <5>1. <<i, g>>[1] = i
          BY SMT
        <5> QED
          BY <4>2, <5>1
      <4> QED
        BY <4>1, <4>2, SMT
    <3> QED
      BY <2>7, <3>2, <3>3, <3>4
  <2>9. call[c] \notin {"idle", "send"} /\ end[c] \in ends /\ end[c][4] \in Peers
    BY <2>5, <1>InProcess
  <2>10. call[c] = "true" \/ req[c] = "reply" => c \in Kept(end[c][4], attached', copy', base', executed', gen')
    <3>1. Keeps
      BY <2>7, GrowsKeeps
    <3> QED
      BY <2>1, <2>9, <3>1 DEF CallInv, Keeps
  <2>11. /\ req[c] \in {"deliver", "select", "answered"} =>
              /\ view[c].servername = end[c][4] /\ view[c].server \in Instances /\ view[c].server # None
              /\ view[c].server[1] = end[c][4] /\ view[c].server[2] <= gen[end[c][4]]
         /\ req[c] # "answered"
    BY <2>1, <2>2 DEF CallInv
  <2>12. gen' = gen /\ ends' = ends
    BY DEF TestedSame
  <2>13. CallInv(c)'
    BY <2>2, <2>3, <2>5, <2>7, <2>9, <2>10, <2>11, <2>12 DEF CallInv, s
  <2> QED
    BY <2>4, <2>7, <2>8, <2>13, CallStep
\* The steps of a call in the network.
<1>ProcessMoves.
    ASSUME StateInv, SavedSame, gen' = gen, NEW c \in Calls,
           net!Caller(c) \/ net!processReq(c) \/ net!Drain(c)
    PROVE  Quietly(c) /\ CallInv(c)'
  <2> USE <1>ProcessMoves
  <2>1. CASE net!Receive(c)
    BY <2>1, <1>ReceiveMoves
  <2>2. CASE net!NetworkDestroyed(c)
    BY <2>2, <1>DestroyedMoves
  <2>3. CASE net!readEndnameInfo(c)
    BY <2>3, <1>readMoves
  <2>4. CASE net!DropRequest(c)
    BY <2>4, <1>DropMoves
  <2>5. CASE net!Dispatch(c)
    BY <2>5, <1>DispatchMoves
  <2>6. CASE net!TakeReply(c)
    BY <2>6, <1>TakeMoves
  <2>7. CASE net!GiveUp(c)
    BY <2>7, <1>GiveUpMoves
  <2>8. CASE net!FinalCheck(c)
    BY <2>8, <1>FinalMoves
  <2>9. CASE net!SendReply(c)
    BY <2>9, <1>SendMoves
  <2>10. CASE net!Drain(c)
    BY <2>10, <1>DrainMoves
  <2> QED
    BY <2>1, <2>2, <2>3, <2>4, <2>5, <2>6, <2>7, <2>8, <2>9, <2>10 DEF net!Caller, net!processReq
<1>NetworkSafe.
    ASSUME HarnessInv, NetworkSteps, kind' = kind
    PROVE  Safe /\ NetSame
  <2> USE <1>NetworkSafe
  <2>1. net!NetworkStep /\ UNCHANGED cfgVars /\ StateInv /\ TodoInv
    BY DEF NetworkSteps, HarnessInv
  <2>2. SavedSame /\ gen' = gen
    BY <2>1 DEF cfgVars, SavedSame
  <2>3. ASSUME NEW c \in Calls, net!Caller(c) \/ net!processReq(c) \/ net!Drain(c) PROVE Safe /\ NetSame
    <3>1. Quietly(c) /\ CallInv(c)'
      BY <2>1, <2>2, <2>3, <1>ProcessMoves
    <3> QED
      BY <2>1, <3>1, CallSafe DEF Quietly
  <2>4. ASSUME NEW c \in Calls, net!dispatch(c) PROVE Safe /\ NetSame
    <3>1. NetSame
      BY <2>4 DEF net!dispatch, net!netVars, NetSame
    <3>2. TestedSame /\ todo' = todo
      BY <2>1, <3>1, NetTested
    <3>3. StateInv'
      BY <2>1, <2>4, <3>2, <1>dispatchMoves
    <3>4. TodoInv'
      BY <2>1, <3>2, TodoSame
    <3>5. DownKept
      BY <2>1, <3>2, TestedDown
    <3> QED
      BY <3>1, <3>3, <3>4, <3>5 DEF Safe, HarnessInv
  <2>5. CASE net!StopLoop
    <3>1. NetSame /\ CallsSame
      BY <2>5 DEF net!StopLoop, net!netVars, net!callVars, NetSame, CallsSame
    <3>2. TestedSame /\ todo' = todo
      BY <2>1, <3>1, NetTested
    <3> QED
      BY <3>1, <3>2, SameSafe
  <2> QED
    BY <2>1, <2>3, <2>4, <2>5 DEF net!NetworkStep
<1> QED
  BY <1>NetworkSafe

LEMMA SettingsSafe ==
  ASSUME HarnessInv, kind' = kind, cleanup \/ \E unrel \in BOOLEAN : setunreliable(unrel)
  PROVE  Safe
<1>1. CASE cleanup
  <2>1. NetSame /\ CallsSame /\ UNCHANGED cfgVars
    BY <1>1 DEF cleanup, Network, net!Cleanup, callVars, NetSame, CallsSame
  <2>2. TestedSame /\ todo' = todo
    BY <2>1, NetTested
  <2> QED
    BY <2>1, <2>2, SameSafe
<1>2. ASSUME NEW unrel \in BOOLEAN, setunreliable(unrel) PROVE Safe
  <2>1. TestedSame /\ CallsSame /\ todo' = todo
    BY <1>2 DEF setunreliable, Network, net!Reliable, callVars, savedVars, TestedSame, SavedSame, CallsSame
  <2> QED
    BY <2>1, SameSafe
<1> QED
  BY <1>1, <1>2, SMT

\* New ends that are not those of a Raft.
LEMMA EndsSafe ==
  ASSUME HarnessInv, NEW new, NEW to, MakeEnds(new, to), \A e \in new : e \in EndNames /\ e[3] # "raft"
  PROVE  Safe
<1>1. StateInv /\ TodoInv /\ Types
  BY DEF HarnessInv, StateInv
<1>2. /\ ends' = ends \cup new
      /\ connections' = [e \in EndNames |-> IF e \in new THEN e[4] ELSE connections[e]]
      /\ enabled' = [e \in EndNames |-> IF e \in new THEN e[4] \in to ELSE enabled[e]]
      /\ servers' = servers /\ CallsSame /\ SavedSame /\ gen' = gen /\ running' = running
      /\ connected' = connected /\ todo' = todo /\ kind' = kind /\ attached' = attached
      /\ \A e \in new : e \notin ends
  BY DEF MakeEnds, callVars, cfgVars, serviceVars, CallsSame, SavedSame
<1>3. IsFun(connections', EndNames) /\ IsFun(enabled', EndNames) /\ ends' \subseteq EndNames
  BY <1>1, <1>2 DEF IsFun, Types
<1>4. /\ \A e \in EndNames : e \in new => connections'[e] = e[4] /\ enabled'[e] = (e[4] \in to)
      /\ \A e \in EndNames : e \notin new => connections'[e] = connections[e] /\ enabled'[e] = enabled[e]
  BY <1>2
<1>5. \A e \in EndNames : enabled'[e] \in BOOLEAN
  <2>1. \A e : (e[4] \in to) \in BOOLEAN
    BY SMT
  <2> QED
    BY <1>1, <1>4, <2>1 DEF Types
<1>6. Types'
  BY <1>1, <1>2, <1>3, <1>5 DEF Types, CallsSame, SavedSame
<1>7. \A i \in Peers : ServerInv(i)'
  BY <1>1, <1>2 DEF StateInv, ServerInv, CallsSame
<1>8. ASSUME NEW e \in ends' PROVE EndInv(e)'
  <2>0. e \in EndNames
    BY <1>3
  <2>1. CASE e \in new
    BY <1>4, <2>0, <2>1 DEF EndInv
  <2>2. CASE e \notin new
    <3>1. EndInv(e)
      BY <1>1, <1>2, <2>2 DEF StateInv
    <3> QED
      BY <1>2, <1>4, <2>0, <2>2, <3>1 DEF EndInv
  <2> QED
    BY <2>1, <2>2, SMT
<1>9. \A c \in Calls : CallInv(c)'
  <2>1. Keeps /\ \A e \in ends : e \in ends'
    BY <1>2, SameSaved
  <2> QED
    BY <1>1, <1>2, <2>1, SameGen, CallFrame
<1>10. StateInv'
  BY <1>6, <1>7, <1>8, <1>9 DEF StateInv
<1>11. \A i, j \in Peers : Severed(i, j, ends, enabled) => Severed(i, j, ends', enabled')
  <2>1. \A e \in ends' : e[3] = "raft" => e \in ends /\ enabled'[e] = enabled[e]
    BY <1>2, <1>3, <1>4
  <2> QED
    BY <2>1 DEF Severed
<1>12. TodoInv'
  BY <1>1, <1>2, <1>11, TodoFrame
<1>13. DownKept
  BY <1>2, SameKept, KeptDown
<1> QED
  BY <1>10, <1>12, <1>13 DEF Safe, HarnessInv

LEMMA ClerkEnds ==
  ASSUME NEW ck \in Clerks, NEW e \in {<<ck, 1, "clerk", j>> : j \in Peers}
  PROVE  e \in EndNames /\ e[3] # "raft"
  BY SMT DEF EndNames

LEMMA ClientSafe ==
  ASSUME HarnessInv, NEW ck \in Clerks, makeClient(ck)
  PROVE  Safe
<1> DEFINE new == {<<ck, 1, "clerk", j>> : j \in Peers}
<1>1. \E to : MakeEnds(new, to)
  BY DEF makeClient
<1>2. \A e \in new : e \in EndNames /\ e[3] # "raft"
  BY ClerkEnds
<1> HIDE DEF new
<1> QED
  BY <1>1, <1>2, EndsSafe

LEMMA MakeEndSafe ==
  ASSUME HarnessInv, NEW e \in EndNames, make_end(e)
  PROVE  Safe
<1> DEFINE new == {e}
           to == {e[4]}
<1>1. MakeEnds(new, to)
  BY DEF make_end
<1>2. \A f \in new : f \in EndNames /\ f[3] # "raft"
  BY DEF make_end
<1> HIDE DEF new, to
<1> QED
  BY <1>1, <1>2, EndsSafe

LEMMA ConnectSafe ==
  ASSUME HarnessInv, NEW e \in ends, ConnectClient(e)
  PROVE  Safe
<1>1. StateInv /\ TodoInv /\ Types /\ e \in EndNames
  BY DEF HarnessInv, StateInv, Types
<1>2. /\ ends' = ends /\ connections' = connections /\ enabled' = [enabled EXCEPT ![e] = TRUE]
      /\ servers' = servers /\ CallsSame /\ SavedSame /\ gen' = gen /\ running' = running
      /\ connected' = connected /\ todo' = todo /\ kind' = kind /\ attached' = attached
      /\ e[3] # "raft" /\ EndsSame
  BY DEF ConnectClient, Network, net!Enable, callVars, cfgVars, serviceVars, CallsSame, SavedSame, EndsSame
<1>3. Updated(enabled, enabled', EndNames, e, TRUE)
  BY <1>1, <1>2, Excepted DEF Types
<1>4. IsFun(enabled', EndNames) /\ enabled'[e] = TRUE /\ \A f \in EndNames : f # e => enabled'[f] = enabled[f]
  BY <1>1, <1>3 DEF Updated
<1>5. \A f \in EndNames : enabled'[f] \in BOOLEAN
  BY <1>1, <1>4 DEF Types
<1>6. Types'
  BY <1>1, <1>2, <1>4, <1>5 DEF Types, CallsSame, SavedSame
<1>7. \A i \in Peers : ServerInv(i)'
  BY <1>1, <1>2 DEF StateInv, ServerInv, CallsSame
<1>8. ASSUME NEW f \in ends' PROVE EndInv(f)'
  <2>1. EndInv(f) /\ f \in EndNames
    BY <1>1, <1>2 DEF StateInv, Types
  <2>2. f[3] = "raft" => enabled'[f] = enabled[f]
    BY <1>2, <1>4, <2>1
  <2> QED
    BY <1>2, <2>1, <2>2 DEF EndInv
<1>9. \A c \in Calls : CallInv(c)'
  BY <1>1, <1>2, SameCalls
<1>10. StateInv'
  BY <1>6, <1>7, <1>8, <1>9 DEF StateInv
<1>11. \A i, j \in Peers : Severed(i, j, ends, enabled) => Severed(i, j, ends', enabled')
  <2>1. \A f \in ends' : f[3] = "raft" => f \in ends /\ enabled'[f] = enabled[f]
    BY <1>1, <1>2, <1>4 DEF Types
  <2> QED
    BY <2>1 DEF Severed
<1>12. TodoInv'
  BY <1>1, <1>2, <1>11, TodoFrame
<1>13. DownKept
  BY <1>2, SameKept, KeptDown
<1> QED
  BY <1>10, <1>12, <1>13 DEF Safe, HarnessInv

----------------------------------------------------------------------------
(***************************************************************************)
(* The links: what is pending.                                              *)
(***************************************************************************)
LEMMA PendingStep ==
  ASSUME NEW p, NEW o \in Pending(p)
  PROVE  o \in Steps /\ o.i \in Peers /\ o.j \in Peers /\ o.op \in StepNames
<1>1. o \in Steps
  BY DEF Pending
<1> QED
  BY <1>1, StepParts

LEMMA FirstPending ==
  ASSUME TodoInv, todo # <<>>
  PROVE  todo[1][1] \in Pending(todo)
<1>1. 1 \in 1 .. Len(todo) /\ 1 \in 1 .. Len(todo[1]) /\ todo[1][1] \in Steps
  BY NextStep
<1> QED
  BY <1>1 DEF Pending

LEMMA NonePending == Pending(<<>>) = {}
<1>1. Len(<<>>) = 0 /\ 1 .. 0 = {}
  BY SMT
<1> QED
  BY <1>1 DEF Pending

\* Who is to be linked runs already, so nothing is made later.
LEMMA LinksLast ==
  ASSUME TodoInv, todo # <<>>, Linking(todo[1][1]), NEW x \in Pending(todo)
  PROVE  ~Making(x)
<1>1. Program(todo) /\ 1 \in 1 .. Len(todo) /\ 1 \in 1 .. Len(todo[1])
  BY NextStep
<1>2. Links(todo[1])
  BY <1>1 DEF Links
<1>3. PICK a \in 1 .. Len(todo) : \E k \in 1 .. Len(todo[a]) : todo[a][k] = x
  BY DEF Pending
<1>4. ASSUME Making(x) PROVE FALSE
  <2>1. Makes(todo[a])
    BY <1>3, <1>4 DEF Makes
  <2>2. a < 1
    BY <1>1, <1>2, <2>1 DEF Program
  <2> QED
    BY <2>2, SMT
<1> QED
  BY <1>4

LEMMA StillTouched ==
  ASSUME Remaining, NEW names, NEW i, NEW j
  PROVE  /\ Touched(todo', names, i, j) => Touched(todo, names, i, j)
         /\ Touched(todo, names, i, j) /\ ~(todo[1][1].op \in names /\ Touches(todo[1][1], i, j)) =>
              Touched(todo', names, i, j)
  BY DEF Remaining, Touched

LEMMA StillComing ==
  ASSUME Remaining, NEW i
  PROVE  /\ Coming(todo', i) => Coming(todo, i) /\ ~(Making(todo[1][1]) /\ todo[1][1].i = i)
         /\ Coming(todo, i) /\ ~(Making(todo[1][1]) /\ todo[1][1].i = i) => Coming(todo', i)
  BY DEF Remaining, Coming

\* connect and disconnect touch every end of the server.
LEMMA AllTouched ==
  ASSUME TodoInv, Advance, Remaining, NEW x \in Peers
  PROVE  /\ todo[1][1].op = "attach" =>
              Touched(todo', OnNames, todo[1][1].i, x) /\ Touched(todo', OnNames, x, todo[1][1].i)
         /\ todo[1][1].op = "detach" =>
              Touched(todo', OffNames, todo[1][1].i, x) /\ Touched(todo', OffNames, x, todo[1][1].i)
<1> DEFINE o == todo[1][1]
<1>1. Program(todo) /\ 1 \in 1 .. Len(todo) /\ Script(todo[1])
  BY NextStep DEF Advance
<1>2. Full(todo[1]) /\ todo \in Seq(Seq(Steps))
  BY <1>1 DEF Program
<1>3. ASSUME NEW name, Has(todo[1], name, x), name # o.op
      PROVE  \E y \in Pending(todo') : y.op = name /\ y.i = o.i /\ y.j = x
  <2>1. PICK k \in 1 .. Len(todo[1]) : todo[1][k].op = name /\ todo[1][k].j = x
    BY <1>3 DEF Has
  <2>2. todo[1][k].i = o.i /\ todo[1][k] \in Steps
    BY <1>1, <1>2, StepAt DEF Script
  <2>3. todo[1][k] \in Pending(todo) /\ todo[1][k] # o
    BY <1>1, <1>3, <2>1, <2>2 DEF Pending
  <2>4. todo[1][k] \in Pending(todo')
    BY <2>3 DEF Remaining
  <2> QED
    BY <2>1, <2>2, <2>4
<1>4. ASSUME o.op = "attach"
      PROVE  Touched(todo', OnNames, o.i, x) /\ Touched(todo', OnNames, x, o.i)
  <2>1. Has(todo[1], "enable out", x) /\ Has(todo[1], "enable in", x)
    BY <1>2, <1>4 DEF Full, Thorough
  <2>2. \E y \in Pending(todo') : y.op = "enable out" /\ y.i = o.i /\ y.j = x
    BY <1>3, <1>4, <2>1
  <2>3. \E y \in Pending(todo') : y.op = "enable in" /\ y.i = o.i /\ y.j = x
    BY <1>3, <1>4, <2>1
  <2>4. "enable out" \in OnNames /\ "enable in" \in OnNames /\ "enable out" \in OutNames /\ "enable in" \in InNames
    BY DEF OnNames, EnableNames, OutNames, InNames
  <2> HIDE DEF o
  <2> QED
    BY <2>2, <2>3, <2>4 DEF Touched, Touches
<1>5. ASSUME o.op = "detach"
      PROVE  Touched(todo', OffNames, o.i, x) /\ Touched(todo', OffNames, x, o.i)
  <2>1. Has(todo[1], "disable out", x) /\ Has(todo[1], "disable in", x)
    BY <1>2, <1>5 DEF Full, Thorough
  <2>2. \E y \in Pending(todo') : y.op = "disable out" /\ y.i = o.i /\ y.j = x
    BY <1>3, <1>5, <2>1
  <2>3. \E y \in Pending(todo') : y.op = "disable in" /\ y.i = o.i /\ y.j = x
    BY <1>3, <1>5, <2>1
  <2>4. "disable out" \in OffNames /\ "disable in" \in OffNames /\ "disable out" \in OutNames /\ "disable in" \in InNames
    BY DEF OffNames, DisableNames, OutNames, InNames
  <2> HIDE DEF o
  <2> QED
    BY <2>2, <2>3, <2>4 DEF Touched, Touches
<1> QED
  BY <1>4, <1>5

----------------------------------------------------------------------------
(***************************************************************************)
(* The links: what the steps of the tester do to the ends.                  *)
(***************************************************************************)
LEMMA EndNamed ==
  ASSUME Types, NEW i \in Peers, NEW j \in Peers, gen[i] > 0
  PROVE  endname(i, j) \in EndNames
<1> DEFINE g == gen[i]
<1>1. g \in 0 .. MaxStarts /\ g > 0
  BY DEF Types
<1> HIDE DEF g
<1>2. g \in 1 .. MaxStarts
  BY <1>1, RaftConfigAssumption, SMT
<1>3. <<i, g, "raft", j>> \in EndNames
  BY <1>2 DEF EndNames
<1> QED
  BY <1>3 DEF endname, g

LEMMA OtherEnd ==
  ASSUME NEW i, NEW j, NEW x, NEW y, ~(i = x /\ j = y)
  PROVE  endname(i, j) # endname(x, y)
  BY SMT DEF endname

\* Enable for one end.
LEMMA SwitchEffect ==
  ASSUME Types, NEW x, NEW y, NEW present, NEW yes, SetEnabled(present, endname(x, y), yes)
  PROVE  /\ gen' = gen /\ connected' = connected /\ ends' = ends
         /\ \A i, j \in Peers : gen[i] > 0 /\ ~(i = x /\ j = y) => Open(i, j)' = Open(i, j)
         /\ \A i, j \in Peers : gen[i] > 0 /\ i = x /\ j = y /\ present => Open(i, j)' = yes
         /\ ~present => \A i, j \in Peers : Open(i, j)' = Open(i, j)
<1> DEFINE e == endname(x, y)
<1>1. /\ gen' = gen /\ connected' = connected /\ ends' = ends
      /\ present => enabled' = [enabled EXCEPT ![e] = yes]
      /\ ~present => enabled' = enabled
  BY DEF SetEnabled, Network, net!Enable, netVars
<1>2. \A i, j : endname(i, j)' = endname(i, j)
  BY <1>1 DEF endname
<1>3. \A i, j : Open(i, j)' = enabled'[endname(i, j)]
  BY <1>2 DEF Open
<1>4. IsFun(enabled, EndNames)
  BY DEF Types
<1>5. ASSUME NEW i \in Peers, NEW j \in Peers, gen[i] > 0, ~(i = x /\ j = y) PROVE Open(i, j)' = Open(i, j)
  <2>1. endname(i, j) \in EndNames /\ endname(i, j) # e
    BY <1>5, EndNamed, OtherEnd
  <2>2. CASE present
    <3>1. Updated(enabled, enabled', EndNames, e, yes)
      BY <1>1, <1>4, <2>2, Excepted
    <3> QED
      BY <1>3, <2>1, <3>1 DEF Updated, Open
  <2> QED
    BY <1>1, <1>3, <2>2 DEF Open
<1>6. ASSUME NEW i \in Peers, NEW j \in Peers, gen[i] > 0, i = x, j = y, present PROVE Open(i, j)' = yes
  <2>1. e \in EndNames
    BY <1>6, EndNamed
  <2>2. Updated(enabled, enabled', EndNames, e, yes)
    BY <1>1, <1>4, <1>6, Excepted
  <2>3. enabled'[e] = yes
    BY <2>1, <2>2 DEF Updated
  <2> QED
    BY <1>3, <1>6, <2>3
<1>7. ~present => \A i, j \in Peers : Open(i, j)' = Open(i, j)
  BY <1>1, <1>3 DEF Open
<1> QED
  BY <1>1, <1>5, <1>6, <1>7

\* Every step that enables or disables an end.
LEMMA ToggleEffect ==
  ASSUME StateInv, NEW o, Apt(o), Does(o), o.op \in Toggles
  PROVE  Switches(o)
<1>1. ASSUME NEW x \in Peers, NEW y \in Peers, NEW present, NEW yes, SetEnabled(present, endname(x, y), yes),
             \A i, j : Touches(o, i, j) <=> i = x /\ j = y,
             o.op \in LinkNames => present /\ yes = TRUE,
             o.op \in OffNames => (gen[x] > 0 => present) /\ yes = FALSE,
             o.op \in EnableNames => (present <=> Linked(x, y)) /\ yes = TRUE,
             o.op \in DisableNames => ~Linked(x, y)
      PROVE  Switches(o)
  <2>1. Types
    BY DEF StateInv
  <2>2. /\ gen' = gen /\ connected' = connected /\ ends' = ends
        /\ \A i, j \in Peers : gen[i] > 0 /\ ~(i = x /\ j = y) => Open(i, j)' = Open(i, j)
        /\ \A i, j \in Peers : gen[i] > 0 /\ i = x /\ j = y /\ present => Open(i, j)' = yes
        /\ ~present => \A i, j \in Peers : Open(i, j)' = Open(i, j)
    <3>1. SetEnabled(present, endname(x, y), yes)
      BY <1>1
    <3> QED
      BY <2>1, <3>1, SwitchEffect, SMT
  <2>3. /\ gen[x] > 0 /\ present => Open(x, y)' = yes
        /\ ~present => Open(x, y)' = Open(x, y)
    BY <2>2
  <2>4. ASSUME gen[x] > 0
        PROVE  /\ o.op \in LinkNames => Open(x, y)'
               /\ o.op \in OffNames => ~Open(x, y)'
               /\ o.op \in EnableNames => (Linked(x, y) => Open(x, y)') /\ (Open(x, y)' => Open(x, y) \/ Linked(x, y))
               /\ o.op \in DisableNames => ~Linked(x, y)
    BY <1>1, <2>3, <2>4
  <2>5. ASSUME NEW i \in Peers, NEW j \in Peers, gen[i] > 0, Touches(o, i, j)
        PROVE  /\ o.op \in LinkNames => Open(i, j)'
               /\ o.op \in OffNames => ~Open(i, j)'
               /\ o.op \in EnableNames => (Linked(i, j) => Open(i, j)') /\ (Open(i, j)' => Open(i, j) \/ Linked(i, j))
               /\ o.op \in DisableNames => ~Linked(i, j)
    <3>1. i = x /\ j = y
      BY <1>1, <2>5
    <3> QED
      BY <2>4, <2>5, <3>1
  <2>6. ASSUME NEW i \in Peers, NEW j \in Peers, gen[i] > 0, ~Touches(o, i, j)
        PROVE  Open(i, j)' = Open(i, j)
    BY <1>1, <2>2, <2>6
  <2> QED
    BY <2>2, <2>5, <2>6 DEF Switches
<1>2. o.i \in Peers /\ o.j \in Peers /\ Ready(o)
  BY DEF Apt
<1>3. CASE o.op = "enable out"
  <2>1. SetEnabled(connected[o.j], endname(o.i, o.j), TRUE) /\ connected[o.i]
    BY <1>2, <1>3 DEF Does, Ready, ReadyWhen
  <2>2. \A i, j : Touches(o, i, j) <=> i = o.i /\ j = o.j
    BY <1>3 DEF Touches, OutNames, InNames
  <2>3. o.op \notin LinkNames /\ o.op \notin OffNames /\ o.op \notin DisableNames
    BY <1>3 DEF LinkNames, OffNames, DisableNames, UnlinkNames
  <2>4. connected[o.j] <=> Linked(o.i, o.j)
    BY <2>1 DEF Linked
  <2> QED
    BY <1>1, <1>2, <2>1, <2>2, <2>3, <2>4
<1>4. CASE o.op = "enable in"
  <2>1. SetEnabled(connected[o.j], endname(o.j, o.i), TRUE) /\ connected[o.i]
    BY <1>2, <1>4 DEF Does, Ready, ReadyWhen
  <2>2. \A i, j : Touches(o, i, j) <=> i = o.j /\ j = o.i
    BY <1>4 DEF Touches, OutNames, InNames
  <2>3. o.op \notin LinkNames /\ o.op \notin OffNames /\ o.op \notin DisableNames
    BY <1>4 DEF LinkNames, OffNames, DisableNames, UnlinkNames
  <2>4. connected[o.j] <=> Linked(o.j, o.i)
    BY <2>1 DEF Linked
  <2> QED
    BY <1>1, <1>2, <2>1, <2>2, <2>3, <2>4
<1>5. CASE o.op = "disable out"
  <2>1. SetEnabled(gen[o.i] > 0, endname(o.i, o.j), FALSE) /\ ~connected[o.i]
    BY <1>2, <1>5 DEF Does, Ready, ReadyWhen
  <2>2. \A i, j : Touches(o, i, j) <=> i = o.i /\ j = o.j
    BY <1>5 DEF Touches, OutNames, InNames
  <2>3. o.op \notin LinkNames /\ o.op \notin EnableNames
    BY <1>5 DEF LinkNames, EnableNames
  <2>4. ~Linked(o.i, o.j)
    BY <2>1 DEF Linked
  <2> QED
    BY <1>1, <1>2, <2>1, <2>2, <2>3, <2>4
<1>6. CASE o.op = "disable in"
  <2>1. SetEnabled(gen[o.j] > 0, endname(o.j, o.i), FALSE) /\ ~connected[o.i]
    BY <1>2, <1>6 DEF Does, Ready, ReadyWhen
  <2>2. \A i, j : Touches(o, i, j) <=> i = o.j /\ j = o.i
    BY <1>6 DEF Touches, OutNames, InNames
  <2>3. o.op \notin LinkNames /\ o.op \notin EnableNames
    BY <1>6 DEF LinkNames, EnableNames
  <2>4. ~Linked(o.j, o.i)
    BY <2>1 DEF Linked
  <2> QED
    BY <1>1, <1>2, <2>1, <2>2, <2>3, <2>4
<1>7. CASE o.op \in LinkNames
  <2>1. o.op \notin OffNames /\ o.op \notin EnableNames /\ o.op \notin DisableNames
    BY <1>7 DEF LinkNames, OffNames, EnableNames, DisableNames, UnlinkNames
  <2>2. CASE o.op = "link out"
    <3>1. SetEnabled(TRUE, endname(o.i, o.j), TRUE)
      BY <2>2 DEF Does
    <3>2. \A i, j : Touches(o, i, j) <=> i = o.i /\ j = o.j
      BY <2>2 DEF Touches, OutNames, InNames
    <3> QED
      BY <1>1, <1>2, <2>1, <3>1, <3>2
  <2>3. CASE o.op = "link in"
    <3>1. SetEnabled(TRUE, endname(o.j, o.i), TRUE)
      BY <2>3 DEF Does
    <3>2. \A i, j : Touches(o, i, j) <=> i = o.j /\ j = o.i
      BY <2>3 DEF Touches, OutNames, InNames
    <3> QED
      BY <1>1, <1>2, <2>1, <3>1, <3>2
  <2> QED
    BY <1>7, <2>2, <2>3 DEF LinkNames
<1>8. CASE o.op \in UnlinkNames
  <2>1. o.op \notin LinkNames /\ o.op \notin EnableNames /\ o.op \notin DisableNames
    BY <1>8 DEF LinkNames, EnableNames, DisableNames, UnlinkNames
  <2>2. CASE o.op = "unlink out"
    <3>1. SetEnabled(TRUE, endname(o.i, o.j), FALSE)
      BY <2>2 DEF Does
    <3>2. \A i, j : Touches(o, i, j) <=> i = o.i /\ j = o.j
      BY <2>2 DEF Touches, OutNames, InNames
    <3> QED
      BY <1>1, <1>2, <2>1, <3>1, <3>2
  <2>3. CASE o.op = "unlink in"
    <3>1. SetEnabled(TRUE, endname(o.j, o.i), FALSE)
      BY <2>3 DEF Does
    <3>2. \A i, j : Touches(o, i, j) <=> i = o.j /\ j = o.i
      BY <2>3 DEF Touches, OutNames, InNames
    <3> QED
      BY <1>1, <1>2, <2>1, <3>1, <3>2
  <2> QED
    BY <1>8, <2>2, <2>3 DEF UnlinkNames
<1> QED
  BY <1>3, <1>4, <1>5, <1>6, <1>7, <1>8 DEF Toggles, LinkNames, UnlinkNames

\* A server is made, with fresh ends.
LEMMA FreshEnds ==
  ASSUME StateInv, NEW m \in Peers, gen[m] < MaxStarts, NEW yes \in BOOLEAN, Made(m, yes)
  PROVE  Renewed(m, yes)
<1> DEFINE g == gen[m] + 1
<1>1. Types /\ gen[m] \in Nat
  BY GenNat DEF StateInv
<1>2. g \in 1 .. MaxStarts /\ g > 0
  BY <1>1, RaftConfigAssumption, SMT
<1>3. Updated(gen, gen', Peers, m, g)
  BY <1>1, Excepted DEF Types, Made
<1>4. gen'[m] = g /\ \A i \in Peers : i # m => gen'[i] = gen[i]
  BY <1>3 DEF Updated
<1>5. /\ connected' = connected /\ ends' = ends \cup NamedEnds(m, g)
      /\ enabled' = [e \in EndNames |-> IF e \in NamedEnds(m, g) THEN yes ELSE enabled[e]]
  BY DEF Made, NewEnds
<1> HIDE DEF g
<1>6. ASSUME NEW j \in Peers PROVE endname(m, j)' \in ends' /\ Open(m, j)' = yes
  <2>1. endname(m, j)' = <<m, g, "raft", j>>
    BY <1>4 DEF endname
  <2>2. <<m, g, "raft", j>> \in EndNames /\ <<m, g, "raft", j>> \in NamedEnds(m, g)
    BY <1>2 DEF EndNames, NamedEnds
  <2> QED
    BY <1>5, <2>1, <2>2 DEF Open
<1>7. ASSUME NEW i \in Peers, NEW j \in Peers, i # m, gen[i] > 0
      PROVE  endname(i, j)' = endname(i, j) /\ Open(i, j)' = Open(i, j)
  <2>1. endname(i, j)' = endname(i, j)
    BY <1>4, <1>7 DEF endname
  <2>2. endname(i, j) \notin NamedEnds(m, g)
    BY <1>7, SMT DEF endname, NamedEnds
  <2>3. endname(i, j) \in EndNames
    BY <1>1, <1>7, EndNamed
  <2> QED
    BY <1>5, <2>1, <2>2, <2>3 DEF Open
<1> QED
  BY <1>2, <1>4, <1>5, <1>6, <1>7 DEF Renewed

LEMMA MakeEffects ==
  ASSUME StateInv, NEW o, Apt(o), Does(o), Making(o)
  PROVE  Renewed(o.i, o.op = "make enabled")
<1>1. o.i \in Peers /\ gen[o.i] < MaxStarts /\ Types
  BY DEF Apt, StateInv
<1>2. CASE o.op = "make"
  <2>1. Make(o.i)
    BY <1>2 DEF Does
  <2>2. Made(o.i, FALSE)
    BY <2>1, SavedIsKept DEF Make, callVars, Made, NewEnds, NamedEnds, CallsSame
  <2>3. Renewed(o.i, FALSE)
    BY <1>1, <2>2, FreshEnds
  <2>4. (o.op = "make enabled") = FALSE
    BY <1>2
  <2> QED
    BY <2>3, <2>4
<1>3. CASE o.op = "make enabled"
  <2>1. MakeEnabled(o.i)
    BY <1>3 DEF Does
  <2>2. \A e \in EndNames : (e \in NewEnds(o.i) \/ enabled[e]) = (IF e \in NewEnds(o.i) THEN TRUE ELSE enabled[e])
    BY <1>1 DEF Types
  <2>3. Made(o.i, TRUE)
    BY <2>1, <2>2, SavedIsKept DEF MakeEnabled, callVars, Made, NewEnds, NamedEnds, CallsSame
  <2>4. Renewed(o.i, TRUE)
    BY <1>1, <2>3, FreshEnds
  <2>5. (o.op = "make enabled") = TRUE
    BY <1>3
  <2> QED
    BY <2>4, <2>5
<1> QED
  BY <1>2, <1>3 DEF Making

\* No other step of the tester changes an end.
LEMMA PlainEffects ==
  ASSUME NEW o, Does(o), o.op \in {"attach", "detach", "delete", "copy", "kill", "serve"}
  PROVE  /\ gen' = gen /\ ends' = ends /\ enabled' = enabled
         /\ o.op \in {"attach", "detach"} => connected' = [connected EXCEPT ![o.i] = (o.op = "attach")]
         /\ o.op \notin {"attach", "detach"} => connected' = connected
<1>1. CASE o.op = "attach"
  <2>1. SetConnected(o.i, TRUE) /\ (o.op = "attach") = TRUE
    BY <1>1 DEF Does
  <2> QED
    BY <1>1, <2>1 DEF SetConnected, netVars
<1>2. CASE o.op = "detach"
  <2>1. SetConnected(o.i, FALSE) /\ (o.op = "attach") = FALSE
    BY <1>2 DEF Does
  <2> QED
    BY <1>2, <2>1 DEF SetConnected, netVars
<1>3. CASE o.op = "delete"
  <2>1. Delete(o.i)
    BY <1>3 DEF Does
  <2> QED
    BY <1>3, <2>1 DEF Delete, Network, net!DeleteServer
<1>4. CASE o.op = "copy"
  <2>1. CopyPersister(o.i)
    BY <1>4 DEF Does
  <2> QED
    BY <1>4, <2>1 DEF CopyPersister, netVars
<1>5. CASE o.op = "kill"
  <2>1. Kill(o.i)
    BY <1>5 DEF Does
  <2> QED
    BY <1>5, <2>1 DEF Kill, netVars
<1>6. CASE o.op = "serve"
  <2>1. Serve(o.i)
    BY <1>6 DEF Does
  <2> QED
    BY <1>6, <2>1 DEF Serve, Network, net!AddServer
<1> QED
  BY <1>1, <1>2, <1>3, <1>4, <1>5, <1>6

----------------------------------------------------------------------------
(***************************************************************************)
(* The links: every step of the tester preserves the invariant.             *)
(***************************************************************************)
LEMMA SameTouched ==
  ASSUME SamePending, NEW i, NEW j
  PROVE  /\ Touched(todo', OnNames, i, j) <=> Touched(todo, OnNames, i, j)
         /\ Touched(todo', OffNames, i, j) <=> Touched(todo, OffNames, i, j)
         /\ Touched(todo', Toggles, i, j) <=> Touched(todo, Toggles, i, j)
         /\ Coming(todo', i) <=> Coming(todo, i)
<1>1. \A o : o.op \in OnNames \/ o.op \in OffNames => o.op \in Toggles
  BY DEF OnNames, OffNames, EnableNames, DisableNames, LinkNames, UnlinkNames, Toggles
<1> QED
  BY <1>1 DEF SamePending, Touched, Coming

\* A step that changes no end that is in use.
LEMMA LinksFrame ==
  ASSUME LinksInv, SamePending, gen' = gen, connected' = connected, kind' = kind, group' = group,
         ends \subseteq ends', \A i, j \in Peers : gen[i] > 0 => Open(i, j)' = Open(i, j)
  PROVE  LinksInv'
<1>1. \A i \in Peers : gen'[i] > 0 \/ Coming(todo', i)
  BY SameTouched DEF LinksInv
<1>2. \A i, j \in Peers : gen'[i] > 0 => endname(i, j)' \in ends'
  BY DEF LinksInv, endname
<1>3. ASSUME kind = "raft", NEW i \in Peers, NEW j \in Peers PROVE RaftPair(i, j)'
  <2>1. RaftPair(i, j)
    BY <1>3 DEF LinksInv
  <2>2. Linked(i, j)' <=> Linked(i, j)
    BY DEF Linked
  <2> QED
    BY <2>1, <2>2, SameTouched DEF RaftPair
<1>4. ASSUME kind # "raft", NEW i \in Peers, NEW j \in Peers PROVE ServicePair(i, j)'
  <2>1. ServicePair(i, j) /\ (gen[i] > 0 \/ Coming(todo, i))
    BY <1>4 DEF LinksInv
  <2>2. /\ Touched(todo', OnNames, i, j) => j \in group'[i]
        /\ Touched(todo', OffNames, i, j) => j \notin group'[i]
        /\ Coming(todo', i) \/ Touched(todo', Toggles, i, j) \/ (Open(i, j)' <=> j \in group'[i])
    BY <2>1, SameTouched DEF ServicePair
  <2>3. /\ \A o \in Pending(todo') : o.op = "make enabled" /\ o.i = i => j \in group'[i]
        /\ \A o \in Pending(todo') :
             o.op = "make" /\ o.i = i => j \notin group'[i] \/ Touched(todo', Toggles, i, j)
    <3>1. \A o \in Pending(todo') : o.op \in {"make", "make enabled"} => o \in Pending(todo)
      BY DEF SamePending, Making
    <3> QED
      BY <2>1, <3>1, SameTouched DEF ServicePair
  <2> QED
    BY <2>2, <2>3 DEF ServicePair
<1> QED
  BY <1>1, <1>2, <1>3, <1>4 DEF LinksInv

LEMMA ToggleLinks ==
  ASSUME NEW o, Stepping(o), o.op \in Toggles
  PROVE  LinksInv'
<1>1. Switches(o) /\ Remaining /\ LinksInv /\ kind' = kind /\ group' = group /\ o = todo[1][1]
  BY ToggleEffect DEF Stepping
<1>2. ~Making(o)
  BY DEF Toggles, Making
<1>3. gen' = gen /\ connected' = connected /\ ends' = ends
  BY <1>1 DEF Switches
<1>4. \A i \in Peers : gen'[i] > 0 \/ Coming(todo', i)
  BY <1>1, <1>2, <1>3, StillComing DEF LinksInv
<1>5. \A i, j \in Peers : gen'[i] > 0 => endname(i, j)' \in ends'
  BY <1>1, <1>3 DEF LinksInv, endname
<1>6. ASSUME NEW i, NEW j, NEW names
      PROVE  /\ Touched(todo', names, i, j) => Touched(todo, names, i, j)
             /\ Touched(todo, names, i, j) /\ ~(o.op \in names /\ Touches(o, i, j)) => Touched(todo', names, i, j)
  BY <1>1, StillTouched
<1>7. ASSUME kind = "raft", NEW i \in Peers, NEW j \in Peers, gen[i] > 0
      PROVE  /\ Open(i, j)' => Linked(i, j) \/ Touched(todo', OffNames, i, j)
             /\ Linked(i, j) => Open(i, j)' \/ Touched(todo', OnNames, i, j)
  <2>1. /\ Open(i, j) => Linked(i, j) \/ Touched(todo, OffNames, i, j)
        /\ Linked(i, j) => Open(i, j) \/ Touched(todo, OnNames, i, j)
    BY <1>1, <1>7 DEF LinksInv, RaftPair
  <2>2. CASE ~Touches(o, i, j)
    <3>1. Open(i, j)' = Open(i, j)
      BY <1>1, <1>7, <2>2 DEF Switches
    <3> QED
      BY <1>6, <2>1, <2>2, <3>1
  <2>3. CASE Touches(o, i, j) /\ o.op \in EnableNames
    <3>1. o.op \notin OffNames
      BY <2>3 DEF EnableNames, OffNames, DisableNames, UnlinkNames
    <3>2. (Linked(i, j) => Open(i, j)') /\ (Open(i, j)' => Open(i, j) \/ Linked(i, j))
      BY <1>1, <1>7, <2>3 DEF Switches
    <3> QED
      BY <1>6, <2>1, <3>1, <3>2
  <2>4. CASE Touches(o, i, j) /\ o.op \in DisableNames
    <3>1. ~Open(i, j)' /\ ~Linked(i, j)
      BY <1>1, <1>7, <2>4 DEF Switches, OffNames
    <3> QED
      BY <3>1
  <2>5. o.op \in EnableNames \/ o.op \in DisableNames
    BY <1>7 DEF Stepping, Apt, StepsOf, Toggles, EnableNames, DisableNames
  <2> QED
    BY <2>2, <2>3, <2>4, <2>5
<1>8. ASSUME kind = "raft", NEW i \in Peers, NEW j \in Peers PROVE RaftPair(i, j)'
  <2>1. Linked(i, j)' <=> Linked(i, j)
    BY <1>3 DEF Linked
  <2> QED
    BY <1>3, <1>7, <1>8, <2>1 DEF RaftPair
<1>9. ASSUME kind # "raft", NEW i \in Peers, NEW j \in Peers PROVE ServicePair(i, j)'
  <2>1. ServicePair(i, j) /\ (gen[i] > 0 \/ Coming(todo, i))
    BY <1>1, <1>9 DEF LinksInv
  <2>2. o.op \in LinkNames \/ o.op \in UnlinkNames
    BY <1>9 DEF Stepping, Apt, StepsOf, Toggles, LinkNames, UnlinkNames
  <2>3. /\ Touched(todo', OnNames, i, j) => j \in group[i]
        /\ Touched(todo', OffNames, i, j) => j \notin group[i]
    BY <1>6, <2>1 DEF ServicePair
  <2>4. Touches(o, i, j) => (o.op \in LinkNames => j \in group[i]) /\ (o.op \in UnlinkNames => j \notin group[i])
    <3>1. o \in Pending(todo)
      BY DEF Stepping
    <3>2. Touches(o, i, j) => (o.op \in LinkNames => Touched(todo, OnNames, i, j))
                              /\ (o.op \in UnlinkNames => Touched(todo, OffNames, i, j))
      BY <3>1 DEF Touched, OnNames, OffNames
    <3> QED
      BY <2>1, <3>2 DEF ServicePair
  <2>5. Coming(todo', i) \/ Touched(todo', Toggles, i, j) \/ (Open(i, j)' <=> j \in group[i])
    <3>1. CASE Coming(todo, i)
      BY <1>1, <1>2, <3>1, StillComing
    <3>2. CASE ~Coming(todo, i) /\ Touches(o, i, j)
      <4>1. (o.op \in LinkNames => Open(i, j)') /\ (o.op \in UnlinkNames => ~Open(i, j)')
        BY <1>1, <2>1, <3>2 DEF Switches, OffNames
      <4> QED
        BY <2>2, <2>4, <3>2, <4>1
    <3>3. CASE ~Coming(todo, i) /\ ~Touches(o, i, j)
      <4>1. Open(i, j)' = Open(i, j)
        BY <1>1, <2>1, <3>3 DEF Switches
      <4>2. Touched(todo, Toggles, i, j) \/ (Open(i, j) <=> j \in group[i])
        BY <2>1, <3>3 DEF ServicePair
      <4> QED
        BY <1>6, <3>3, <4>1, <4>2
    <3> QED
      BY <3>1, <3>2, <3>3
  <2>6. ASSUME NEW x \in Pending(todo'), x.i = i PROVE x.op = "make enabled" => j \in group[i]
    BY <1>1, <2>1, <2>6 DEF Remaining, ServicePair
  <2>7. ASSUME NEW x \in Pending(todo'), x.op = "make", x.i = i
        PROVE  j \notin group[i] \/ Touched(todo', Toggles, i, j)
    <3>1. x \in Pending(todo) /\ Making(x)
      BY <1>1, <2>7 DEF Remaining, Making
    <3>2. j \notin group[i] \/ Touched(todo, Toggles, i, j)
      BY <2>1, <2>7, <3>1 DEF ServicePair
    <3>3. o.op \notin LinkNames
      <4>1. o.op \in LinkNames => Linking(o)
        BY DEF LinkNames, Linking
      <4>2. TodoInv /\ todo # <<>>
        BY DEF Stepping, Advance
      <4> QED
        BY <1>1, <3>1, <4>1, <4>2, LinksLast
    <3> QED
      BY <1>6, <2>2, <2>4, <3>2, <3>3
  <2> QED
    BY <1>1, <2>3, <2>5, <2>6, <2>7 DEF ServicePair
<1> QED
  BY <1>1, <1>4, <1>5, <1>8, <1>9 DEF LinksInv

LEMMA AttachLinks ==
  ASSUME NEW o, Stepping(o), o.op \in {"attach", "detach"}
  PROVE  LinksInv'
<1>1. /\ Remaining /\ LinksInv /\ kind' = kind /\ o = todo[1][1] /\ Types /\ o.i \in Peers
      /\ TodoInv /\ Advance /\ kind = "raft"
  BY DEF Stepping, StateInv, Apt, StepsOf
<1>2. ~Making(o) /\ o.op \notin OnNames /\ o.op \notin OffNames
  BY DEF Making, OnNames, OffNames, EnableNames, DisableNames, LinkNames, UnlinkNames
<1>3. /\ gen' = gen /\ ends' = ends /\ enabled' = enabled
      /\ connected' = [connected EXCEPT ![o.i] = (o.op = "attach")]
  BY PlainEffects DEF Stepping
<1>4. Updated(connected, connected', Peers, o.i, o.op = "attach")
  BY <1>1, <1>3, Excepted DEF Types
<1>5. \A i \in Peers : gen'[i] > 0 \/ Coming(todo', i)
  BY <1>1, <1>2, <1>3, StillComing DEF LinksInv
<1>6. \A i, j \in Peers : gen'[i] > 0 => endname(i, j)' \in ends'
  BY <1>1, <1>3 DEF LinksInv, endname
<1>7. ASSUME NEW i \in Peers, NEW j \in Peers PROVE RaftPair(i, j)'
  <2>1. Open(i, j)' = Open(i, j)
    BY <1>3 DEF Open, endname
  <2>2. /\ Touched(todo, OffNames, i, j) => Touched(todo', OffNames, i, j)
        /\ Touched(todo, OnNames, i, j) => Touched(todo', OnNames, i, j)
    BY <1>1, <1>2, StillTouched
  <2>3. CASE i # o.i /\ j # o.i
    <3>1. Linked(i, j)' <=> Linked(i, j)
      BY <1>4, <2>3 DEF Updated, Linked
    <3>2. RaftPair(i, j)
      BY <1>1 DEF LinksInv
    <3> QED
      BY <1>3, <2>1, <2>2, <3>1, <3>2 DEF RaftPair
  <2>4. CASE (i = o.i \/ j = o.i) /\ o.op = "attach"
    <3>1. Touched(todo', OnNames, i, j)
      BY <1>1, <2>4, AllTouched
    <3>2. Linked(i, j) => Linked(i, j)'
      BY <1>1, <1>4, <2>4 DEF Updated, Linked
    <3>3. RaftPair(i, j)
      BY <1>1 DEF LinksInv
    <3> QED
      BY <1>3, <2>1, <2>2, <3>1, <3>2, <3>3 DEF RaftPair
  <2>5. CASE (i = o.i \/ j = o.i) /\ o.op = "detach"
    <3>1. Touched(todo', OffNames, i, j)
      BY <1>1, <2>5, AllTouched
    <3>2. ~Linked(i, j)'
      <4>1. connected'[o.i] = (o.op = "attach")
        BY <1>1, <1>4 DEF Updated
      <4>2. ~connected'[o.i]
        BY <2>5, <4>1
      <4> QED
        BY <2>5, <4>2 DEF Linked
    <3> QED
      BY <3>1, <3>2 DEF RaftPair
  <2> QED
    BY <2>3, <2>4, <2>5
<1> QED
  BY <1>1, <1>5, <1>6, <1>7 DEF LinksInv

LEMMA MakeLinks ==
  ASSUME NEW o, Stepping(o), Making(o)
  PROVE  LinksInv'
<1> DEFINE m == o.i
           yes == (o.op = "make enabled")
<1>1. /\ Remaining /\ LinksInv /\ kind' = kind /\ group' = group /\ o = todo[1][1] /\ m \in Peers
      /\ o \in Pending(todo) /\ Renewed(m, yes)
  BY MakeEffects DEF Stepping, Apt
<1>2. o.op \notin OnNames /\ o.op \notin OffNames /\ o.op \notin Toggles
  BY DEF Making, OnNames, OffNames, EnableNames, DisableNames, LinkNames, UnlinkNames, Toggles
<1>3. ASSUME NEW i, NEW j
      PROVE  /\ Touched(todo', OnNames, i, j) <=> Touched(todo, OnNames, i, j)
             /\ Touched(todo', OffNames, i, j) <=> Touched(todo, OffNames, i, j)
             /\ Touched(todo', Toggles, i, j) <=> Touched(todo, Toggles, i, j)
  BY <1>1, <1>2, StillTouched
<1>4. /\ ~Coming(todo', m)
      /\ \A i : i # m => (Coming(todo', i) <=> Coming(todo, i))
  BY <1>1, StillComing
<1>5. /\ connected' = connected /\ ends \subseteq ends'
      /\ gen'[m] > 0 /\ \A i \in Peers : i # m => gen'[i] = gen[i]
      /\ \A j \in Peers : endname(m, j)' \in ends' /\ Open(m, j)' = yes
      /\ \A i, j \in Peers : i # m /\ gen[i] > 0 => endname(i, j)' = endname(i, j) /\ Open(i, j)' = Open(i, j)
  BY <1>1 DEF Renewed
<1>6. kind = "raft" => ~connected[m] /\ ~yes
  <2>1. ~running[m] /\ (kind = "raft" => o.op # "make enabled")
    BY DEF Stepping, Apt, StepsOf, Ready, ReadyWhen
  <2>2. ServerInv(m)
    BY <1>1 DEF Stepping, StateInv
  <2> QED
    BY <2>1, <2>2 DEF ServerInv
<1>7. yes \/ o.op = "make"
  BY DEF Making
<1> HIDE DEF m, yes
<1>8. \A i \in Peers : gen'[i] > 0 \/ Coming(todo', i)
  BY <1>1, <1>4, <1>5 DEF LinksInv
<1>9. ASSUME NEW i \in Peers, NEW j \in Peers, gen'[i] > 0 PROVE endname(i, j)' \in ends'
  <2>1. CASE i = m
    BY <1>5, <2>1
  <2>2. CASE i # m
    <3>1. gen[i] > 0 /\ endname(i, j)' = endname(i, j)
      BY <1>5, <1>9, <2>2
    <3> QED
      BY <1>1, <1>5, <3>1 DEF LinksInv
  <2> QED
    BY <2>1, <2>2
<1>10. ASSUME kind = "raft", NEW i \in Peers, NEW j \in Peers PROVE RaftPair(i, j)'
  <2>1. Linked(i, j)' <=> Linked(i, j)
    BY <1>5 DEF Linked
  <2>2. CASE i = m
    <3>1. ~Open(i, j)' /\ ~Linked(i, j)
      BY <1>5, <1>6, <1>10, <2>2 DEF Linked
    <3> QED
      BY <2>1, <3>1 DEF RaftPair
  <2>3. CASE i # m
    <3>1. RaftPair(i, j)
      BY <1>1, <1>10 DEF LinksInv
    <3> QED
      BY <1>3, <1>5, <2>1, <2>3, <3>1 DEF RaftPair
  <2> QED
    BY <2>2, <2>3
<1>11. ASSUME kind # "raft", NEW i \in Peers, NEW j \in Peers PROVE ServicePair(i, j)'
  <2>1. ServicePair(i, j) /\ (gen[i] > 0 \/ Coming(todo, i))
    BY <1>1, <1>11 DEF LinksInv
  <2>2. /\ Touched(todo', OnNames, i, j) => j \in group[i]
        /\ Touched(todo', OffNames, i, j) => j \notin group[i]
    BY <1>3, <2>1 DEF ServicePair
  <2>3. /\ \A x \in Pending(todo') : x.op = "make enabled" /\ x.i = i => j \in group[i]
        /\ \A x \in Pending(todo') : x.op = "make" /\ x.i = i => j \notin group[i] \/ Touched(todo', Toggles, i, j)
    BY <1>1, <1>3, <2>1 DEF Remaining, ServicePair
  <2>4. CASE i = m
    <3>1. Open(i, j)' <=> yes
      BY <1>5, <2>4
    <3>2. CASE yes
      <4>1. j \in group[i]
        BY <1>1, <2>1, <2>4, <3>2 DEF ServicePair, m, yes
      <4> QED
        BY <1>1, <2>2, <2>3, <3>1, <3>2, <4>1 DEF ServicePair
    <3>3. CASE ~yes
      <4>1. j \notin group[i] \/ Touched(todo, Toggles, i, j)
        BY <1>1, <1>7, <2>1, <2>4, <3>3 DEF ServicePair, m
      <4>2. j \notin group[i] \/ Touched(todo', Toggles, i, j)
        BY <1>3, <4>1
      <4> QED
        BY <1>1, <2>2, <2>3, <3>1, <3>3, <4>2 DEF ServicePair
    <3> QED
      BY <3>2, <3>3
  <2>5. CASE i # m
    <3>1. Coming(todo', i) \/ Touched(todo', Toggles, i, j) \/ (Open(i, j)' <=> j \in group[i])
      BY <1>3, <1>4, <1>5, <2>1, <2>5 DEF ServicePair
    <3> QED
      BY <1>1, <2>2, <2>3, <3>1 DEF ServicePair
  <2> QED
    BY <2>4, <2>5
<1> QED
  BY <1>1, <1>8, <1>9, <1>10, <1>11 DEF LinksInv

LEMMA PlainLinks ==
  ASSUME NEW o, Stepping(o), o.op \in {"delete", "copy", "kill", "serve"}
  PROVE  LinksInv'
<1>1. Remaining /\ LinksInv /\ kind' = kind /\ group' = group /\ o = todo[1][1]
  BY DEF Stepping
<1>2. ~Making(o) /\ o.op \notin Toggles
  BY DEF Making, Toggles
<1>3. gen' = gen /\ ends' = ends /\ enabled' = enabled /\ connected' = connected
  BY PlainEffects DEF Stepping
<1>4. SamePending
  BY <1>1, <1>2 DEF Remaining, SamePending
<1>5. \A i, j : Open(i, j)' = Open(i, j)
  BY <1>3 DEF Open, endname
<1> QED
  BY <1>1, <1>3, <1>4, <1>5, LinksFrame

LEMMA TesterLinks ==
  ASSUME HarnessInv, LinksInv, Tester
  PROVE  LinksInv'
<1>1. PICK o : o = todo[1][1]
  OBVIOUS
<1>2. StateInv /\ TodoInv /\ Advance /\ Does(o)
  BY <1>1, TesterDoes DEF HarnessInv
<1>3. Remaining /\ Apt(o) /\ o \in Pending(todo)
  BY <1>1, <1>2, NextTodo, NextApt, FirstPending DEF Advance
<1>4. kind' = kind /\ group' = group
  BY DEF Tester, ContinueService, serviceVars
<1>5. Stepping(o)
  BY <1>1, <1>2, <1>3, <1>4 DEF Stepping
<1>6. \/ o.op \in Toggles \/ o.op \in {"attach", "detach"} \/ Making(o)
      \/ o.op \in {"delete", "copy", "kill", "serve"}
  BY <1>3 DEF Apt, Steps, StepNames, Toggles, Making
<1> QED
  BY <1>5, <1>6, ToggleLinks, AttachLinks, MakeLinks, PlainLinks

----------------------------------------------------------------------------
(***************************************************************************)
(* The links: the steps of the others.                                      *)
(***************************************************************************)
\* What only the tester changes.
LEMMA OthersLinks ==
  ASSUME LinksInv, UNCHANGED <<cfgVars, serviceVars>>, ends \subseteq ends',
         \A i, j \in Peers : gen[i] > 0 => Open(i, j)' = Open(i, j)
  PROVE  LinksInv'
<1>1. gen' = gen /\ connected' = connected /\ todo' = todo /\ kind' = kind /\ group' = group
  BY DEF cfgVars, serviceVars
<1>2. SamePending
  BY <1>1 DEF SamePending
<1> QED
  BY <1>1, <1>2, LinksFrame

LEMMA NetLinks ==
  ASSUME LinksInv, gen' = gen, connected' = connected, todo' = todo, UNCHANGED serviceVars,
         ends' = ends, enabled' = enabled
  PROVE  LinksInv'
<1>1. kind' = kind /\ group' = group
  BY DEF serviceVars
<1>2. SamePending
  BY DEF SamePending
<1>3. \A i, j : Open(i, j)' = Open(i, j)
  BY DEF Open, endname
<1> QED
  BY <1>1, <1>2, <1>3, LinksFrame

LEMMA NewEndsLinks ==
  ASSUME HarnessInv, LinksInv, NEW new, NEW to, MakeEnds(new, to), \A e \in new : e[3] # "raft"
  PROVE  LinksInv'
<1>1. /\ UNCHANGED <<cfgVars, serviceVars>> /\ ends \subseteq ends' /\ gen' = gen
      /\ enabled' = [e \in EndNames |-> IF e \in new THEN e[4] \in to ELSE enabled[e]]
  BY DEF MakeEnds, cfgVars
<1>2. ASSUME NEW i \in Peers, NEW j \in Peers, gen[i] > 0 PROVE Open(i, j)' = Open(i, j)
  <2>1. endname(i, j) \in EndNames
    BY <1>2, EndNamed DEF HarnessInv, StateInv
  <2>2. endname(i, j)' = endname(i, j)
    BY <1>1 DEF endname
  <2>3. endname(i, j)[3] = "raft"
    BY SMT DEF endname
  <2> QED
    BY <1>1, <2>1, <2>2, <2>3 DEF Open
<1> QED
  BY <1>1, <1>2, OthersLinks

LEMMA ClientLinks ==
  ASSUME HarnessInv, LinksInv, NEW e \in ends, ConnectClient(e)
  PROVE  LinksInv'
<1>1. /\ UNCHANGED <<cfgVars, serviceVars>> /\ ends' = ends /\ gen' = gen
      /\ enabled' = [enabled EXCEPT ![e] = TRUE] /\ e[3] = "clerk"
  BY DEF ConnectClient, cfgVars, Network, net!Enable
<1>2. Types
  BY DEF HarnessInv, StateInv
<1>3. Updated(enabled, enabled', EndNames, e, TRUE)
  BY <1>1, <1>2, Excepted DEF Types
<1>4. ASSUME NEW i \in Peers, NEW j \in Peers, gen[i] > 0 PROVE Open(i, j)' = Open(i, j)
  <2>1. endname(i, j) \in EndNames
    BY <1>2, <1>4, EndNamed
  <2>2. endname(i, j)' = endname(i, j)
    BY <1>1 DEF endname
  <2>3. endname(i, j)[3] = "raft"
    BY SMT DEF endname
  <2>4. endname(i, j) # e
    BY <1>1, <2>3
  <2> QED
    BY <1>3, <2>1, <2>2, <2>4 DEF Open, Updated
<1> QED
  BY <1>1, <1>4, OthersLinks

\* The steps of the calls, and those that concern the whole network.
LEMMA NetworkLinks ==
  ASSUME HarnessInv, LinksInv, UNCHANGED serviceVars,
         \/ cleanup \/ NetworkSteps
         \/ \E unrel \in BOOLEAN : setunreliable(unrel)
         \/ \E c \in Calls : RaftCalls(c)
  PROVE  LinksInv'
<1>0. kind' = kind
  BY DEF serviceVars
<1>1. CASE cleanup
  BY <1>1, NetLinks DEF cleanup, Network, net!Cleanup, cfgVars
<1>2. CASE NetworkSteps
  <2>1. NetSame
    BY <1>0, <1>2, NetworkSafe
  <2> QED
    BY <1>2, <2>1, NetLinks DEF NetworkSteps, cfgVars, NetSame
<1>3. ASSUME NEW unrel \in BOOLEAN, setunreliable(unrel) PROVE LinksInv'
  BY <1>3, NetLinks DEF setunreliable, Network, net!Reliable
<1>4. ASSUME NEW c \in Calls, RaftCalls(c) PROVE LinksInv'
  <2>1. PICK e \in ends : net!Call(c, e)
    BY <1>4 DEF RaftCalls
  <2>2. UNCHANGED cfgVars /\ StateInv
    BY <1>4 DEF RaftCalls, HarnessInv
  <2>3. NetSame
    BY <2>1, <2>2, PlacedMoves
  <2> QED
    BY <2>2, <2>3, NetLinks DEF cfgVars, NetSame
<1> QED
  BY <1>1, <1>2, <1>3, <1>4
=============================================================================
