----------------------- MODULE HarnessProgramsProofs -----------------------
(***************************************************************************)
(* Every operation that a test calls, and every config that it makes, is a  *)
(* program: a sequence of scripts, each of which has the shape that the     *)
(* steps of the harness preserve, with the steps by which the invariants    *)
(* tell the operations apart.                                               *)
(***************************************************************************)
EXTENDS HarnessInvariant, TLAPS

\* The prover of every step that names no other.
USE Zenon

----------------------------------------------------------------------------
(***************************************************************************)
(* The scripts.                                                             *)
(***************************************************************************)
\* Sequences put together.
LEMMA Joined ==
  ASSUME NEW S, NEW s \in Seq(S), NEW t \in Seq(S)
  PROVE  /\ s \o t \in Seq(S) /\ Len(s \o t) = Len(s) + Len(t)
         /\ \A k \in 1 .. Len(s) : (s \o t)[k] = s[k]
         /\ \A k \in 1 .. Len(t) : (s \o t)[Len(s) + k] = t[k]
  BY SMT

LEMMA JoinedAt ==
  ASSUME NEW S, NEW s \in Seq(S), NEW t \in Seq(S), NEW x \in 1 .. Len(t)
  PROVE  (s \o t)[Len(s) + x] = t[x]
  BY SMTT(30)

LEMMA Single ==
  ASSUME NEW S, NEW x \in S
  PROVE  <<x>> \in Seq(S) /\ Len(<<x>>) = 1 /\ <<x>>[1] = x
  BY SMT

\* Two sequences with the same elements.
LEMMA SameSequence ==
  ASSUME NEW S, NEW s \in Seq(S), NEW t \in Seq(S), Len(s) = Len(t), \A k \in 1 .. Len(s) : s[k] = t[k]
  PROVE  s = t
  BY SMT

LEMMA TwoSteps ==
  ASSUME NEW x \in Steps, NEW y \in Steps
  PROVE  <<x, y>> = <<x>> \o <<y>>
<1> DEFINE s == <<x, y>>
           t == <<x>> \o <<y>>
<1>1. s \in Seq(Steps) /\ Len(s) = 2 /\ s[1] = x /\ s[2] = y
  BY SMT
<1>2. t \in Seq(Steps) /\ Len(t) = 2 /\ t[1] = x /\ t[2] = y
  BY SMT
<1> HIDE DEF s, t
<1>3. \A k \in 1 .. 2 : s[k] = t[k]
  BY <1>1, <1>2, SMT
<1>4. s = t
  BY <1>1, <1>2, <1>3, SameSequence, SMT
<1> QED
  BY <1>4, SMT DEF s, t

LEMMA ThreeSteps ==
  ASSUME NEW x \in Steps, NEW y \in Steps, NEW z \in Steps
  PROVE  <<x, y, z>> = (<<x>> \o <<y>>) \o <<z>>
<1> DEFINE s == <<x, y, z>>
           t == <<x, y>> \o <<z>>
<1>1. s \in Seq(Steps) /\ Len(s) = 3 /\ s[1] = x /\ s[2] = y /\ s[3] = z
  BY SMT
<1>2. t \in Seq(Steps) /\ Len(t) = 3 /\ t[1] = x /\ t[2] = y /\ t[3] = z
  BY SMT
<1> HIDE DEF s, t
<1>3. \A k \in 1 .. 3 : s[k] = t[k]
  BY <1>1, <1>2, SMT
<1>4. s = t
  BY <1>1, <1>2, <1>3, SameSequence, SMT
<1>5. <<x, y>> = <<x>> \o <<y>>
  BY TwoSteps, ZenonT(40), SMT
<1> QED
  BY <1>4, <1>5 DEF s, t

LEMMA OneStep ==
  ASSUME NEW i \in Peers, NEW name \in StepNames
  PROVE  Op(name, i) \in Steps /\ Op(name, i).op = name /\ Op(name, i).i = i
  BY SMT DEF Op, Steps

\* The two parts of a sequence that was put together.
LEMMA Parts ==
  ASSUME NEW s, NEW t, Script(s), Script(t)
  PROVE  /\ Len(s) \in Nat /\ Len(t) \in Nat /\ Len(s) > 0 /\ Len(t) > 0
         /\ s \o t \in Seq(Steps) /\ Len(s \o t) = Len(s) + Len(t)
         /\ \A k \in 1 .. Len(s) : k \in 1 .. Len(s) + Len(t) /\ (s \o t)[k] = s[k]
         /\ \A k \in 1 .. Len(t) : Len(s) + k \in 1 .. Len(s) + Len(t) /\ (s \o t)[Len(s) + k] = t[k]
         /\ \A k \in 1 .. Len(s) + Len(t) : k \in 1 .. Len(s) \/ \E x \in 1 .. Len(t) : k = Len(s) + x
<1>1. s \in Seq(Steps) /\ t \in Seq(Steps) /\ Len(s) > 0 /\ Len(t) > 0
  BY DEF Script
<1>2. Len(s) \in Nat /\ Len(t) \in Nat
  BY <1>1, SMT
<1>3. ASSUME NEW k \in 1 .. Len(s) + Len(t), k \notin 1 .. Len(s)
      PROVE  k - Len(s) \in 1 .. Len(t) /\ k = Len(s) + (k - Len(s))
  BY <1>2, <1>3, SMT
<1>4. \A k \in 1 .. Len(s) + Len(t) : k \in 1 .. Len(s) \/ \E x \in 1 .. Len(t) : k = Len(s) + x
  BY <1>3
<1>5. /\ \A k \in 1 .. Len(s) : k \in 1 .. Len(s) + Len(t)
      /\ \A k \in 1 .. Len(t) : Len(s) + k \in 1 .. Len(s) + Len(t)
  BY <1>2, SMT
<1>6. /\ s \o t \in Seq(Steps) /\ Len(s \o t) = Len(s) + Len(t)
      /\ \A k \in 1 .. Len(s) : (s \o t)[k] = s[k]
      /\ \A k \in 1 .. Len(t) : (s \o t)[Len(s) + k] = t[k]
  BY <1>1, Joined, SMT
<1> QED
  BY <1>1, <1>2, <1>4, <1>5, <1>6

\* One part of a script after the other.
LEMMA ScriptJoined ==
  ASSUME NEW s, NEW t, Script(s), Script(t), s[1].i = t[1].i, s[Len(s)].op \in Before(t[1].op),
         ~Makes(s) \/ ~Makes(t), Kills(t) => \A l \in 1 .. Len(s) : s[l].op \in Quiet
  PROVE  /\ Script(s \o t) /\ (s \o t)[1] = s[1] /\ (s \o t)[Len(s \o t)] = t[Len(t)]
         /\ Makes(s \o t) <=> Makes(s) \/ Makes(t)
         /\ Links(s \o t) <=> Links(s) \/ Links(t)
         /\ Kills(s \o t) <=> Kills(s) \/ Kills(t)
         /\ Severs(s) /\ ~Kills(t) => Severs(s \o t)
         /\ (\A j \in Peers : \E l \in 1 .. Len(s) : Cutting(s[l], j)) /\ ~Kills(s) => Severs(s \o t)
<1> DEFINE u == s \o t
           m == Len(s)
           n == Len(t)
<1>1. m \in Nat /\ n \in Nat /\ m > 0 /\ n > 0
  BY Parts
<1>2. Len(u) = m + n
  BY Parts
<1>3. /\ \A k \in 1 .. m : k \in 1 .. m + n /\ u[k] = s[k]
      /\ \A x \in 1 .. n : m + x \in 1 .. m + n /\ u[m + x] = t[x]
  <2>1. \A k \in 1 .. m : k \in 1 .. m + n /\ u[k] = s[k]
    BY Parts
  <2>2. \A x \in 1 .. n : m + x \in 1 .. m + n /\ u[m + x] = t[x]
    BY Parts, SMT
  <2> QED
    BY <2>1, <2>2, SMT
<1>0. \A k \in 1 .. m + n : k \in 1 .. m \/ \E x \in 1 .. n : k = m + x
  BY Parts
<1>4. /\ \A k \in 1 .. m : s[k].i = s[1].i
      /\ \A k \in 1 .. m - 1 : s[k].op \in Before(s[k + 1].op)
      /\ \A k, l \in 1 .. m : Making(s[k]) /\ Making(s[l]) => k = l
      /\ \A k, l \in 1 .. m : s[k].op = "kill" /\ l < k => s[l].op \in Quiet
  BY DEF Script
<1>5. /\ \A k \in 1 .. n : t[k].i = t[1].i
      /\ \A k \in 1 .. n - 1 : t[k].op \in Before(t[k + 1].op)
      /\ \A k, l \in 1 .. n : Making(t[k]) /\ Making(t[l]) => k = l
      /\ \A k, l \in 1 .. n : t[k].op = "kill" /\ l < k => t[l].op \in Quiet
  BY DEF Script
<1>6. s[m].op \in Before(t[1].op) /\ (Kills(t) => \A l \in 1 .. m : s[l].op \in Quiet)
  BY SMT
<1>7. /\ Makes(u) <=> \E k \in 1 .. m + n : Making(u[k])
      /\ Links(u) <=> \E k \in 1 .. m + n : Linking(u[k])
      /\ Kills(u) <=> \E k \in 1 .. m + n : u[k].op = "kill"
  BY <1>2, SMT DEF Makes, Links, Kills
<1>8. /\ Makes(s) <=> \E k \in 1 .. m : Making(s[k])
      /\ Links(s) <=> \E k \in 1 .. m : Linking(s[k])
      /\ Kills(s) <=> \E k \in 1 .. m : s[k].op = "kill"
      /\ Makes(t) <=> \E k \in 1 .. n : Making(t[k])
      /\ Links(t) <=> \E k \in 1 .. n : Linking(t[k])
      /\ Kills(t) <=> \E k \in 1 .. n : t[k].op = "kill"
  BY DEF Makes, Links, Kills
<1>9. u[1] = s[1] /\ u[m + n] = t[n]
  <2>1. 1 \in 1 .. m /\ n \in 1 .. n
    BY <1>1, SMT
  <2> QED
    BY <1>3, <2>1, SMT
<1>10. /\ \A l \in 1 .. m : \A k : k \in 1 .. m - 1 => k + 1 \in 1 .. m
       /\ \A k \in 1 .. m + n - 1 : k \in 1 .. m - 1 \/ k = m \/ \E x \in 1 .. n - 1 : k = m + x
       /\ \A x \in 1 .. n - 1 : x \in 1 .. n /\ x + 1 \in 1 .. n /\ (m + x) + 1 = m + (x + 1)
       /\ \A k \in 1 .. m - 1 : k \in 1 .. m /\ k + 1 \in 1 .. m
       /\ m \in 1 .. m /\ 1 \in 1 .. n
  <2>1. ASSUME NEW k \in 1 .. m + n - 1, k \notin 1 .. m - 1, k # m PROVE k - m \in 1 .. n - 1 /\ k = m + (k - m)
    BY <1>1, <2>1, SMT
  <2>2. \A k \in 1 .. m + n - 1 : k \in 1 .. m - 1 \/ k = m \/ \E x \in 1 .. n - 1 : k = m + x
    BY <2>1
  <2>3. /\ \A l \in 1 .. m : \A k : k \in 1 .. m - 1 => k + 1 \in 1 .. m
        /\ \A x \in 1 .. n - 1 : x \in 1 .. n /\ x + 1 \in 1 .. n /\ (m + x) + 1 = m + (x + 1)
        /\ \A k \in 1 .. m - 1 : k \in 1 .. m /\ k + 1 \in 1 .. m
        /\ m \in 1 .. m /\ 1 \in 1 .. n
    BY <1>1, SMT
  <2> QED
    BY <2>2, <2>3
<1>11. /\ \A k \in 1 .. m, x \in 1 .. n : k # m + x /\ ~(m + x < k)
       /\ \A x, y \in 1 .. n : (m + x = m + y => x = y) /\ (m + x < m + y => x < y)
  BY <1>1, SMT
<1> HIDE DEF u, m, n
<1>12. /\ Makes(u) <=> Makes(s) \/ Makes(t)
       /\ Links(u) <=> Links(s) \/ Links(t)
       /\ Kills(u) <=> Kills(s) \/ Kills(t)
  <2>1. /\ Makes(s) \/ Makes(t) => Makes(u)
        /\ Links(s) \/ Links(t) => Links(u)
        /\ Kills(s) \/ Kills(t) => Kills(u)
    BY <1>3, <1>7, <1>8
  <2>2. ASSUME NEW k \in 1 .. m + n
        PROVE  /\ Making(u[k]) => Makes(s) \/ Makes(t)
               /\ Linking(u[k]) => Links(s) \/ Links(t)
               /\ u[k].op = "kill" => Kills(s) \/ Kills(t)
    <3>1. CASE k \in 1 .. m
      BY <1>3, <1>8, <3>1
    <3>2. ASSUME NEW x \in 1 .. n, k = m + x
          PROVE  /\ Making(u[k]) => Makes(s) \/ Makes(t)
                 /\ Linking(u[k]) => Links(s) \/ Links(t)
                 /\ u[k].op = "kill" => Kills(s) \/ Kills(t)
      BY <1>3, <1>8, <3>2
    <3> QED
      BY <1>0, <3>1, <3>2
  <2> QED
    BY <1>7, <2>1, <2>2
<1>13. ASSUME NEW k \in 1 .. m + n PROVE u[k].i = u[1].i
  <2>1. CASE k \in 1 .. m
    BY <1>3, <1>4, <1>9, <2>1
  <2>2. ASSUME NEW x \in 1 .. n, k = m + x PROVE u[k].i = u[1].i
    BY <1>3, <1>5, <1>9, <2>2
  <2> QED
    BY <1>0, <2>1, <2>2
<1>14. ASSUME NEW k \in 1 .. m + n - 1 PROVE u[k].op \in Before(u[k + 1].op)
  <2>1. CASE k \in 1 .. m - 1
    BY <1>3, <1>4, <1>10, <2>1
  <2>2. CASE k = m
    <3>1. u[m] = s[m] /\ u[m + 1] = t[1]
      BY <1>3, <1>10
    <3> QED
      BY <1>6, <2>2, <3>1, SMT
  <2>3. ASSUME NEW x \in 1 .. n - 1, k = m + x PROVE u[k].op \in Before(u[k + 1].op)
    <3>1. x \in 1 .. n /\ x + 1 \in 1 .. n /\ (m + x) + 1 = m + (x + 1)
      BY <1>10
    <3>2. u[m + x] = t[x] /\ u[m + (x + 1)] = t[x + 1]
      BY <1>3, <3>1
    <3>3. t[x].op \in Before(t[x + 1].op)
      BY <1>5
    <3> QED
      BY <2>3, <3>1, <3>2, <3>3, SMT
  <2> QED
    BY <1>10, <2>1, <2>2, <2>3
<1>15. ASSUME NEW k \in 1 .. m + n, NEW l \in 1 .. m + n, Making(u[k]), Making(u[l]) PROVE k = l
  <2>1. CASE k \in 1 .. m /\ l \in 1 .. m
    BY <1>3, <1>4, <1>15, <2>1
  <2>2. ASSUME NEW x \in 1 .. n, k = m + x \/ l = m + x PROVE Makes(t)
    BY <1>3, <1>8, <1>15, <2>2
  <2>3. k \in 1 .. m \/ l \in 1 .. m => Makes(s)
    BY <1>3, <1>8, <1>15
  <2>4. ASSUME NEW x \in 1 .. n, NEW y \in 1 .. n, k = m + x, l = m + y PROVE k = l
    BY <1>3, <1>5, <1>15, <2>4
  <2> QED
    BY <1>0, <2>1, <2>2, <2>3, <2>4
<1>16. ASSUME NEW k \in 1 .. m + n, NEW l \in 1 .. m + n, u[k].op = "kill", l < k PROVE u[l].op \in Quiet
  <2>1. CASE k \in 1 .. m
    <3>1. l \in 1 .. m
      BY <1>1, <1>16, <2>1, SMT
    <3> QED
      BY <1>3, <1>4, <1>16, <2>1, <3>1
  <2>2. ASSUME NEW x \in 1 .. n, k = m + x, l \in 1 .. m PROVE u[l].op \in Quiet
    BY <1>3, <1>6, <1>8, <1>16, <2>2
  <2>3. ASSUME NEW x \in 1 .. n, k = m + x, NEW y \in 1 .. n, l = m + y PROVE u[l].op \in Quiet
    <3>1. y < x
      BY <1>1, <1>16, <2>3, SMT
    <3> QED
      BY <1>3, <1>5, <1>16, <2>3, <3>1
  <2> QED
    BY <1>0, <2>1, <2>2, <2>3
<1>17. /\ Severs(u) <=> \A k \in 1 .. m + n : u[k].op = "kill" =>
            \A j \in Peers : \E l \in 1 .. k - 1 : Cutting(u[l], j)
       /\ Severs(s) <=> \A k \in 1 .. m : s[k].op = "kill" =>
            \A j \in Peers : \E l \in 1 .. k - 1 : Cutting(s[l], j)
  BY <1>2, SMT DEF Severs, m
<1>18. /\ \A k \in 1 .. m : \A l \in 1 .. k - 1 : l \in 1 .. m
       /\ \A x \in 1 .. n : \A l \in 1 .. m : l \in 1 .. (m + x) - 1
  BY <1>1, SMT
<1>19. ASSUME Severs(s), ~Kills(t), NEW k \in 1 .. m + n, u[k].op = "kill", NEW j \in Peers
       PROVE  \E l \in 1 .. k - 1 : Cutting(u[l], j)
  <2>1. k \in 1 .. m
    <3>1. ASSUME NEW x \in 1 .. n, k = m + x PROVE FALSE
      BY <1>3, <1>8, <1>19, <3>1
    <3> QED
      BY <1>0, <3>1
  <2>2. PICK l \in 1 .. k - 1 : Cutting(s[l], j)
    BY <1>3, <1>17, <1>19, <2>1
  <2> QED
    BY <1>3, <1>18, <2>1, <2>2
<1>20. ASSUME \A j \in Peers : \E l \in 1 .. m : Cutting(s[l], j), ~Kills(s),
              NEW k \in 1 .. m + n, u[k].op = "kill", NEW j \in Peers
       PROVE  \E l \in 1 .. k - 1 : Cutting(u[l], j)
  <2>1. PICK x \in 1 .. n : k = m + x
    BY <1>0, <1>3, <1>8, <1>20
  <2>2. PICK l \in 1 .. m : Cutting(s[l], j)
    BY <1>20
  <2> QED
    BY <1>3, <1>18, <2>1, <2>2
<1>21. Script(u)
  <2>1. u \in Seq(Steps) /\ Len(u) > 0
    BY <1>1, <1>2, Parts, SMT DEF u
  <2>6. 1 .. Len(u) = 1 .. m + n /\ 1 .. Len(u) - 1 = 1 .. m + n - 1
    BY <1>1, <1>2, SMT
  <2>2. \A k \in 1 .. Len(u) : u[k].i = u[1].i
    BY <1>13, <2>6
  <2>3. \A k \in 1 .. Len(u) - 1 : u[k].op \in Before(u[k + 1].op)
    BY <1>14, <2>6
  <2>4. \A k, l \in 1 .. Len(u) : Making(u[k]) /\ Making(u[l]) => k = l
    BY <1>15, <2>6
  <2>5. \A k, l \in 1 .. Len(u) : u[k].op = "kill" /\ l < k => u[l].op \in Quiet
    BY <1>16, <2>6
  <2> QED
    BY <2>1, <2>2, <2>3, <2>4, <2>5 DEF Script
<1>22. u[Len(u)] = t[n]
  BY <1>2, <1>9, SMT
<1> QED
  BY <1>9, <1>12, <1>17, <1>19, <1>20, <1>21, <1>22 DEF u, m, n

LEMMA NamesOfScript ==
  ASSUME NEW s, NEW i, NEW first, NEW last, NEW names, Is(s, i, first, last, names)
  PROVE  /\ Len(s) \in Nat /\ Len(s) > 0
         /\ names \cap MakeNames = {} => ~Makes(s)
         /\ names \cap {"attach", "link out", "link in"} = {} => ~Links(s)
         /\ "kill" \notin names => ~Kills(s) /\ Severs(s)
<1>1. s \in Seq(Steps) /\ Len(s) > 0
  BY DEF Is, Script
<1>2. Len(s) \in Nat
  BY <1>1, SMT
<1>3. \A k \in 1 .. Len(s) : s[k].op \in names
  BY DEF Is
<1> QED
  BY <1>1, <1>2, <1>3 DEF Makes, Making, MakeNames, Links, Linking, Kills, Severs

LEMMA JoinedIs ==
  ASSUME NEW s, NEW t, NEW i, NEW f, NEW m, NEW g, NEW l, NEW A, NEW B,
         Is(s, i, f, m, A), Is(t, i, g, l, B), m \in Before(g),
         A \cap MakeNames = {} \/ B \cap MakeNames = {}, "kill" \in B => A \subseteq Quiet
  PROVE  /\ Is(s \o t, i, f, l, A \cup B) /\ Script(s) /\ Script(t)
         /\ Makes(s \o t) <=> Makes(s) \/ Makes(t)
         /\ Severs(s) /\ ~Kills(t) => Severs(s \o t)
         /\ (\A j \in Peers : \E k \in 1 .. Len(s) : Cutting(s[k], j)) /\ ~Kills(s) => Severs(s \o t)
<1>1. /\ Script(s) /\ Script(t) /\ s[1].i = t[1].i /\ s[Len(s)].op = m /\ t[1].op = g
      /\ s[1].i = i /\ s[1].op = f /\ t[Len(t)].op = l
      /\ \A k \in 1 .. Len(s) : s[k].op \in A
      /\ \A k \in 1 .. Len(t) : t[k].op \in B
  BY DEF Is
<1>2. ~Makes(s) \/ ~Makes(t)
  BY NamesOfScript
<1>3. Kills(t) => \A k \in 1 .. Len(s) : s[k].op \in Quiet
  BY <1>1, NamesOfScript
<1>4. /\ Script(s \o t) /\ (s \o t)[1] = s[1] /\ (s \o t)[Len(s \o t)] = t[Len(t)]
      /\ Makes(s \o t) <=> Makes(s) \/ Makes(t)
      /\ Severs(s) /\ ~Kills(t) => Severs(s \o t)
      /\ (\A j \in Peers : \E k \in 1 .. Len(s) : Cutting(s[k], j)) /\ ~Kills(s) => Severs(s \o t)
  BY <1>1, <1>2, <1>3, ScriptJoined
<1>5. ASSUME NEW k \in 1 .. Len(s \o t) PROVE (s \o t)[k].op \in A \cup B
  <2>1. k \in 1 .. Len(s) + Len(t)
    BY <1>1, <1>5, Parts
  <2>2. k \in 1 .. Len(s) \/ \E x \in 1 .. Len(t) : k = Len(s) + x
    BY <1>1, <2>1, Parts
  <2>3. CASE k \in 1 .. Len(s)
    BY <1>1, <2>3, Parts, SMT
  <2>4. ASSUME NEW x \in 1 .. Len(t), k = Len(s) + x PROVE (s \o t)[k].op \in A \cup B
    <3>1. (s \o t)[Len(s) + x] = t[x]
      BY <1>1, Parts, SMT
    <3> QED
      BY <1>1, <2>4, <3>1
  <2> QED
    BY <2>2, <2>3, <2>4
<1> QED
  BY <1>1, <1>4, <1>5 DEF Is

\* A script of one step.
LEMMA OneIs ==
  ASSUME NEW i \in Peers, NEW name \in StepNames
  PROVE  /\ Is(<<Op(name, i)>>, i, name, name, {name})
         /\ name \in MakeNames => Makes(<<Op(name, i)>>)
<1> DEFINE o == Op(name, i)
           s == <<o>>
<1>1. o \in Steps /\ o.op = name /\ o.i = i
  BY OneStep, SMT
<1> HIDE DEF o
<1>2. s \in Seq(Steps) /\ Len(s) = 1 /\ s[1] = o
  BY <1>1, Single, SMT
<1> HIDE DEF s
<1>3. 1 .. Len(s) = {1} /\ 1 .. Len(s) - 1 = {} /\ ~(1 < 1) /\ Len(s) > 0
  BY <1>2, SMT
<1>4. Script(s)
  BY <1>1, <1>2, <1>3 DEF Script
<1> QED
  BY <1>1, <1>2, <1>3, <1>4 DEF Is, Makes, Making, MakeNames, o, s

\* A script of one kind of step.
LEMMA EachIs ==
  ASSUME NEW i \in Peers, NEW n, NEW to, List(to, n), NEW name \in RepeatedNames
  PROVE  Is(ForEach(name, i, to), i, name, name, {name})
<1> DEFINE s == ForEach(name, i, to)
<1>0. n \in Nat \ {0} /\ to \in [1 .. n -> Peers]
  BY SMT DEF List
<1>1. s = [k \in 1 .. n |-> [op |-> name, i |-> i, j |-> to[k]]]
  BY <1>0, SMT DEF ForEach
<1>2. \A k \in 1 .. n : [op |-> name, i |-> i, j |-> to[k]] \in Steps
  BY <1>0 DEF Steps, StepNames, RepeatedNames
<1>3. s \in Seq(Steps) /\ Len(s) = n /\ \A k \in 1 .. n : s[k] = [op |-> name, i |-> i, j |-> to[k]]
  BY <1>0, <1>1, <1>2, SMT
<1>4. \A k \in 1 .. n : s[k].op = name /\ s[k].i = i /\ s[k].j = to[k]
  BY <1>3, SMT
<1> HIDE DEF s
<1>5. name \in Before(name) /\ name \notin MakeNames /\ name # "kill"
  BY DEF Before, RepeatedNames, MakeNames
<1>6. 1 \in 1 .. n /\ n \in 1 .. n /\ \A k \in 1 .. n - 1 : k \in 1 .. n /\ k + 1 \in 1 .. n
  BY <1>0, SMT
<1>7. 1 .. Len(s) = 1 .. n /\ 1 .. Len(s) - 1 = 1 .. n - 1 /\ Len(s) > 0
  BY <1>0, <1>3, SMT
<1>8. Script(s)
  BY <1>3, <1>4, <1>5, <1>6, <1>7 DEF Script, Making, MakeNames
<1> QED
  BY <1>3, <1>4, <1>6, <1>7, <1>8 DEF Is, s

LEMMA AllServers ==
  List(All, N) /\ \A j \in Peers : j + 1 \in 1 .. N /\ All[j + 1] = j
<1>1. N \in Nat \ {0}
  BY RaftConfigAssumption, SMT
<1>2. All \in [1 .. N -> Peers]
  <2>1. \A k \in 1 .. N : k - 1 \in Peers
    BY <1>1, SMT DEF Peers
  <2> QED
    BY <2>1 DEF All
<1>3. ASSUME NEW j \in Peers PROVE j + 1 \in 1 .. N /\ All[j + 1] = j
  <2>1. j + 1 \in 1 .. N /\ (j + 1) - 1 = j
    BY <1>1, SMT DEF Peers
  <2>2. All[j + 1] = (j + 1) - 1
    BY <2>1 DEF All
  <2> QED
    BY <2>1, <2>2
<1> QED
  BY <1>1, <1>2, <1>3 DEF List

LEMMA HasJoined ==
  ASSUME NEW s, NEW t, Script(s), Script(t), NEW name, NEW j
  PROVE  Has(s \o t, name, j) <=> Has(s, name, j) \/ Has(t, name, j)
<1>1. /\ Len(s \o t) = Len(s) + Len(t)
      /\ \A k \in 1 .. Len(s) : k \in 1 .. Len(s) + Len(t) /\ (s \o t)[k] = s[k]
      /\ \A k \in 1 .. Len(s) + Len(t) : k \in 1 .. Len(s) \/ \E x \in 1 .. Len(t) : k = Len(s) + x
  BY Parts
<1>2. ASSUME NEW x \in 1 .. Len(t) PROVE Len(s) + x \in 1 .. Len(s) + Len(t) /\ (s \o t)[Len(s) + x] = t[x]
  BY Parts, SMT
<1>3. Has(s, name, j) => Has(s \o t, name, j)
  BY <1>1 DEF Has
<1>4. Has(t, name, j) => Has(s \o t, name, j)
  <2>1. SUFFICES ASSUME NEW x \in 1 .. Len(t), t[x].op = name, t[x].j = j PROVE Has(s \o t, name, j)
    BY DEF Has
  <2> DEFINE k == Len(s) + x
  <2>2. k \in 1 .. Len(s \o t) /\ (s \o t)[k] = t[x]
    BY <1>1, <1>2
  <2> HIDE DEF k
  <2> QED
    BY <2>1, <2>2 DEF Has
<1>5. ASSUME NEW k \in 1 .. Len(s) + Len(t), (s \o t)[k].op = name, (s \o t)[k].j = j
      PROVE  Has(s, name, j) \/ Has(t, name, j)
  <2>1. CASE k \in 1 .. Len(s)
    <3>1. (s \o t)[k] = s[k]
      BY <1>1, <2>1
    <3> QED
      BY <1>5, <2>1, <3>1 DEF Has
  <2>2. ASSUME NEW x \in 1 .. Len(t), k = Len(s) + x PROVE Has(t, name, j)
    <3>1. (s \o t)[k] = t[x]
      BY <1>2, <2>2
    <3> QED
      BY <1>5, <2>2, <3>1 DEF Has
  <2> QED
    BY <1>1, <2>1, <2>2
<1>6. Has(s \o t, name, j) => Has(s, name, j) \/ Has(t, name, j)
  BY <1>1, <1>5 DEF Has
<1> QED
  BY <1>3, <1>4, <1>6, SMT

LEMMA HasEach ==
  ASSUME NEW i \in Peers, NEW n, NEW to, List(to, n), NEW name \in RepeatedNames,
         NEW any, NEW j
  PROVE  Has(ForEach(name, i, to), any, j) <=> any = name /\ j \in Range(to)
<1> DEFINE s == ForEach(name, i, to)
<1>0. n \in Nat /\ s = [k \in 1 .. n |-> [op |-> name, i |-> i, j |-> to[k]]]
  BY SMT DEF ForEach, List
<1>1. Len(s) = n /\ \A k \in 1 .. n : s[k].op = name /\ s[k].j = to[k]
  BY <1>0, SMT
<1> HIDE DEF s
<1>2. Has(s, any, j) <=> any = name /\ \E k \in 1 .. n : to[k] = j
  BY <1>1 DEF Has
<1>3. j \in Range(to) <=> \E k \in 1 .. n : to[k] = j
  BY DEF Range, List
<1> QED
  BY <1>2, <1>3, SMT DEF s

LEMMA HasAll ==
  ASSUME NEW i \in Peers, NEW name \in RepeatedNames, NEW j \in Peers
  PROVE  Has(ForEach(name, i, All), name, j)
<1>1. j \in Range(All)
  BY AllServers DEF Range, List
<1> QED
  BY <1>1, AllServers, HasEach

LEMMA AllIs ==
  ASSUME NEW i \in Peers, NEW name \in RepeatedNames
  PROVE  Is(ForEach(name, i, All), i, name, name, {name})
  BY AllServers, EachIs

\* One step, and then two kinds of steps for every server: connect and disconnect.
LEMMA ToggleIs ==
  ASSUME NEW i \in Peers, NEW x \in StepNames, NEW y \in RepeatedNames, NEW z \in RepeatedNames,
         x \in Before(y), y \in Before(z), NEW s,
         s = (<<Op(x, i)>> \o ForEach(y, i, All)) \o ForEach(z, i, All)
  PROVE  Is(s, i, x, z, {x, y, z}) /\ Thorough(s, y, z)
<1> DEFINE a == <<Op(x, i)>>
           b == ForEach(y, i, All)
           c == ForEach(z, i, All)
           A == {x}
           B == {y}
           C == {z}
           d == a \o b
           D == A \cup B
<1>1. Is(a, i, x, x, A)
  BY OneIs
<1>2. Is(b, i, y, y, B) /\ Is(c, i, z, z, C)
  BY AllIs
<1>3. \A j \in Peers : Has(b, y, j) /\ Has(c, z, j)
  BY HasAll
<1>4. /\ B \cap MakeNames = {} /\ C \cap MakeNames = {} /\ "kill" \notin B /\ "kill" \notin C
      /\ D \cup C = {x, y, z} /\ s = d \o c
  BY DEF RepeatedNames, MakeNames
<1> HIDE DEF a, b, c, A, B, C
<1>5. Is(d, i, x, y, D) /\ Script(a) /\ Script(b)
  BY <1>1, <1>2, <1>4, JoinedIs
<1>6. ASSUME NEW j \in Peers PROVE Has(d, y, j)
  BY <1>3, <1>5, HasJoined
<1> HIDE DEF d, D
<1>7. Is(d \o c, i, x, z, D \cup C) /\ Script(d) /\ Script(c)
  BY <1>2, <1>4, <1>5, JoinedIs
<1>8. ASSUME NEW j \in Peers PROVE Has(d \o c, y, j) /\ Has(d \o c, z, j)
  BY <1>3, <1>6, <1>7, HasJoined
<1> QED
  BY <1>4, <1>7, <1>8 DEF Thorough

LEMMA ConnectIs ==
  ASSUME NEW i \in Peers
  PROVE  /\ Is(connect(i), i, "attach", "enable in", {"attach", "enable out", "enable in"})
         /\ Thorough(connect(i), "enable out", "enable in")
<1>1. /\ "attach" \in StepNames /\ "enable out" \in RepeatedNames /\ "enable in" \in RepeatedNames
      /\ "attach" \in Before("enable out") /\ "enable out" \in Before("enable in")
  BY SMT DEF Before, RepeatedNames, StepNames
<1> QED
  BY <1>1, ToggleIs DEF connect

LEMMA DisconnectIs ==
  ASSUME NEW i \in Peers
  PROVE  /\ Is(disconnect(i), i, "detach", "disable in", {"detach", "disable out", "disable in"})
         /\ Thorough(disconnect(i), "disable out", "disable in")
<1>1. /\ "detach" \in StepNames /\ "disable out" \in RepeatedNames /\ "disable in" \in RepeatedNames
      /\ "detach" \in Before("disable out") /\ "disable out" \in Before("disable in")
  BY SMT DEF Before, RepeatedNames, StepNames
<1> QED
  BY <1>1, ToggleIs DEF disconnect

LEMMA DownIs ==
  ASSUME NEW i \in Peers
  PROVE  Is(Down(i), i, "delete", "kill", DownNames)
<1> DEFINE a == <<Op("delete", i)>>
           b == <<Op("copy", i)>>
           c == <<Op("kill", i)>>
           A == {"delete"}
           B == {"copy"}
           C == {"kill"}
           d == a \o b
           D == A \cup B
<1>1. Is(a, i, "delete", "delete", A) /\ Is(b, i, "copy", "copy", B) /\ Is(c, i, "kill", "kill", C)
  <2>1. "delete" \in StepNames /\ "copy" \in StepNames /\ "kill" \in StepNames
    BY SMT DEF StepNames
  <2> QED
    BY <2>1, OneIs
<1>2. /\ B \cap MakeNames = {} /\ C \cap MakeNames = {} /\ "kill" \notin B /\ D \subseteq Quiet
      /\ "delete" \in Before("copy") /\ "copy" \in Before("kill") /\ D \cup C = DownNames
  BY SMT DEF Before, MakeNames, Quiet, DownNames
<1>3. Down(i) = d \o c
  <2> DEFINE o == Op("delete", i)
             p == Op("copy", i)
             q == Op("kill", i)
  <2>0. o \in Steps /\ p \in Steps /\ q \in Steps
    BY OneStep DEF StepNames
  <2> HIDE DEF o, p, q
  <2>1. <<o, p, q>> = (<<o>> \o <<p>>) \o <<q>>
    BY <2>0, ThreeSteps, ZenonT(40), SMT
  <2> QED
    BY <2>1, SMT DEF Down, o, p, q
<1> HIDE DEF a, b, c, A, B, C
<1>4. Is(d, i, "delete", "copy", D)
  BY <1>1, <1>2, JoinedIs
<1> HIDE DEF d, D
<1>5. Is(d \o c, i, "delete", "kill", D \cup C)
  BY <1>1, <1>2, <1>4, JoinedIs
<1> QED
  BY <1>2, <1>3, <1>5

\* A server is taken down once it was cut off.
LEMMA TakenDown ==
  ASSUME NEW i \in Peers, NEW s, NEW f, NEW l, NEW A, NEW cut, Is(s, i, f, l, A), A \subseteq Quiet,
         l \in Before("delete"), cut \in {"disable out", "unlink out"}, \A j \in Peers : Has(s, cut, j)
  PROVE  /\ Is(s \o Down(i), i, f, "kill", A \cup DownNames) /\ Severs(s \o Down(i))
         /\ \A name, j : Has(s, name, j) => Has(s \o Down(i), name, j)
<1> DEFINE t == Down(i)
           B == DownNames
<1>1. Is(t, i, "delete", "kill", B)
  BY DownIs
<1>2. A \cap MakeNames = {} /\ "kill" \notin A
  BY DEF Quiet, MakeNames
<1> HIDE DEF t, B
<1>3. Is(s \o t, i, f, "kill", A \cup B) /\ Script(s) /\ Script(t)
  BY <1>1, <1>2, JoinedIs
<1>4. ~Kills(s)
  BY <1>2, NamesOfScript
<1>5. \A j \in Peers : \E k \in 1 .. Len(s) : Cutting(s[k], j)
  BY DEF Has, Cutting
<1>6. Severs(s \o t)
  BY <1>1, <1>2, <1>4, <1>5, JoinedIs
<1>7. \A name, j : Has(s, name, j) => Has(s \o t, name, j)
  BY <1>3, HasJoined
<1> QED
  BY <1>3, <1>6, <1>7 DEF t, B

\* A server is made and serves.
LEMMA MadeIs ==
  ASSUME NEW i \in Peers, NEW name \in MakeNames
  PROVE  /\ Is(<<Op(name, i), Op("serve", i)>>, i, name, "serve", {name, "serve"})
         /\ Makes(<<Op(name, i), Op("serve", i)>>)
<1> DEFINE a == <<Op(name, i)>>
           b == <<Op("serve", i)>>
           A == {name}
           B == {"serve"}
<1>1. Is(a, i, name, name, A) /\ Is(b, i, "serve", "serve", B) /\ Makes(a)
  <2>1. name \in StepNames /\ "serve" \in StepNames
    BY DEF StepNames, MakeNames
  <2> QED
    BY <2>1, OneIs
<1>2. B \cap MakeNames = {} /\ "kill" \notin B /\ name \in Before("serve") /\ A \cup B = {name, "serve"}
  BY DEF Before, MakeNames
<1>3. <<Op(name, i), Op("serve", i)>> = a \o b
  <2> DEFINE o == Op(name, i)
             p == Op("serve", i)
  <2>0. o \in Steps /\ p \in Steps
    <3>1. name \in StepNames /\ "serve" \in StepNames
      BY DEF StepNames, MakeNames
    <3> QED
      BY <3>1, OneStep
  <2> HIDE DEF o, p
  <2>1. <<o, p>> = <<o>> \o <<p>>
    BY <2>0, TwoSteps
  <2> QED
    BY <2>1, SMT DEF o, p
<1> HIDE DEF a, b, A, B
<1>4. Is(a \o b, i, name, "serve", A \cup B) /\ Makes(a \o b)
  BY <1>1, <1>2, JoinedIs
<1> QED
  BY <1>2, <1>3, <1>4

LEMMA CrashIs ==
  ASSUME NEW i \in Peers
  PROVE  /\ Is(crash1(i), i, "detach", "kill", CrashNames)
         /\ Severs(crash1(i)) /\ Thorough(crash1(i), "disable out", "disable in")
<1> DEFINE s == disconnect(i)
           A == {"detach", "disable out", "disable in"}
<1>1. Is(s, i, "detach", "disable in", A) /\ Thorough(s, "disable out", "disable in")
  BY DisconnectIs
<1>2. A \subseteq Quiet /\ "disable in" \in Before("delete") /\ A \cup DownNames = CrashNames
  BY DEF Quiet, Before, CrashNames
<1>3. crash1(i) = s \o Down(i)
  BY DEF crash1, Down
<1> HIDE DEF s, A
<1>4. \A j \in Peers : Has(s, "disable out", j) /\ Has(s, "disable in", j)
  BY <1>1 DEF Thorough
<1>5. /\ Is(s \o Down(i), i, "detach", "kill", A \cup DownNames) /\ Severs(s \o Down(i))
      /\ \A name, j : Has(s, name, j) => Has(s \o Down(i), name, j)
  BY <1>1, <1>2, <1>4, TakenDown
<1> QED
  BY <1>2, <1>3, <1>4, <1>5 DEF Thorough

LEMMA StartIs ==
  ASSUME NEW i \in Peers
  PROVE  /\ Is(start1(i), i, "detach", "serve", CrashNames \cup {"make", "serve"})
         /\ Makes(start1(i)) /\ Severs(start1(i)) /\ Thorough(start1(i), "disable out", "disable in")
<1> DEFINE s == crash1(i)
           t == <<Op("make", i), Op("serve", i)>>
           A == CrashNames
           B == {"make", "serve"}
<1>1. Is(s, i, "detach", "kill", A) /\ Severs(s) /\ Thorough(s, "disable out", "disable in")
  BY CrashIs
<1>2. A \cap MakeNames = {} /\ "kill" \in Before("make") /\ "kill" \notin B
  BY DEF CrashNames, DownNames, Before, MakeNames
<1>3. Is(t, i, "make", "serve", B) /\ Makes(t)
  <2>1. "make" \in MakeNames
    BY DEF MakeNames
  <2> QED
    BY <2>1, MadeIs
<1>4. start1(i) = s \o t
  BY DEF start1
<1> HIDE DEF s, t, A, B
<1>5. ~Kills(t)
  BY <1>2, <1>3, NamesOfScript
<1>6. Is(s \o t, i, "detach", "serve", A \cup B) /\ Script(s) /\ Script(t) /\ Makes(s \o t) /\ Severs(s \o t)
  BY <1>1, <1>2, <1>3, <1>5, JoinedIs
<1>7. Thorough(s \o t, "disable out", "disable in")
  BY <1>1, <1>6, HasJoined DEF Thorough
<1> QED
  BY <1>4, <1>6, <1>7 DEF A, B

LEMMA TwiceIs ==
  ASSUME NEW i \in Peers, NEW n, NEW to, List(to, n),
         NEW x \in RepeatedNames, NEW y \in RepeatedNames, x \in Before(y)
  PROVE  /\ Is(Twice(x, y, i, to), i, x, y, {x, y})
         /\ \A name, j : Has(Twice(x, y, i, to), name, j) <=> name \in {x, y} /\ j \in Range(to)
<1> DEFINE s == Twice(x, y, i, to)
           a == ForEach(x, i, to)
           b == ForEach(y, i, to)
           A == {x}
           B == {y}
<1>1. Is(a, i, x, x, A) /\ Is(b, i, y, y, B)
  BY EachIs
<1>2. ASSUME NEW name, NEW j
      PROVE  /\ Has(a, name, j) <=> name = x /\ j \in Range(to)
             /\ Has(b, name, j) <=> name = y /\ j \in Range(to)
  <2>1. Has(a, name, j) <=> name = x /\ j \in Range(to)
    BY HasEach
  <2>2. Has(b, name, j) <=> name = y /\ j \in Range(to)
    BY HasEach
  <2> QED
    BY <2>1, <2>2, SMT
<1>3. B \cap MakeNames = {} /\ "kill" \notin B /\ A \cup B = {x, y} /\ s = a \o b
  BY DEF RepeatedNames, MakeNames, Twice
<1> HIDE DEF s, a, b, A, B
<1>4. Is(a \o b, i, x, y, A \cup B) /\ Script(a) /\ Script(b)
  BY <1>1, <1>3, JoinedIs
<1>5. ASSUME NEW name, NEW j
      PROVE  Has(s, name, j) <=> name \in {x, y} /\ j \in Range(to)
  <2>1. Has(a \o b, name, j) <=> Has(a, name, j) \/ Has(b, name, j)
    BY <1>4, HasJoined
  <2>2. Has(a, name, j) <=> name = x /\ j \in Range(to)
    BY <1>2
  <2>3. Has(b, name, j) <=> name = y /\ j \in Range(to)
    BY <1>2
  <2> QED
    BY <1>3, <2>1, <2>2, <2>3
<1> QED
  BY <1>3, <1>4, <1>5 DEF s

LEMMA LinkIs ==
  ASSUME NEW i \in Peers, NEW n, NEW to, List(to, n)
  PROVE  /\ Is(connectUnlocked(i, to), i, "link out", "link in", LinkNames)
         /\ \A name, j : Has(connectUnlocked(i, to), name, j) <=> name \in LinkNames /\ j \in Range(to)
<1> DEFINE x == "link out"
           y == "link in"
           s == connectUnlocked(i, to)
<1>1. x \in RepeatedNames /\ y \in RepeatedNames /\ x \in Before(y)
  BY DEF RepeatedNames, Before
<1>2. s = Twice(x, y, i, to)
  BY DEF connectUnlocked, Twice
<1> HIDE DEF x, y, s
<1>3. Is(s, i, x, y, {x, y})
  BY <1>1, <1>2, TwiceIs
<1>4. ASSUME NEW name, NEW j PROVE Has(s, name, j) <=> name \in {x, y} /\ j \in Range(to)
  <2>1. Has(Twice(x, y, i, to), name, j) <=> name \in {x, y} /\ j \in Range(to)
    BY <1>1, TwiceIs
  <2> QED
    BY <1>2, <2>1
<1> QED
  BY <1>3, <1>4 DEF LinkNames, x, y, s

LEMMA UnlinkIs ==
  ASSUME NEW i \in Peers, NEW n, NEW to, List(to, n)
  PROVE  /\ Is(disconnectUnlocked(i, to), i, "unlink out", "unlink in", UnlinkNames)
         /\ \A name, j : Has(disconnectUnlocked(i, to), name, j) <=> name \in UnlinkNames /\ j \in Range(to)
<1> DEFINE x == "unlink out"
           y == "unlink in"
           s == disconnectUnlocked(i, to)
<1>1. x \in RepeatedNames /\ y \in RepeatedNames /\ x \in Before(y)
  BY DEF RepeatedNames, Before
<1>2. s = Twice(x, y, i, to)
  BY DEF disconnectUnlocked, Twice
<1> HIDE DEF x, y, s
<1>3. Is(s, i, x, y, {x, y})
  BY <1>1, <1>2, TwiceIs
<1>4. ASSUME NEW name, NEW j PROVE Has(s, name, j) <=> name \in {x, y} /\ j \in Range(to)
  <2>1. Has(Twice(x, y, i, to), name, j) <=> name \in {x, y} /\ j \in Range(to)
    BY <1>1, TwiceIs
  <2> QED
    BY <1>2, <2>1
<1> QED
  BY <1>3, <1>4 DEF UnlinkNames, x, y, s

LEMMA InAll == \A j : j \in Peers => j \in Range(All)
  BY AllServers DEF Range, List

LEMMA ShutdownIs ==
  ASSUME NEW i \in Peers
  PROVE  /\ Is(ShutdownServer(i), i, "unlink out", "kill", ShutNames)
         /\ Severs(ShutdownServer(i)) /\ Thorough(ShutdownServer(i), "unlink out", "unlink in")
<1> DEFINE s == disconnectUnlocked(i, All)
           A == {"unlink out", "unlink in"}
<1>2. /\ Is(s, i, "unlink out", "unlink in", A)
      /\ \A name, j : Has(s, name, j) <=> name \in A /\ j \in Range(All)
  BY AllServers, UnlinkIs DEF UnlinkNames
<1>3. \A j \in Peers : Has(s, "unlink out", j) /\ Has(s, "unlink in", j)
  BY <1>2, InAll
<1>4. A \subseteq Quiet /\ "unlink in" \in Before("delete") /\ A \cup DownNames = ShutNames
  BY DEF Quiet, Before, ShutNames
<1>5. ShutdownServer(i) = s \o Down(i)
  BY DEF ShutdownServer, Down
<1> HIDE DEF s, A
<1>6. /\ Is(s \o Down(i), i, "unlink out", "kill", A \cup DownNames) /\ Severs(s \o Down(i))
      /\ \A name, j : Has(s, name, j) => Has(s \o Down(i), name, j)
  BY <1>2, <1>3, <1>4, TakenDown
<1> QED
  BY <1>3, <1>4, <1>5, <1>6 DEF Thorough

LEMMA ShardShutdownIs ==
  ASSUME NEW i \in Peers
  PROVE  /\ Is(ShutdownShardServer(i), i, "unlink out", "kill", ShardShutNames)
         /\ Severs(ShutdownShardServer(i)) /\ \A j \in Peers : Has(ShutdownShardServer(i), "unlink out", j)
<1> DEFINE s == ForEach("unlink out", i, All)
           A == {"unlink out"}
<1>1. "unlink out" \in RepeatedNames
  BY DEF RepeatedNames
<1>2. Is(s, i, "unlink out", "unlink out", A) /\ \A j \in Peers : Has(s, "unlink out", j)
  BY <1>1, AllIs, HasAll
<1>4. A \subseteq Quiet /\ "unlink out" \in Before("delete") /\ A \cup DownNames = ShardShutNames
  BY DEF Quiet, Before, ShardShutNames
<1>5. ShutdownShardServer(i) = s \o Down(i)
  BY DEF ShutdownShardServer, Down
<1> HIDE DEF s, A
<1>6. /\ Is(s \o Down(i), i, "unlink out", "kill", A \cup DownNames) /\ Severs(s \o Down(i))
      /\ \A name, j : Has(s, name, j) => Has(s \o Down(i), name, j)
  BY <1>2, <1>4, TakenDown
<1> QED
  BY <1>2, <1>4, <1>5, <1>6

----------------------------------------------------------------------------
(***************************************************************************)
(* The programs.                                                            *)
(***************************************************************************)
LEMMA OpenedBasics ==
  ASSUME NEW p, NEW n, Opened(p, n)
  PROVE  /\ n \in Nat /\ p \in Seq(Seq(Steps)) /\ Len(p) = n
         /\ \A a \in 1 .. Len(p) : Script(p[a]) /\ Full(p[a])
         /\ \A a \in 2 .. Len(p) : Opening(p[a])
<1>1. n \in Nat /\ p \in Seq(Seq(Steps)) /\ Len(p) = n
  BY DEF Opened
<1>2. \A a \in 2 .. Len(p) : a \in 1 .. n
  BY <1>1, SMT
<1> QED
  BY <1>1, <1>2 DEF Opened

LEMMA LinklessProgram ==
  ASSUME NEW p, NEW n, Opened(p, n), InOrder(p, n), Linkless(p, n)
  PROVE  Program(p)
<1>1. \A a, b \in 1 .. Len(p) : p[a][1].i = p[b][1].i => a = b
  <2>1. \A a \in 1 .. Len(p) : p[a][1].i = a - 1
    BY OpenedBasics DEF InOrder
  <2>2. \A a, b \in 1 .. Len(p) : a - 1 = b - 1 => a = b
    BY OpenedBasics, SMT
  <2> QED
    BY <2>1, <2>2
<1>2. \A a \in 1 .. Len(p) : ~Links(p[a])
  BY OpenedBasics DEF Linkless
<1> QED
  BY <1>1, <1>2, OpenedBasics DEF Program

LEMMA SteadyProgram ==
  ASSUME NEW p, NEW n, Opened(p, n), Steady(p, n)
  PROVE  Program(p)
<1>1. \A a \in 1 .. Len(p) : ~Makes(p[a]) /\ p[a][Len(p[a])].op # "kill"
  BY OpenedBasics DEF Steady
<1> QED
  BY <1>1, OpenedBasics DEF Program

LEMMA JoinedOpened ==
  ASSUME NEW p, NEW n, Opened(p, n), NEW q, NEW m, Opened(q, m)
  PROVE  Opened(p \o q, n + m) /\ JoinOf(p \o q, p, n, q, m)
<1> DEFINE r == p \o q
           S == Seq(Steps)
<1>1. n \in Nat /\ p \in Seq(S) /\ Len(p) = n /\ m \in Nat /\ q \in Seq(S) /\ Len(q) = m
  BY DEF Opened
<1> HIDE DEF S
<1>2. /\ r \in Seq(S) /\ Len(r) = n + m
      /\ \A k \in 1 .. n : r[k] = p[k]
      /\ \A x \in 1 .. m : r[n + x] = q[x]
  <2>1. p \in Seq(S) /\ q \in Seq(S)
    BY <1>1
  <2>2. /\ r \in Seq(S) /\ Len(r) = Len(p) + Len(q)
        /\ \A k \in 1 .. Len(p) : r[k] = p[k]
    BY <2>1, Joined
  <2>3. ASSUME NEW x \in 1 .. Len(q) PROVE r[Len(p) + x] = q[x]
    BY <2>1, JoinedAt
  <2> QED
    BY <1>1, <2>2, <2>3
<1> HIDE DEF r
<1>3. /\ \A k \in 1 .. n : k \in 1 .. n + m
      /\ \A x \in 1 .. m : n + x \in 1 .. n + m
      /\ n + m \in Nat
  BY <1>1, SMT
<1>4. ASSUME NEW k \in 1 .. n + m, k \notin 1 .. n PROVE k - n \in 1 .. m /\ k = n + (k - n)
  BY <1>1, <1>4, SMT
<1>5. ASSUME NEW k \in 1 .. n + m PROVE k \in 1 .. n \/ \E x \in 1 .. m : k = n + x
  BY <1>4
<1>6. ASSUME NEW k \in 1 .. n + m PROVE Script(r[k]) /\ Opening(r[k]) /\ Full(r[k])
  <2>1. CASE k \in 1 .. n
    BY <1>2, <2>1 DEF Opened
  <2>2. ASSUME NEW x \in 1 .. m, k = n + x PROVE Script(r[k]) /\ Opening(r[k]) /\ Full(r[k])
    <3>1. r[k] = q[x]
      BY <1>2, <2>2
    <3> QED
      BY <2>2, <3>1 DEF Opened
  <2> QED
    BY <1>5, <2>1, <2>2
<1>7. Opened(r, n + m)
  BY <1>2, <1>3, <1>6 DEF Opened, S
<1>8. JoinOf(r, p, n, q, m)
  BY <1>2, <1>3, <1>5 DEF JoinOf
<1> QED
  BY <1>7, <1>8 DEF r

\* A single script.
LEMMA OnlyOne ==
  ASSUME NEW s
  PROVE  Len(<<s>>) = 1 /\ <<s>>[1] = s /\ 1 .. 1 = {1} /\ 2 .. 1 = {}
  BY SMT

LEMMA OneProgram ==
  ASSUME NEW s, NEW i, NEW first, NEW last, NEW names, Is(s, i, first, last, names), Full(s),
         names \cap {"attach", "link out", "link in"} = {} \/ (names \cap MakeNames = {} /\ last # "kill")
  PROVE  Program(<<s>>)
<1> DEFINE p == <<s>>
<1>1. Len(p) = 1 /\ p[1] = s /\ 1 .. 1 = {1} /\ 2 .. 1 = {}
  BY OnlyOne
<1>2. p \in Seq(Seq(Steps))
  <2>1. s \in Seq(Steps)
    BY DEF Is, Script
  <2> QED
    BY <2>1, Single
<1> HIDE DEF p
<1>3. ~Links(s) \/ (~Makes(s) /\ s[Len(s)].op # "kill")
  BY NamesOfScript DEF Is
<1>4. Script(s)
  BY DEF Is
<1>5. /\ \A a \in 1 .. Len(p) : a = 1 /\ p[a] = s
      /\ 2 .. Len(p) = {}
  BY <1>1
<1>6. Program(p)
  BY <1>2, <1>3, <1>4, <1>5 DEF Program
<1> QED
  BY <1>6 DEF p

LEMMA ManyOpened ==
  ASSUME NEW p, NEW n \in Nat, p = [k \in 1 .. n |-> p[k]],
         \A k \in 1 .. n : Script(p[k]) /\ Opening(p[k]) /\ Full(p[k])
  PROVE  Opened(p, n)
<1>1. \A k \in 1 .. n : p[k] \in Seq(Steps)
  BY DEF Script
<1>2. p \in Seq(Seq(Steps)) /\ Len(p) = n
  <2> DEFINE S == Seq(Steps)
  <2>1. p \in [1 .. n -> S]
    BY <1>1
  <2> HIDE DEF S
  <2>2. p \in Seq(S) /\ Len(p) = n
    BY <2>1, SMT
  <2> QED
    BY <2>2 DEF S
<1> QED
  BY <1>2 DEF Opened

LEMMA IsOpening ==
  ASSUME NEW s, NEW i, NEW f, NEW l, NEW A, Is(s, i, f, l, A), Severs(s),
         \/ f = "attach" /\ Thorough(s, "enable out", "enable in")
         \/ f = "detach" /\ Thorough(s, "disable out", "disable in")
         \/ f \in {"make", "make enabled", "unlink out", "link out"}
  PROVE  Script(s) /\ Opening(s) /\ Full(s)
  BY DEF Is, Opening, Full

LEMMA ManyOfKind ==
  ASSUME NEW p, NEW n, Opened(p, n), NEW what, NEW names, names \subseteq StepsOf(what),
         \A k \in 1 .. n : Named(p[k], names)
  PROVE  OfKind(p, what)
<1>1. Len(p) = n
  BY OpenedBasics
<1> QED
  BY <1>1 DEF OfKind, Named

LEMMA JoinedOfKind ==
  ASSUME NEW p, NEW n, Opened(p, n), NEW q, NEW m, Opened(q, m), NEW what,
         OfKind(p, what), OfKind(q, what)
  PROVE  OfKind(p \o q, what)
<1> DEFINE r == p \o q
           M == n + m
<1>1. JoinOf(r, p, n, q, m) /\ Opened(r, M)
  BY JoinedOpened
<1>2. Len(p) = n /\ Len(q) = m /\ Len(r) = M
  BY <1>1, OpenedBasics
<1>3. /\ \A k \in 1 .. M : k \in 1 .. n \/ \E x \in 1 .. m : k = n + x
      /\ \A k \in 1 .. n : r[k] = p[k]
      /\ \A x \in 1 .. m : r[n + x] = q[x]
  BY <1>1 DEF JoinOf
<1> HIDE DEF r, M
<1>4. /\ \A k \in 1 .. n : Named(p[k], StepsOf(what))
      /\ \A k \in 1 .. m : Named(q[k], StepsOf(what))
  BY <1>2 DEF OfKind, Named
<1>5. ASSUME NEW k \in 1 .. M PROVE Named(r[k], StepsOf(what))
  <2>1. CASE k \in 1 .. n
    BY <1>3, <1>4, <2>1
  <2>2. ASSUME NEW x \in 1 .. m, k = n + x PROVE Named(r[k], StepsOf(what))
    BY <1>3, <1>4, <2>2
  <2> QED
    BY <1>3, <2>1, <2>2
<1>6. OfKind(r, what)
  BY <1>2, <1>5 DEF OfKind, Named
<1> QED
  BY <1>6 DEF r

LEMMA PeerOf == \A k \in 1 .. N : k - 1 \in Peers
  BY RaftConfigAssumption, SMT DEF Peers

\* ConnectAll.
LEMMA ConnectAllOpened ==
  /\ Opened(ConnectAll, N) /\ Steady(ConnectAll, N) /\ OfKind(ConnectAll, "kvraft")
  /\ \A k \in 1 .. N : ConnectAll[k] = connectUnlocked(k - 1, All)
<1> DEFINE q == ConnectAll
           B == LinkNames
<1>0. N \in Nat
  BY RaftConfigAssumption, SMT
<1>1. B \cap MakeNames = {} /\ "kill" \notin B /\ B \subseteq StepsOf("kvraft")
  BY DEF LinkNames, MakeNames, StepsOf
<1>2. q = [k \in 1 .. N |-> q[k]] /\ \A k \in 1 .. N : q[k] = connectUnlocked(k - 1, All)
  BY DEF ConnectAll
<1> HIDE DEF q, B
<1>3. ASSUME NEW k \in 1 .. N PROVE Is(q[k], k - 1, "link out", "link in", B)
  <2>1. Is(connectUnlocked(k - 1, All), k - 1, "link out", "link in", B)
    BY AllServers, PeerOf, LinkIs DEF B
  <2> QED
    BY <1>2, <2>1
<1>4. ASSUME NEW k \in 1 .. N
      PROVE  /\ Script(q[k]) /\ Opening(q[k]) /\ Full(q[k]) /\ Named(q[k], B)
             /\ ~Makes(q[k]) /\ q[k][Len(q[k])].op # "kill"
  <2>1. q[k][Len(q[k])].op = "link in" /\ Named(q[k], B)
    BY <1>3 DEF Is, Named
  <2>2. ~Makes(q[k]) /\ Severs(q[k])
    BY <1>1, <1>3, NamesOfScript
  <2>3. Script(q[k]) /\ Opening(q[k]) /\ Full(q[k])
    BY <1>3, <2>2, IsOpening
  <2> QED
    BY <2>1, <2>2, <2>3
<1>5. Opened(q, N) /\ Steady(q, N)
  BY <1>0, <1>2, <1>4, ManyOpened DEF Steady
<1>6. OfKind(q, "kvraft")
  BY <1>1, <1>4, <1>5, ManyOfKind
<1> QED
  BY <1>2, <1>5, <1>6 DEF q

LEMMA StartsOpened ==
  ASSUME NEW name \in MakeNames, NEW p, p = [k \in 1 .. N |-> p[k]], Starts(p, name)
  PROVE  /\ Opened(p, N) /\ InOrder(p, N) /\ Linkless(p, N)
         /\ \A k \in 1 .. N : p[k][Len(p[k])].op # "kill" /\ Makes(p[k]) /\ Named(p[k], {name, "serve"})
<1> DEFINE B == {name, "serve"}
<1>0. N \in Nat
  BY RaftConfigAssumption, SMT
<1>1. /\ B \cap {"attach", "link out", "link in"} = {} /\ "kill" \notin B
      /\ name \in {"make", "make enabled", "unlink out", "link out"}
  BY DEF MakeNames
<1> HIDE DEF B
<1>2. ASSUME NEW k \in 1 .. N PROVE Is(p[k], k - 1, name, "serve", B) /\ Makes(p[k])
  <2> DEFINE s == <<Op(name, k - 1), Op("serve", k - 1)>>
  <2>1. Is(s, k - 1, name, "serve", B) /\ Makes(s)
    BY PeerOf, MadeIs DEF B
  <2>2. p[k] = s
    BY DEF Starts
  <2> QED
    BY <2>1, <2>2
<1>3. ASSUME NEW k \in 1 .. N
      PROVE  /\ Script(p[k]) /\ Opening(p[k]) /\ Full(p[k]) /\ Named(p[k], B)
             /\ ~Links(p[k]) /\ p[k][1].i = k - 1 /\ p[k][Len(p[k])].op # "kill"
  <2>1. p[k][1].i = k - 1 /\ p[k][Len(p[k])].op = "serve" /\ Named(p[k], B)
    BY <1>2 DEF Is, Named
  <2>2. ~Links(p[k]) /\ Severs(p[k])
    BY <1>1, <1>2, NamesOfScript
  <2>3. Script(p[k]) /\ Opening(p[k]) /\ Full(p[k])
    BY <1>1, <1>2, <2>2, IsOpening
  <2> QED
    BY <2>1, <2>2, <2>3
<1>4. Opened(p, N)
  BY <1>0, <1>3, ManyOpened
<1> QED
  BY <1>2, <1>3, <1>4 DEF InOrder, Linkless, B

LEMMA StartGroupProgram ==
  /\ Program(StartGroup) /\ OfKind(StartGroup, "shardkv")
  /\ Opened(StartGroup, N) /\ Starts(StartGroup, "make enabled")
<1> DEFINE p == StartGroup
<1>1. p = [k \in 1 .. N |-> p[k]] /\ Starts(p, "make enabled")
  BY DEF StartGroup, Starts, StartShardServer
<1> HIDE DEF p
<1>2. "make enabled" \in MakeNames /\ {"make enabled", "serve"} \subseteq StepsOf("shardkv")
  BY DEF MakeNames, StepsOf
<1>3. /\ Opened(p, N) /\ InOrder(p, N) /\ Linkless(p, N)
      /\ \A k \in 1 .. N : Named(p[k], {"make enabled", "serve"})
  BY <1>1, <1>2, StartsOpened
<1>4. OfKind(p, "shardkv")
  BY <1>2, <1>3, ManyOfKind
<1>5. Program(p)
  BY <1>3, LinklessProgram
<1> QED
  BY <1>1, <1>3, <1>4, <1>5 DEF p

LEMMA ShutdownGroupProgram ==
  /\ Program(ShutdownGroup) /\ OfKind(ShutdownGroup, "shardkv") /\ Opened(ShutdownGroup, N)
  /\ \A k \in 1 .. N : ShutdownGroup[k] = ShutdownShardServer(k - 1)
<1> DEFINE p == ShutdownGroup
           B == ShardShutNames
<1>0. N \in Nat
  BY RaftConfigAssumption, SMT
<1>1. B \cap {"attach", "link out", "link in"} = {} /\ B \subseteq StepsOf("shardkv")
  BY DEF ShardShutNames, DownNames, StepsOf
<1>2. p = [k \in 1 .. N |-> p[k]] /\ \A k \in 1 .. N : p[k] = ShutdownShardServer(k - 1)
  BY DEF ShutdownGroup
<1> HIDE DEF p, B
<1>3. ASSUME NEW k \in 1 .. N PROVE Is(p[k], k - 1, "unlink out", "kill", B) /\ Severs(p[k])
  <2>1. Is(ShutdownShardServer(k - 1), k - 1, "unlink out", "kill", B) /\ Severs(ShutdownShardServer(k - 1))
    BY PeerOf, ShardShutdownIs DEF B
  <2> QED
    BY <1>2, <2>1
<1>4. ASSUME NEW k \in 1 .. N
      PROVE  /\ Script(p[k]) /\ Opening(p[k]) /\ Full(p[k]) /\ Named(p[k], B)
             /\ ~Links(p[k]) /\ p[k][1].i = k - 1
  <2>1. p[k][1].i = k - 1 /\ Named(p[k], B)
    BY <1>3 DEF Is, Named
  <2>2. ~Links(p[k])
    BY <1>1, <1>3, NamesOfScript
  <2>3. Script(p[k]) /\ Opening(p[k]) /\ Full(p[k])
    BY <1>3, IsOpening
  <2> QED
    BY <2>1, <2>2, <2>3
<1>5. Opened(p, N) /\ InOrder(p, N) /\ Linkless(p, N)
  BY <1>0, <1>2, <1>4, ManyOpened DEF InOrder, Linkless
<1>6. OfKind(p, "shardkv")
  BY <1>1, <1>4, <1>5, ManyOfKind
<1>7. Program(p)
  BY <1>5, LinklessProgram
<1> QED
  BY <1>2, <1>5, <1>6, <1>7 DEF p

LEMMA OpenedNew ==
  ASSUME NEW p, NEW n, Opened(p, n), NEW what, Program(p), OfKind(p, what)
  PROVE  NewProgram(p, what)
  BY OpenedBasics DEF NewProgram, Opened

LEMMA LinklessTask ==
  ASSUME NEW A, NEW l, Apart(A, LinkingNames)
  PROVE  OneTask(A, l)
  BY DEF OneTask

LEMMA SingleNew ==
  ASSUME NEW s, NEW i, NEW f, NEW l, NEW A, Is(s, i, f, l, A), Severs(s),
         \/ f = "attach" /\ Thorough(s, "enable out", "enable in")
         \/ f = "detach" /\ Thorough(s, "disable out", "disable in")
         \/ f \in {"make", "make enabled", "unlink out", "link out"},
         OneTask(A, l),
         NEW what, A \subseteq StepsOf(what)
  PROVE  NewProgram(<<s>>, what)
<1> DEFINE p == <<s>>
<1>1. Script(s) /\ Opening(s) /\ Full(s)
  BY IsOpening
<1>2. Program(p)
  BY <1>1, OneProgram DEF OneTask, Apart, LinkingNames
<1>3. Len(p) = 1 /\ p[1] = s /\ 1 .. 1 = {1}
  BY OnlyOne
<1> HIDE DEF p
<1>4. \A a \in 1 .. Len(p) : p[a] = s
  BY <1>3
<1>5. OfKind(p, what)
  BY <1>4 DEF OfKind, Is
<1>6. NewProgram(p, what)
  BY <1>1, <1>2, <1>4, <1>5 DEF NewProgram
<1> QED
  BY <1>6 DEF p

LEMMA RaftPrograms ==
  ASSUME NEW i \in Peers
  PROVE  /\ NewProgram(<<crash1(i)>>, "raft") /\ NewProgram(<<start1(i)>>, "raft")
         /\ NewProgram(<<connect(i)>>, "raft") /\ NewProgram(<<disconnect(i)>>, "raft")
<1>1. NewProgram(<<crash1(i)>>, "raft")
  <2> DEFINE A == CrashNames
             s == crash1(i)
  <2>0. Apart(A, LinkingNames)
    BY DEF Apart, LinkingNames, CrashNames, DownNames
  <2>1. OneTask(A, "kill")
    BY <2>0, LinklessTask
  <2>4. A \subseteq StepsOf("raft")
    BY DEF CrashNames, DownNames, StepsOf
  <2>2. Is(s, i, "detach", "kill", A) /\ Severs(s) /\ Thorough(s, "disable out", "disable in")
    BY CrashIs
  <2> HIDE DEF A, s
  <2>3. NewProgram(<<s>>, "raft")
    BY <2>1, <2>2, <2>4, SingleNew
  <2> QED
    BY <2>3, SMT DEF s
<1>2. NewProgram(<<start1(i)>>, "raft")
  <2> DEFINE A == CrashNames \cup {"make", "serve"}
             s == start1(i)
  <2>1. OneTask(A, "serve") /\ A \subseteq StepsOf("raft")
    BY DEF OneTask, Apart, LinkingNames, CrashNames, DownNames, StepsOf
  <2>2. Is(s, i, "detach", "serve", A) /\ Severs(s) /\ Thorough(s, "disable out", "disable in")
    BY StartIs
  <2> HIDE DEF A, s
  <2>3. NewProgram(<<s>>, "raft")
    BY <2>1, <2>2, SingleNew
  <2> QED
    BY <2>3, SMT DEF s
<1>3. NewProgram(<<connect(i)>>, "raft")
  <2> DEFINE A == {"attach", "enable out", "enable in"}
             s == connect(i)
  <2>1. OneTask(A, "enable in") /\ A \subseteq StepsOf("raft") /\ "kill" \notin A
    BY DEF OneTask, Apart, LinkingNames, MakeNames, StepsOf
  <2>2. Is(s, i, "attach", "enable in", A) /\ Thorough(s, "enable out", "enable in")
    BY ConnectIs
  <2> HIDE DEF A, s
  <2>3. Severs(s)
    BY <2>1, <2>2, NamesOfScript
  <2>4. NewProgram(<<s>>, "raft")
    BY <2>1, <2>2, <2>3, SingleNew
  <2> QED
    BY <2>4, SMT DEF s
<1>4. NewProgram(<<disconnect(i)>>, "raft")
  <2> DEFINE A == {"detach", "disable out", "disable in"}
             s == disconnect(i)
  <2>1. OneTask(A, "disable in") /\ A \subseteq StepsOf("raft") /\ "kill" \notin A
    BY DEF OneTask, Apart, LinkingNames, MakeNames, StepsOf
  <2>2. Is(s, i, "detach", "disable in", A) /\ Thorough(s, "disable out", "disable in")
    BY DisconnectIs
  <2> HIDE DEF A, s
  <2>3. Severs(s)
    BY <2>1, <2>2, NamesOfScript
  <2>4. NewProgram(<<s>>, "raft")
    BY <2>1, <2>2, <2>3, SingleNew
  <2> QED
    BY <2>4, SMT DEF s
<1> QED
  BY <1>1, <1>2, <1>3, <1>4, SMT

LEMMA ServicePrograms ==
  ASSUME NEW i \in Peers
  PROVE  /\ NewProgram(<<ShutdownServer(i)>>, "kvraft") /\ NewProgram(<<StartServer(i)>>, "kvraft")
         /\ NewProgram(<<ShutdownShardServer(i)>>, "shardkv") /\ NewProgram(<<StartShardServer(i)>>, "shardkv")
<1>1. NewProgram(<<ShutdownServer(i)>>, "kvraft")
  <2> DEFINE A == ShutNames
             s == ShutdownServer(i)
  <2>0. Apart(A, LinkingNames)
    BY DEF Apart, LinkingNames, ShutNames, DownNames
  <2>1. OneTask(A, "kill")
    BY <2>0, LinklessTask
  <2>4. /\ A \subseteq StepsOf("kvraft")
        /\ "unlink out" \in {"make", "make enabled", "unlink out", "link out"}
    BY DEF ShutNames, DownNames, StepsOf
  <2>2. Is(s, i, "unlink out", "kill", A) /\ Severs(s)
    BY ShutdownIs
  <2> HIDE DEF A, s
  <2>3. NewProgram(<<s>>, "kvraft")
    BY <2>1, <2>2, <2>4, SingleNew
  <2> QED
    BY <2>3, SMT DEF s
<1>2. NewProgram(<<ShutdownShardServer(i)>>, "shardkv")
  <2> DEFINE A == ShardShutNames
             s == ShutdownShardServer(i)
  <2>0. Apart(A, LinkingNames)
    BY DEF Apart, LinkingNames, ShardShutNames, DownNames
  <2>1. OneTask(A, "kill")
    BY <2>0, LinklessTask
  <2>4. /\ A \subseteq StepsOf("shardkv")
        /\ "unlink out" \in {"make", "make enabled", "unlink out", "link out"}
    BY DEF ShardShutNames, DownNames, StepsOf
  <2>2. Is(s, i, "unlink out", "kill", A) /\ Severs(s)
    BY ShardShutdownIs
  <2> HIDE DEF A, s
  <2>3. NewProgram(<<s>>, "shardkv")
    BY <2>1, <2>2, <2>4, SingleNew
  <2> QED
    BY <2>3, SMT DEF s
<1>3. ASSUME NEW name \in MakeNames, NEW what, {name, "serve"} \subseteq StepsOf(what)
      PROVE  NewProgram(<< <<Op(name, i), Op("serve", i)>> >>, what)
  <2> DEFINE A == {name, "serve"}
             s == <<Op(name, i), Op("serve", i)>>
  <2>1. /\ OneTask(A, "serve") /\ "kill" \notin A
        /\ name \in {"make", "make enabled", "unlink out", "link out"} /\ A \subseteq StepsOf(what)
    BY <1>3 DEF OneTask, Apart, LinkingNames, MakeNames
  <2>2. Is(s, i, name, "serve", A)
    BY MadeIs
  <2> HIDE DEF A, s
  <2>3. Severs(s)
    BY <2>1, <2>2, NamesOfScript
  <2>4. NewProgram(<<s>>, what)
    BY <2>1, <2>2, <2>3, SingleNew
  <2> QED
    BY <2>4, SMT DEF s
<1>4. /\ "make" \in MakeNames /\ {"make", "serve"} \subseteq StepsOf("kvraft")
      /\ "make enabled" \in MakeNames /\ {"make enabled", "serve"} \subseteq StepsOf("shardkv")
  BY DEF MakeNames, StepsOf
<1>5. NewProgram(<<StartServer(i)>>, "kvraft") /\ NewProgram(<<StartShardServer(i)>>, "shardkv")
  BY <1>3, <1>4 DEF StartServer, StartShardServer
<1> QED
  BY <1>1, <1>2, <1>5, SMT

\* partition.
LEMMA PartitionProgram ==
  \A n, m \in Nat : \A p \in [1 .. n -> Peers], q \in [1 .. m -> Peers] :
    /\ Program(partition(p, q)) /\ OfKind(partition(p, q), "kvraft")
    /\ Opened(partition(p, q), n + m) /\ Steady(partition(p, q), n + m)
    /\ JoinOf(partition(p, q), HalfProgram(p, q), n, HalfProgram(q, p), m)
    /\ HalfOf(HalfProgram(p, q), n, p, q) /\ HalfOf(HalfProgram(q, p), m, q, p)
<1>HalfIs.
    ASSUME NEW i \in Peers, NEW n, NEW p, List(p, n), NEW m, NEW q, List(q, m)
    PROVE  /\ Is(HalfScript(i, p, q), i, "unlink out", "link in", UnlinkNames \cup LinkNames)
           /\ \A name, j : Has(HalfScript(i, p, q), name, j) <=>
                \/ name \in UnlinkNames /\ j \in Range(q)
                \/ name \in LinkNames /\ j \in Range(p)
  <2> USE <1>HalfIs
  <2> DEFINE s == disconnectUnlocked(i, q)
             t == connectUnlocked(i, p)
             A == UnlinkNames
             B == LinkNames
  <2>1. /\ Is(s, i, "unlink out", "unlink in", A)
        /\ \A name, j : Has(s, name, j) <=> name \in UnlinkNames /\ j \in Range(q)
    BY UnlinkIs
  <2>2. /\ Is(t, i, "link out", "link in", B)
        /\ \A name, j : Has(t, name, j) <=> name \in LinkNames /\ j \in Range(p)
    BY LinkIs
  <2>3. "unlink in" \in Before("link out") /\ B \cap MakeNames = {} /\ "kill" \notin B
    BY DEF Before, LinkNames, MakeNames
  <2> HIDE DEF s, t, A, B
  <2>4. Is(s \o t, i, "unlink out", "link in", A \cup B) /\ Script(s) /\ Script(t)
    BY <2>1, <2>2, <2>3, JoinedIs
  <2>5. ASSUME NEW name, NEW j PROVE Has(s \o t, name, j) <=> Has(s, name, j) \/ Has(t, name, j)
    BY <2>4, HasJoined
  <2> QED
    BY <2>1, <2>2, <2>4, <2>5 DEF HalfScript, s, t, A, B
\* A half of a partition may be empty.
<1>EmptyEach.
    ASSUME NEW name, NEW i, NEW q \in [1 .. 0 -> Peers]
    PROVE  ForEach(name, i, q) \in Seq(Steps) /\ Len(ForEach(name, i, q)) = 0
  <2> USE <1>EmptyEach
  <2>1. ForEach(name, i, q) = [k \in 1 .. 0 |-> [op |-> name, i |-> i, j |-> q[k]]]
    BY DEF ForEach
  <2>2. 1 .. 0 = {} /\ 0 \in Nat
    BY SMT
  <2>3. ForEach(name, i, q) \in [1 .. 0 -> Steps]
    BY <2>1, <2>2
  <2> QED
    BY <2>2, <2>3, SMT
<1>JoinedEmpty.
    ASSUME NEW e \in Seq(Steps), Len(e) = 0, NEW s \in Seq(Steps)
    PROVE  e \o s = s
  <2> USE <1>JoinedEmpty
  <2> DEFINE t == e \o s
  <2>1. t \in Seq(Steps) /\ Len(t) = Len(s) /\ \A k \in 1 .. Len(s) : t[k] = s[k]
    BY SMT
  <2> HIDE DEF t
  <2>2. t = s
    BY <2>1, SameSequence, SMT
  <2> QED
    BY <2>2, SMT DEF t
<1>EmptyHalf.
    ASSUME NEW i, NEW p, NEW q \in [1 .. 0 -> Peers], Script(connectUnlocked(i, p))
    PROVE  HalfScript(i, p, q) = connectUnlocked(i, p) /\ Range(q) = {}
  <2> USE <1>EmptyHalf
  <2> DEFINE a == ForEach("unlink out", i, q)
             b == ForEach("unlink in", i, q)
             s == connectUnlocked(i, p)
  <2>1. a \in Seq(Steps) /\ Len(a) = 0 /\ b \in Seq(Steps) /\ Len(b) = 0
    BY <1>EmptyEach
  <2>2. s \in Seq(Steps)
    BY DEF Script
  <2>3. HalfScript(i, p, q) = (a \o b) \o s
    BY DEF HalfScript, disconnectUnlocked
  <2> HIDE DEF a, b, s
  <2>4. a \o b = b
    BY <2>1, <1>JoinedEmpty
  <2>5. b \o s = s
    BY <2>1, <2>2, <1>JoinedEmpty
  <2>6. 1 .. 0 = {}
    BY SMT
  <2>7. Range(q) = {}
    BY <2>6 DEF Range
  <2> QED
    BY <2>3, <2>4, <2>5, <2>7 DEF s
<1>AnyHalfIs.
    ASSUME NEW i \in Peers, NEW n, NEW p, List(p, n), NEW m \in Nat, NEW q \in [1 .. m -> Peers],
           NEW s, s = HalfScript(i, p, q)
    PROVE  /\ Is(s, i, "unlink out", "link in", HalfNames) \/ Is(s, i, "link out", "link in", HalfNames)
           /\ HalfHas(s, p, q)
  <2> USE <1>AnyHalfIs
  <2>1. CASE m # 0
    <3>1. List(q, m)
      BY <2>1, SMT DEF List
    <3>2. Is(HalfScript(i, p, q), i, "unlink out", "link in", UnlinkNames \cup LinkNames)
      BY <3>1, <1>HalfIs
    <3>3. HalfHas(HalfScript(i, p, q), p, q)
      BY <3>1, <1>HalfIs DEF HalfHas
    <3> QED
      BY <3>2, <3>3 DEF HalfNames
  <2>2. CASE m = 0
    <3> DEFINE t == connectUnlocked(i, p)
    <3>1. Is(t, i, "link out", "link in", LinkNames)
      BY LinkIs
    <3>2. \A name, j : Has(t, name, j) <=> name \in LinkNames /\ j \in Range(p)
      BY LinkIs
    <3>3. HalfScript(i, p, q) = t /\ Range(q) = {}
      BY <2>2, <3>1, <1>EmptyHalf DEF Is
    <3> HIDE DEF t
    <3>4. Is(t, i, "link out", "link in", HalfNames)
      BY <3>1 DEF Is, HalfNames
    <3>5. HalfHas(t, p, q)
      BY <3>2, <3>3 DEF HalfHas
    <3> QED
      BY <3>3, <3>4, <3>5
  <2> QED
    BY <2>1, <2>2
<1>HalfOpened.
    ASSUME NEW n \in Nat, NEW m \in Nat, NEW p \in [1 .. n -> Peers], NEW q \in [1 .. m -> Peers],
           NEW h, h = HalfProgram(p, q)
    PROVE  /\ Opened(h, n) /\ Steady(h, n) /\ OfKind(h, "kvraft")
           /\ HalfOf(h, n, p, q)
  <2> USE <1>HalfOpened
  <2>1. /\ HalfNames \cap MakeNames = {} /\ "kill" \notin HalfNames /\ HalfNames \subseteq StepsOf("kvraft")
    BY DEF HalfNames, LinkNames, UnlinkNames, MakeNames, StepsOf
  <2>2. h = [k \in 1 .. n |-> h[k]] /\ \A k \in 1 .. n : h[k] = HalfScript(p[k], p, q)
    BY DEF HalfProgram
  <2>3. ASSUME NEW k \in 1 .. n
        PROVE  /\ \/ Is(h[k], p[k], "unlink out", "link in", HalfNames)
                  \/ Is(h[k], p[k], "link out", "link in", HalfNames)
               /\ HalfHas(h[k], p, q)
    <3>1. n # 0 /\ p[k] \in Peers
      BY <2>3, SMT
    <3>2. List(p, n)
      BY <3>1, SMT DEF List
    <3> QED
      BY <2>2, <3>1, <3>2, <1>AnyHalfIs
  <2>4. ASSUME NEW k \in 1 .. n
        PROVE  /\ Script(h[k]) /\ Opening(h[k]) /\ Full(h[k]) /\ Named(h[k], HalfNames)
               /\ ~Makes(h[k]) /\ h[k][Len(h[k])].op # "kill" /\ h[k][1].i = p[k]
    <3>0. PICK f \in {"unlink out", "link out"} : Is(h[k], p[k], f, "link in", HalfNames)
      BY <2>3
    <3>1. h[k][Len(h[k])].op = "link in" /\ Named(h[k], HalfNames) /\ h[k][1].i = p[k]
      BY <3>0 DEF Is, Named
    <3>2. ~Makes(h[k]) /\ Severs(h[k])
      BY <2>1, <3>0, NamesOfScript
    <3>3. f \in {"make", "make enabled", "unlink out", "link out"}
      BY <3>0
    <3>4. Script(h[k]) /\ Opening(h[k]) /\ Full(h[k])
      BY <3>0, <3>2, <3>3, IsOpening
    <3> QED
      BY <3>1, <3>2, <3>4
  <2>5. Opened(h, n)
    BY <2>2, <2>4, ManyOpened
  <2>6. OfKind(h, "kvraft")
    BY <2>1, <2>4, <2>5, ManyOfKind
  <2> QED
    BY <2>3, <2>4, <2>5, <2>6 DEF Steady, HalfOf
<1>PartitionProgram.
    ASSUME NEW n \in Nat, NEW m \in Nat, NEW p \in [1 .. n -> Peers], NEW q \in [1 .. m -> Peers]
    PROVE  /\ Program(partition(p, q)) /\ OfKind(partition(p, q), "kvraft")
           /\ Opened(partition(p, q), n + m) /\ Steady(partition(p, q), n + m)
           /\ JoinOf(partition(p, q), HalfProgram(p, q), n, HalfProgram(q, p), m)
           /\ HalfOf(HalfProgram(p, q), n, p, q) /\ HalfOf(HalfProgram(q, p), m, q, p)
  <2> USE <1>PartitionProgram
  <2> DEFINE g == HalfProgram(p, q)
             h == HalfProgram(q, p)
             r == g \o h
             M == n + m
  <2>1. partition(p, q) = r
    BY DEF partition, HalfProgram, HalfScript
  <2>2. /\ Opened(g, n) /\ Steady(g, n) /\ OfKind(g, "kvraft")
        /\ Opened(h, m) /\ Steady(h, m) /\ OfKind(h, "kvraft")
        /\ HalfOf(g, n, p, q) /\ HalfOf(h, m, q, p)
    BY <1>HalfOpened
  <2> HIDE DEF g, h
  <2>3. Opened(r, M) /\ JoinOf(r, g, n, h, m) /\ OfKind(r, "kvraft")
    BY <2>2, JoinedOpened, JoinedOfKind
  <2>4. /\ \A k \in 1 .. M : k \in 1 .. n \/ \E x \in 1 .. m : k = n + x
        /\ \A k \in 1 .. n : r[k] = g[k]
        /\ \A x \in 1 .. m : r[n + x] = h[x]
    BY <2>3 DEF JoinOf
  <2> HIDE DEF r, M
  <2>5. Steady(r, M)
    <3>1. SUFFICES ASSUME NEW k \in 1 .. M PROVE ~Makes(r[k]) /\ r[k][Len(r[k])].op # "kill"
      BY DEF Steady
    <3>2. CASE k \in 1 .. n
      BY <2>2, <2>4, <3>2 DEF Steady
    <3>3. ASSUME NEW x \in 1 .. m, k = n + x PROVE ~Makes(r[k]) /\ r[k][Len(r[k])].op # "kill"
      <4>1. r[k] = h[x]
        BY <2>4, <3>3
      <4> QED
        BY <2>2, <4>1 DEF Steady
    <3> QED
      BY <2>4, <3>2, <3>3
  <2>6. Program(r)
    BY <2>3, <2>5, SteadyProgram
  <2> QED
    BY <2>1, <2>2, <2>3, <2>5, <2>6 DEF g, h, M
<1> QED
  BY <1>PartitionProgram

LEMMA JoinedProgram ==
  ASSUME NEW p, NEW n, Opened(p, n), InOrder(p, n), Linkless(p, n),
         \A k \in 1 .. n : p[k][Len(p[k])].op # "kill",
         NEW q, NEW m, Opened(q, m), Steady(q, m)
  PROVE  Program(p \o q)
<1> DEFINE r == p \o q
           M == n + m
<1>1. n \in Nat /\ m \in Nat
  BY OpenedBasics
<1>2. /\ \A k \in 1 .. n : r[k] = p[k]
      /\ \A x \in 1 .. m : r[n + x] = q[x]
      /\ \A k \in 1 .. M : k \in 1 .. n \/ \E x \in 1 .. m : k = n + x
  <2>1. JoinOf(r, p, n, q, m)
    BY JoinedOpened
  <2> QED
    BY <2>1 DEF JoinOf
<1>3. Opened(r, M)
  BY JoinedOpened
<1>4. M \in Nat /\ \A k \in 1 .. n, x \in 1 .. m : k < n + x
  BY <1>1, SMT
<1> HIDE DEF r, M
<1>5. \A k \in 1 .. n : r[k][1].i = k - 1 /\ ~Links(r[k]) /\ r[k][Len(r[k])].op # "kill"
  BY <1>2 DEF InOrder, Linkless
<1>6. ASSUME NEW k \in 1 .. M, k \notin 1 .. n
      PROVE  ~Makes(r[k]) /\ r[k][Len(r[k])].op # "kill" /\ \A l \in 1 .. n : l < k
  <2>1. PICK x \in 1 .. m : k = n + x
    BY <1>2, <1>6
  <2>2. r[k] = q[x]
    BY <1>2, <2>1
  <2> QED
    BY <1>4, <2>1, <2>2 DEF Steady
<1>7. \A a, b \in 1 .. n : a - 1 = b - 1 => a = b
  BY <1>1, SMT
<1>8. ASSUME NEW a \in 1 .. M, NEW b \in 1 .. M
      PROVE  /\ Makes(r[a]) /\ Makes(r[b]) /\ r[a][1].i = r[b][1].i => a = b
             /\ Makes(r[a]) /\ Links(r[b]) => a < b
             /\ r[a][Len(r[a])].op # "kill"
  <2>1. Makes(r[a]) => a \in 1 .. n
    BY <1>6
  <2>2. Makes(r[b]) => b \in 1 .. n
    BY <1>6
  <2>3. Links(r[b]) => b \notin 1 .. n
    BY <1>5
  <2>4. Makes(r[a]) /\ Makes(r[b]) /\ r[a][1].i = r[b][1].i => a = b
    BY <1>5, <1>7, <2>1, <2>2
  <2>5. Makes(r[a]) /\ Links(r[b]) => a < b
    BY <1>6, <2>1, <2>3
  <2>6. r[a][Len(r[a])].op # "kill"
    BY <1>5, <1>6
  <2> QED
    BY <2>4, <2>5, <2>6
<1>9. Len(r) = M
  BY <1>3, OpenedBasics
<1>10. Program(r)
  BY <1>3, <1>8, <1>9, OpenedBasics DEF Program
<1> QED
  BY <1>10, SMT DEF r

\* What the tests of Raft begin with.
LEMMA MakeConfigProgram ==
  /\ Program(make_config) /\ OfKind(make_config, "raft") /\ Opened(make_config, N + N)
  /\ \E p, q : /\ JoinOf(make_config, p, N, q, N) /\ Opened(p, N) /\ Opened(q, N)
               /\ \A k \in 1 .. N : p[k] = start1(k - 1) /\ q[k] = connect(k - 1)
<1> DEFINE p == [k \in 1 .. N |-> start1(k - 1)]
           q == [k \in 1 .. N |-> connect(k - 1)]
           A == CrashNames \cup {"make", "serve"}
           B == {"attach", "enable out", "enable in"}
<1>0. N \in Nat
  BY RaftConfigAssumption, SMT
<1>1. /\ A \cap {"attach", "link out", "link in"} = {}
      /\ B \cap MakeNames = {} /\ "kill" \notin B
  BY DEF CrashNames, DownNames, MakeNames
<1>2. ASSUME NEW k \in 1 .. N
      PROVE  /\ Is(p[k], k - 1, "detach", "serve", A) /\ Severs(p[k]) /\ Thorough(p[k], "disable out", "disable in")
             /\ Is(q[k], k - 1, "attach", "enable in", B) /\ Thorough(q[k], "enable out", "enable in")
  BY ConnectIs, StartIs, PeerOf
<1>3. p = [k \in 1 .. N |-> p[k]] /\ q = [k \in 1 .. N |-> q[k]] /\ make_config = p \o q
  BY DEF make_config
<1>4. \A k \in 1 .. N : p[k] = start1(k - 1) /\ q[k] = connect(k - 1)
  OBVIOUS
<1> HIDE DEF p, q, A, B
<1>5. ASSUME NEW k \in 1 .. N
      PROVE  /\ Script(p[k]) /\ Opening(p[k]) /\ Full(p[k])
             /\ p[k][1].i = k - 1 /\ ~Links(p[k]) /\ p[k][Len(p[k])].op # "kill"
  <2>1. p[k][1].i = k - 1 /\ p[k][Len(p[k])].op = "serve"
    BY <1>2 DEF Is
  <2>2. ~Links(p[k])
    BY <1>1, <1>2, NamesOfScript
  <2>3. Script(p[k]) /\ Opening(p[k]) /\ Full(p[k])
    BY <1>2, IsOpening
  <2> QED
    BY <2>1, <2>2, <2>3, SMT
<1>6. ASSUME NEW k \in 1 .. N
      PROVE  /\ Script(q[k]) /\ Opening(q[k]) /\ Full(q[k])
             /\ ~Makes(q[k]) /\ q[k][Len(q[k])].op # "kill"
  <2>1. q[k][Len(q[k])].op = "enable in"
    BY <1>2 DEF Is
  <2>2. ~Makes(q[k]) /\ Severs(q[k])
    BY <1>1, <1>2, NamesOfScript
  <2>3. Script(q[k]) /\ Opening(q[k]) /\ Full(q[k])
    BY <1>2, <2>2, IsOpening
  <2> QED
    BY <2>1, <2>2, <2>3
<1>7. Opened(p, N) /\ InOrder(p, N) /\ Linkless(p, N)
  BY <1>0, <1>3, <1>5, ManyOpened DEF InOrder, Linkless
<1>8. Opened(q, N) /\ Steady(q, N)
  BY <1>0, <1>3, <1>6, ManyOpened DEF Steady
<1>9. Program(p \o q)
  BY <1>5, <1>7, <1>8, JoinedProgram
<1>10. JoinOf(p \o q, p, N, q, N) /\ Opened(p \o q, N + N)
  BY <1>7, <1>8, JoinedOpened
<1>11. /\ JoinOf(make_config, p, N, q, N) /\ Opened(p, N) /\ Opened(q, N)
       /\ \A k \in 1 .. N : p[k] = start1(k - 1) /\ q[k] = connect(k - 1)
  BY <1>3, <1>4, <1>7, <1>8, <1>10
<1>12. OfKind(p \o q, "raft")
  <2>1. A \subseteq StepsOf("raft") /\ B \subseteq StepsOf("raft")
    BY DEF A, B, StepsOf, CrashNames, DownNames
  <2>2. \A k \in 1 .. N : Named(p[k], A) /\ Named(q[k], B)
    BY <1>2 DEF Is, Named
  <2>3. OfKind(p, "raft") /\ OfKind(q, "raft")
    BY <1>7, <1>8, <2>1, <2>2, ManyOfKind
  <2> QED
    BY <1>7, <1>8, <2>3, JoinedOfKind
<1>13. Program(make_config) /\ OfKind(make_config, "raft") /\ Opened(make_config, N + N)
  BY <1>3, <1>9, <1>10, <1>12
<1> QED
  BY <1>11, <1>13

\* What the tests of the services begin with.
LEMMA MakeKvConfigProgram ==
  /\ Program(make_kv_config) /\ OfKind(make_kv_config, "kvraft") /\ Opened(make_kv_config, N + N)
  /\ \E p : JoinOf(make_kv_config, p, N, ConnectAll, N) /\ Opened(p, N) /\ Starts(p, "make")
<1> DEFINE p == [k \in 1 .. N |-> StartServer(k - 1)]
<1>1. p = [k \in 1 .. N |-> p[k]] /\ make_kv_config = p \o ConnectAll /\ Starts(p, "make")
  BY DEF make_kv_config, Starts, StartServer
<1> HIDE DEF p
<1>2. "make" \in MakeNames /\ {"make", "serve"} \subseteq StepsOf("kvraft")
  BY DEF MakeNames, StepsOf
<1>3. /\ Opened(p, N) /\ InOrder(p, N) /\ Linkless(p, N)
      /\ \A k \in 1 .. N : p[k][Len(p[k])].op # "kill" /\ Named(p[k], {"make", "serve"})
  BY <1>1, <1>2, StartsOpened
<1>4. OfKind(p, "kvraft")
  BY <1>2, <1>3, ManyOfKind
<1>5. Program(p \o ConnectAll)
  BY <1>3, ConnectAllOpened, JoinedProgram
<1>6. OfKind(p \o ConnectAll, "kvraft")
  BY <1>3, <1>4, ConnectAllOpened, JoinedOfKind
<1>7. JoinOf(p \o ConnectAll, p, N, ConnectAll, N) /\ Opened(p \o ConnectAll, N + N)
  BY <1>3, ConnectAllOpened, JoinedOpened
<1>8. JoinOf(make_kv_config, p, N, ConnectAll, N) /\ Opened(p, N) /\ Starts(p, "make")
  BY <1>1, <1>3, <1>7
<1>9. Program(make_kv_config) /\ OfKind(make_kv_config, "kvraft") /\ Opened(make_kv_config, N + N)
  BY <1>1, <1>5, <1>6, <1>7
<1> QED
  BY <1>8, <1>9
=============================================================================
