-------------------------- MODULE ScraperRound_proofs --------------------------
(***************************************************************************)
(* Proofs about ScraperRound and about the crawl each of its jobs makes,   *)
(* for any number of concurrent jobs, cards, rows, products and pages.     *)
(*                                                                         *)
(* First the spacing of requests (HostPacing), for any interval, whatever  *)
(* jobs do, are cancelled at or die of between two requests. Then the      *)
(* loads (SharedListings), however their row locks and those of a removal  *)
(* interleave and whichever of them PostgreSQL aborts. Last what a job     *)
(* finds, loads and takes for empty (SearchCrawl, PageReadings), whatever  *)
(* the store answers.                                                      *)
(***************************************************************************)
EXTENDS PageReadings, ScraperRound, FiniteSetTheorems, SequenceTheorems,
        WellFoundedInduction, TLAPS

Turns == Pacing!Turns

(* The time of n turns.                                                    *)
Span(n) == n * Interval

(* The line holds the jobs that wait for the lock, each of them once.      *)
InLine ==
    /\ \A i \in 1 .. Len(line) : call[line[i]].phase = "line"
    /\ \A i, j \in 1 .. Len(line) : line[i] = line[j] => i = j
    /\ \A s \in Loaders : call[s].phase = "line" =>
          \E i \in 1 .. Len(line) : line[i] = s

(* One job at a time sleeps with the lock, until the interval has passed;  *)
(* what it has waited and has to sleep fits into the turns, and so does    *)
(* that of the i-th in the line: the sleep of the one before it all, and   *)
(* i turns.                                                                *)
Asleep ==
    \A s \in Loaders : call[s].phase = "nap" =>
        /\ \A t \in Loaders : call[t].phase = "nap" => t = s
        /\ since + call[s].nap >= Interval
        /\ call[s].waited + call[s].nap <= Turns
        /\ \A i \in 1 .. Len(line) :
              call[line[i]].waited + call[s].nap + Span(i) <= Turns

(* With the lock free the first in the line sleeps what is left of the     *)
(* interval, and each other one a turn more.                               *)
Awake ==
    Pacing!Free => \A i \in 1 .. Len(line) :
        call[line[i]].waited + (Interval - since) + Span(i - 1) <= Turns

Unasked == \A s \in Loaders : call[s].phase \in {"off", "send"} => call[s].waited = 0

IInv == Pacing!TypeOK /\ InLine /\ Asleep /\ Awake /\ Unasked

Calls == [phase : {"off", "line", "nap", "send"},
          nap : 0 .. Interval, waited : 0 .. Turns + 1]

-----------------------------------------------------------------------------
(* Turns, and how many jobs a line can hold.                               *)

LEMMA Spans ==
    /\ Interval \in Nat /\ Turns \in Nat /\ Turns = Span(Cardinality(Loaders))
    /\ Cardinality(Loaders) \in Nat /\ IsFiniteSet(Loaders)
    /\ Span(0) = 0
    /\ \A n \in Nat : Span(n) \in Nat /\ Span(n + 1) = Span(n) + Interval
    /\ \A m, n \in Nat : m <= n => Span(m) <= Span(n)
<1>1. Interval \in Nat /\ IsFiniteSet(Loaders) BY PacingAssumption
<1>2. Cardinality(Loaders) \in Nat BY <1>1, FS_CardinalityType
<1>3. \A n \in Nat : Span(n) \in Nat /\ Span(n + 1) = Span(n) + Interval
  BY <1>1 DEF Span
<1>4. ASSUME NEW m \in Nat, NEW n \in Nat, m <= n PROVE Span(m) <= Span(n)
  <2>1. n - m \in Nat BY <1>4
  <2>2. Span(n - m) \in Nat BY <1>3, <2>1
  <2>3. n * Interval = m * Interval + (n - m) * Interval BY <1>1, <1>4
  <2> QED BY <1>3, <2>2, <2>3 DEF Span
<1>5. Span(0) = 0 BY <1>1 DEF Span
<1>6. Turns = Span(Cardinality(Loaders)) 
  BY DEF Turns, Pacing!Turns, Span, Pacing!Cardinality, Cardinality
<1> QED BY <1>1, <1>2, <1>3, <1>4, <1>5, <1>6

(* Sums: a turn and the turns before it, and a unit slept and waited.      *)
LEMMA TurnMoves ==
    ASSUME NEW w \in Nat, NEW nap \in Nat, NEW ago \in Nat, NEW turn \in Nat,
           NEW all \in Nat, NEW m \in Nat, NEW n \in Nat, NEW k \in Nat,
           w + nap + n <= all, n = m + turn, k <= m
    PROVE  w + (turn - ago) + k <= all
<1>1. w + n <= all OBVIOUS
<1>2. w + turn + k <= all BY <1>1
<1> QED BY <1>2

LEMMA UnitMoves ==
    ASSUME NEW w \in Nat, NEW nap \in Nat, NEW n \in Nat, NEW all \in Nat,
           nap >= 1, w + nap + n <= all
    PROVE  (w + 1) + (nap - 1) + n <= all
<1>1. (w + 1) + (nap - 1) = w + nap OBVIOUS
<1> QED BY <1>1

LEMMA LineFits ==
    ASSUME NEW q \in Seq(Loaders), NEW S \in SUBSET Loaders,
           \A i, j \in 1 .. Len(q) : q[i] = q[j] => i = j,
           \A i \in 1 .. Len(q) : q[i] \notin S
    PROVE  Len(q) <= Cardinality(Loaders \ S)
<1>1. Len(q) \in Nat /\ \A i \in 1 .. Len(q) : q[i] \in Loaders \ S
  OBVIOUS
<1> DEFINE f == [i \in 1 .. Len(q) |-> q[i]]
<1>2. f \in Injection(1 .. Len(q), Loaders \ S)
  BY <1>1 DEF Injection, IsInjective
<1>3. IsFiniteSet(Loaders \ S) BY Spans, FS_Subset
<1>4. Cardinality(1 .. Len(q)) <= Cardinality(Loaders \ S)
  BY <1>2, <1>3, FS_Injection
<1>5. Cardinality(1 .. Len(q)) = Len(q)
  <2>1. 1 \in Int /\ Len(q) \in Int BY <1>1
  <2>2. Cardinality(1 .. Len(q)) = IF 1 > Len(q) THEN 0 ELSE Len(q) - 1 + 1
    BY <2>1, FS_Interval
  <2> QED BY <1>1, <2>2
<1> QED BY <1>4, <1>5

LEMMA RemoveAtProperties ==
    ASSUME NEW S, NEW q \in Seq(S), NEW i \in 1 .. Len(q)
    PROVE  /\ RemoveAt(q, i) \in Seq(S)
           /\ Len(RemoveAt(q, i)) = Len(q) - 1
           /\ \A j \in 1 .. Len(q) - 1 :
                RemoveAt(q, i)[j] = IF j < i THEN q[j] ELSE q[j + 1]
<1> DEFINE before == SubSeq(q, 1, i - 1)
           after == SubSeq(q, i + 1, Len(q))
<1>1. Len(q) \in Nat /\ \A j \in 1 .. Len(q) : q[j] \in S
  OBVIOUS
<1>2. /\ before \in Seq(S)
      /\ Len(before) = i - 1
      /\ \A j \in 1 .. i - 1 : before[j] = q[j]
  <2>1. 1 \in Int /\ i - 1 \in Int /\ \A j \in 1 .. i - 1 : q[j] \in S BY <1>1
  <2>2. /\ before \in Seq(S)
        /\ Len(before) = IF 1 <= i - 1 THEN i - 1 - 1 + 1 ELSE 0
        /\ \A j \in 1 .. i - 1 - 1 + 1 : before[j] = q[1 + j - 1]
    BY <1>1, <2>1, SubSeqProperties
  <2>3. \A j \in 1 .. i - 1 : j \in 1 .. i - 1 - 1 + 1 /\ 1 + j - 1 = j
    BY <1>1
  <2> HIDE DEF before
  <2> QED BY <2>2, <2>3, <1>1
<1>3. /\ after \in Seq(S)
      /\ Len(after) = Len(q) - i
      /\ \A j \in 1 .. Len(q) - i : after[j] = q[i + j]
  <2>1. \A j \in i + 1 .. Len(q) : q[j] \in S BY <1>1
  <2>2. i + 1 \in Int /\ Len(q) \in Int BY <1>1
  <2>3. /\ after \in Seq(S)
        /\ Len(after) = IF i + 1 <= Len(q) THEN Len(q) - (i + 1) + 1 ELSE 0
        /\ \A j \in 1 .. Len(q) - (i + 1) + 1 : after[j] = q[i + 1 + j - 1]
    BY <2>1, <2>2, SubSeqProperties
  <2>4. \A j \in 1 .. Len(q) - i :
           j \in 1 .. Len(q) - (i + 1) + 1 /\ i + 1 + j - 1 = i + j
    BY <1>1
  <2> HIDE DEF after
  <2> QED BY <2>3, <2>4, <1>1
<1>4. RemoveAt(q, i) = before \o after BY DEF RemoveAt
<1> HIDE DEF before, after
<1>5. /\ before \o after \in Seq(S)
      /\ Len(before \o after) = Len(before) + Len(after)
      /\ \A j \in 1 .. Len(before) + Len(after) : (before \o after)[j] =
           IF j <= Len(before) THEN before[j] ELSE after[j - Len(before)]
  BY <1>2, <1>3, ConcatProperties
<1>6. ASSUME NEW j \in 1 .. Len(q) - 1
      PROVE  (before \o after)[j] = IF j < i THEN q[j] ELSE q[j + 1]
  <2>1. j \in 1 .. Len(before) + Len(after) BY <1>1, <1>2, <1>3
  <2>2. CASE j < i
    <3>1. j <= Len(before) /\ j \in 1 .. i - 1 BY <2>2, <1>1, <1>2
    <3> QED BY <2>1, <2>2, <3>1, <1>2, <1>5
  <2>3. CASE ~(j < i)
    <3>1. /\ ~(j <= Len(before))
          /\ j - Len(before) = j - i + 1
          /\ j - i + 1 \in 1 .. Len(q) - i
          /\ i + (j - i + 1) = j + 1
      BY <2>3, <1>1, <1>2
    <3> QED BY <2>1, <2>3, <3>1, <1>3, <1>5
  <2> QED BY <2>2, <2>3
<1> QED BY <1>1, <1>2, <1>3, <1>4, <1>5, <1>6

LEMMA CallTypes ==
    ASSUME IInv, NEW s \in Loaders
    PROVE  /\ call \in [Loaders -> Calls] /\ call[s] \in Calls
           /\ call[s].nap \in Nat /\ call[s].waited \in Nat
           /\ call[s].nap <= Interval
           /\ since \in Nat /\ since <= Interval
<1>1. call \in [Loaders -> Calls] BY DEF IInv, Pacing!TypeOK, Calls, Turns
<1>2. since \in 0 .. Interval BY DEF IInv, Pacing!TypeOK
<1>3. call[s] \in Calls BY <1>1
<1>4. call[s].nap \in 0 .. Interval /\ call[s].waited \in 0 .. Turns + 1
  BY <1>3 DEF Calls
<1>5. Interval \in Nat /\ Turns \in Nat BY Spans
<1>6. /\ call[s].nap \in Nat /\ call[s].nap <= Interval
      /\ since \in Nat /\ since <= Interval
  BY <1>2, <1>4, <1>5
<1>7. call[s].waited \in Nat BY <1>4, <1>5
<1> QED BY <1>1, <1>3, <1>6, <1>7

LEMMA LineTypes ==
    ASSUME IInv
    PROVE  /\ line \in Seq(Loaders) /\ Len(line) \in Nat
           /\ \A i \in 1 .. Len(line) : line[i] \in Loaders
  BY DEF IInv, Pacing!TypeOK

LEMMA NoRequestTypes ==
    /\ Pacing!NoRequest \in Calls /\ Pacing!NoRequest.phase = "off"
    /\ Pacing!NoRequest.waited = 0
<1>1. 0 \in 0 .. Interval /\ 0 \in 0 .. Turns + 1 BY Spans
<1> QED BY <1>1 DEF Pacing!NoRequest, Calls

-----------------------------------------------------------------------------
(* The steps of the spacing.                                               *)

LEMMA ResetHolds ==
    ASSUME since' = Interval, line' = << >>,
           call' = [s \in Loaders |-> Pacing!NoRequest]
    PROVE  IInv'
<1>1. \A s \in Loaders : call'[s].phase = "off" /\ call'[s].waited = 0
  BY NoRequestTypes
<1>2. line' \in Seq(Loaders) /\ Len(line') = 0
  OBVIOUS
<1>3. call' \in [Loaders -> Calls] BY NoRequestTypes
<1>4. Pacing!TypeOK' BY <1>2, <1>3, Spans DEF Pacing!TypeOK, Calls, Turns
<1>5. 1 .. Len(line') = {} BY <1>2
<1> QED BY <1>1, <1>4, <1>5 DEF IInv, InLine, Asleep, Awake, Unasked

LEMMA AskHolds ==
    ASSUME IInv, NEW s \in Loaders, Pacing!Ask(s)
    PROVE  IInv'
<1>1. /\ call[s].phase = "off" /\ call' = [call EXCEPT ![s].phase = "line"]
      /\ line' = Append(line, s) /\ since' = since
  BY DEF Pacing!Ask
<1>2. call \in [Loaders -> Calls] BY CallTypes
<1>3. call[s].waited = 0 BY <1>1 DEF IInv, Unasked
<1>4. /\ call' \in [Loaders -> Calls]
      /\ call'[s].phase = "line" /\ call'[s].waited = 0
      /\ \A t \in Loaders \ {s} : call'[t] = call[t]
  BY <1>1, <1>2, <1>3 DEF Calls
<1> DEFINE n == Len(line)
<1>5. /\ line \in Seq(Loaders) /\ n \in Nat
      /\ \A i \in 1 .. n : line[i] \in Loaders /\ call[line[i]].phase = "line"
  BY LineTypes DEF IInv, InLine
<1>6. /\ line' \in Seq(Loaders) /\ Len(line') = n + 1
      /\ line'[n + 1] = s /\ \A i \in 1 .. n : line'[i] = line[i]
  BY <1>1, <1>5
<1> HIDE DEF n
<1>7. \A i \in 1 .. n : line[i] # s /\ call'[line[i]] = call[line[i]]
  BY <1>1, <1>4, <1>5
<1>8. Pacing!TypeOK'
  BY <1>1, <1>4, <1>6 DEF IInv, Pacing!TypeOK, Calls, Turns
<1>9. \A i \in 1 .. n + 1 : i \in 1 .. n \/ i = n + 1 BY <1>5
<1>10. InLine'
  <2>1. \A i \in 1 .. n + 1 : call'[line'[i]].phase = "line"
    BY <1>4, <1>5, <1>6, <1>7, <1>9
  <2>2. \A i, j \in 1 .. n : line[i] = line[j] => i = j
    BY DEF IInv, InLine, n
  <2>3. \A i, j \in 1 .. n + 1 : line'[i] = line'[j] => i = j
    BY <1>6, <1>7, <1>9, <2>2
  <2>4. ASSUME NEW t \in Loaders, call'[t].phase = "line"
        PROVE  \E i \in 1 .. n + 1 : line'[i] = t
    <3>1. CASE t = s BY <1>5, <1>6, <3>1
    <3>2. CASE t # s
      <4>1. PICK i \in 1 .. n : line[i] = t
        BY <1>4, <2>4, <3>2 DEF IInv, InLine, n
      <4> QED BY <1>5, <1>6, <4>1
    <3> QED BY <3>1, <3>2
  <2> QED BY <1>6, <2>1, <2>3, <2>4 DEF InLine
<1>11. Unasked' BY <1>4 DEF IInv, Unasked
<1>12. /\ Interval \in Nat /\ since \in Nat /\ Span(n) \in Nat /\ Span(n + 1) \in Nat
       /\ Span(n + 1) = Span(n) + Interval
  <2>1. Interval \in Nat /\ since \in Nat BY Spans, CallTypes
  <2>2. n + 1 \in Nat BY <1>5
  <2>3. /\ Span(n) \in Nat /\ Span(n + 1) \in Nat
        /\ Span(n + 1) = Span(n) + Interval
    BY <1>5, <2>2, Spans
  <2> QED BY <2>1, <2>3
<1>13. \A i, j \in 1 .. n : line[i] = line[j] => i = j BY DEF IInv, InLine, n
(* With the lock free there is room for this turn.                         *)
<1>14. Span(n + 1) <= Turns
  <2>1. n <= Cardinality(Loaders \ {s}) BY <1>5, <1>7, <1>13, LineFits DEF n
  <2>2. Cardinality(Loaders \ {s}) = Cardinality(Loaders) - 1
    BY Spans, FS_RemoveElement
  <2>3. Cardinality(Loaders) \in Nat BY Spans
  <2>4. n + 1 \in Nat /\ n + 1 <= Cardinality(Loaders) BY <1>5, <2>1, <2>2, <2>3
  <2> QED BY <2>3, <2>4, Spans
(* With a job asleep there is room for its turn as well.                   *)
<1>15. ASSUME NEW t \in Loaders, call[t].phase = "nap"
       PROVE  call[t].nap + Span(n + 1) <= Turns
  <2>1. t # s /\ \A i \in 1 .. n : line[i] # t BY <1>1, <1>5, <1>15
  <2>2. n <= Cardinality(Loaders \ {s, t})
    BY <1>5, <1>7, <1>13, <2>1, LineFits DEF n
  <2>3. Cardinality(Loaders \ {s}) = Cardinality(Loaders) - 1
        /\ IsFiniteSet(Loaders \ {s})
    BY Spans, FS_RemoveElement
  <2>4. Cardinality((Loaders \ {s}) \ {t}) = Cardinality(Loaders \ {s}) - 1
    BY <2>1, <2>3, FS_RemoveElement
  <2>5. (Loaders \ {s}) \ {t} = Loaders \ {s, t}
    OBVIOUS
  <2>6. Cardinality(Loaders) \in Nat BY Spans
  <2>7. n + 1 + 1 \in Nat /\ n + 1 + 1 <= Cardinality(Loaders) /\ n + 1 \in Nat
    <3>1. Cardinality(Loaders \ {s, t}) = Cardinality(Loaders) - 1 - 1
      BY <2>3, <2>4, <2>5
    <3>2. n <= Cardinality(Loaders) - 1 - 1 BY <2>2, <3>1
    <3> QED BY <1>5, <2>6, <3>2
  <2>8. Span(n + 1 + 1) <= Turns BY <2>6, <2>7, Spans
  <2>9. Span(n + 1 + 1) = Span(n + 1) + Interval BY <2>7, Spans
  <2>10. call[t].nap \in Nat /\ call[t].nap <= Interval BY CallTypes
  <2>11. Turns \in Nat BY Spans
  <2> QED BY <1>12, <2>8, <2>9, <2>10, <2>11
<1>16. ASSUME NEW t \in Loaders, call'[t].phase = "nap"
       PROVE  t # s /\ call'[t] = call[t] /\ call[t].phase = "nap"
  BY <1>4, <1>16
<1>17. Asleep'
  <2> SUFFICES ASSUME NEW t \in Loaders, call'[t].phase = "nap"
               PROVE  /\ \A u \in Loaders : call'[u].phase = "nap" => u = t
                      /\ since + call'[t].nap >= Interval
                      /\ call'[t].waited + call'[t].nap <= Turns
                      /\ \A i \in 1 .. n + 1 :
                           call'[line'[i]].waited + call'[t].nap + Span(i) <= Turns
    BY <1>1, <1>6 DEF Asleep, Turns, Pacing!Turns, Span
  <2>1. t # s /\ call'[t] = call[t] /\ call[t].phase = "nap" BY <1>16
  <2>2. /\ \A u \in Loaders : call[u].phase = "nap" => u = t
        /\ since + call[t].nap >= Interval
        /\ call[t].waited + call[t].nap <= Turns
        /\ \A i \in 1 .. n : call[line[i]].waited + call[t].nap + Span(i) <= Turns
    BY <2>1 DEF IInv, Asleep, n
  <2>3. \A u \in Loaders : call'[u].phase = "nap" => u = t BY <1>16, <2>2
  <2>4. call[t].nap \in Nat BY CallTypes
  <2>5. ASSUME NEW i \in 1 .. n + 1
        PROVE  call'[line'[i]].waited + call[t].nap + Span(i) <= Turns
    <3>1. CASE i \in 1 .. n BY <1>6, <1>7, <2>2, <3>1
    <3>2. CASE i = n + 1
      <4>1. call'[line'[i]].waited = 0 BY <1>4, <1>6, <3>2
      <4>2. call[t].nap + Span(i) <= Turns BY <1>15, <2>1, <3>2
      <4>3. Span(i) \in Nat BY <1>12, <3>2
      <4> QED BY <2>4, <4>1, <4>2, <4>3
    <3> QED BY <1>9, <3>1, <3>2
  <2> QED BY <2>1, <2>2, <2>3, <2>5
<1>18. Awake'
  <2> SUFFICES ASSUME Pacing!Free', NEW i \in 1 .. n + 1
               PROVE  call'[line'[i]].waited + (Interval - since) + Span(i - 1) <= Turns
    BY <1>1, <1>6 DEF Awake, Turns, Pacing!Turns, Span
  <2>1. Pacing!Free BY <1>1, <1>4 DEF Pacing!Free
  <2>2. CASE i \in 1 .. n
    BY <1>6, <1>7, <2>1, <2>2 DEF IInv, Awake, n
  <2>3. CASE i = n + 1
    <3>1. call'[line'[i]].waited = 0 BY <1>4, <1>6, <2>3
    <3>2. i - 1 = n BY <1>5, <2>3
    <3>3. Turns \in Nat BY Spans
    <3> QED BY <1>12, <1>14, <3>1, <3>2, <3>3
  <2> QED BY <1>9, <2>2, <2>3
<1> QED BY <1>8, <1>10, <1>11, <1>17, <1>18 DEF IInv

(* One job, the k-th, leaves the line.                                     *)
LEMMA Shorter ==
    ASSUME IInv, NEW k \in 1 .. Len(line), NEW q \in Seq(Loaders),
           Len(q) = Len(line) - 1,
           \A j \in 1 .. Len(line) - 1 : q[j] = IF j < k THEN line[j] ELSE line[j + 1]
    PROVE  /\ \A j \in 1 .. Len(q) : \E i \in 1 .. Len(line) :
                 j <= i /\ q[j] = line[i] /\ q[j] # line[k]
           /\ \A i, j \in 1 .. Len(q) : q[i] = q[j] => i = j
           /\ \A i \in 1 .. Len(line) : line[i] # line[k] =>
                 \E j \in 1 .. Len(q) : q[j] = line[i]
<1> DEFINE n == Len(line)
           from(j) == IF j < k THEN j ELSE j + 1
<1>1. n \in Nat /\ Len(q) = n - 1 /\ k \in 1 .. n BY LineTypes
<1>2. \A i, j \in 1 .. n : line[i] = line[j] => i = j BY DEF IInv, InLine
<1>3. \A j \in 1 .. n - 1 : q[j] = IF j < k THEN line[j] ELSE line[j + 1]
  OBVIOUS
<1> HIDE DEF n
<1>4. \A j \in 1 .. n - 1 : from(j) \in 1 .. n /\ j <= from(j) /\ from(j) # k
  BY <1>1
<1>5. \A i, j \in 1 .. n - 1 : from(i) = from(j) => i = j BY <1>1
<1>6. \A j \in 1 .. n - 1 : q[j] = line[from(j)]
  <2> SUFFICES ASSUME NEW j \in 1 .. n - 1 PROVE q[j] = line[from(j)]
    OBVIOUS
  <2>1. CASE j < k BY <1>3, <2>1
  <2>2. CASE ~ (j < k) BY <1>3, <2>2
  <2> QED BY <2>1, <2>2
<1>7. ASSUME NEW i \in 1 .. n, line[i] # line[k]
      PROVE  \E j \in 1 .. n - 1 : q[j] = line[i]
  <2>1. CASE i < k
    <3>1. i \in 1 .. n - 1 /\ from(i) = i BY <1>1, <2>1
    <3> QED BY <1>6, <3>1
  <2>2. CASE i > k
    <3>1. i - 1 \in 1 .. n - 1 /\ from(i - 1) = i BY <1>1, <2>2
    <3> QED BY <1>6, <3>1
  <2>3. i # k BY <1>7
  <2> QED BY <1>1, <2>1, <2>2, <2>3
<1> HIDE DEF from
<1>8. ASSUME NEW j \in 1 .. n - 1
      PROVE  \E i \in 1 .. n : j <= i /\ q[j] = line[i] /\ q[j] # line[k]
  <2>1. q[j] = line[from(j)] /\ from(j) \in 1 .. n /\ j <= from(j) BY <1>4, <1>6
  <2>2. line[from(j)] # line[k] BY <1>1, <1>2, <1>4
  <2> QED BY <2>1, <2>2
<1>9. \A i, j \in 1 .. n - 1 : q[i] = q[j] => i = j BY <1>2, <1>4, <1>5, <1>6
<1> QED BY <1>1, <1>7, <1>8, <1>9 DEF n

(* Who asks no more leaves the line and nothing else.                      *)
LEMMA StillInLine ==
    ASSUME IInv, NEW s \in Loaders, NEW r, r.phase # "line",
           call' = [call EXCEPT ![s] = r],
           line' \in Seq(Loaders),
           \/ line' = line /\ call[s].phase # "line"
           \/ \E k \in 1 .. Len(line) :
                 /\ line[k] = s /\ Len(line') = Len(line) - 1
                 /\ \A j \in 1 .. Len(line) - 1 :
                       line'[j] = IF j < k THEN line[j] ELSE line[j + 1]
    PROVE  /\ InLine'
           /\ \A j \in 1 .. Len(line') : \E i \in 1 .. Len(line) :
                 j <= i /\ line'[j] = line[i] /\ call'[line'[j]] = call[line[i]]
<1>1. /\ call \in [Loaders -> Calls] BY CallTypes
<1>2. call'[s].phase # "line" /\ \A t \in Loaders \ {s} : call'[t] = call[t] BY <1>1
<1>3. /\ Len(line) \in Nat
      /\ \A i \in 1 .. Len(line) : line[i] \in Loaders /\ call[line[i]].phase = "line"
      /\ \A i, j \in 1 .. Len(line) : line[i] = line[j] => i = j
      /\ \A t \in Loaders : call[t].phase = "line" =>
            \E i \in 1 .. Len(line) : line[i] = t
  BY LineTypes DEF IInv, InLine
<1>4. CASE line' = line /\ call[s].phase # "line"
  <2>1. \A i \in 1 .. Len(line) : line[i] # s BY <1>3, <1>4
  <2>2. \A i \in 1 .. Len(line) : call'[line[i]] = call[line[i]]
    BY <1>2, <1>3, <2>1
  <2>3. InLine' BY <1>2, <1>3, <1>4, <2>2 DEF InLine
  <2>4. \A i \in 1 .. Len(line) : i <= i BY <1>3
  <2> QED BY <1>4, <2>2, <2>3, <2>4
<1>5. ASSUME NEW k \in 1 .. Len(line), line[k] = s, Len(line') = Len(line) - 1,
             \A j \in 1 .. Len(line) - 1 :
                line'[j] = IF j < k THEN line[j] ELSE line[j + 1]
      PROVE  /\ InLine'
             /\ \A j \in 1 .. Len(line') : \E i \in 1 .. Len(line) :
                   j <= i /\ line'[j] = line[i] /\ call'[line'[j]] = call[line[i]]
  <2>1. /\ \A j \in 1 .. Len(line') : \E i \in 1 .. Len(line) :
              j <= i /\ line'[j] = line[i] /\ line'[j] # line[k]
        /\ \A i, j \in 1 .. Len(line') : line'[i] = line'[j] => i = j
        /\ \A i \in 1 .. Len(line) : line[i] # line[k] =>
              \E j \in 1 .. Len(line') : line'[j] = line[i]
    BY <1>5, Shorter, ZenonT(40)
  <2>2. ASSUME NEW j \in 1 .. Len(line')
        PROVE  /\ call'[line'[j]].phase = "line"
               /\ \E i \in 1 .. Len(line) :
                     j <= i /\ line'[j] = line[i] /\ call'[line'[j]] = call[line[i]]
    <3>1. PICK i \in 1 .. Len(line) : j <= i /\ line'[j] = line[i] /\ line'[j] # line[k]
      BY <2>1
    <3>2. line[i] \in Loaders \ {s} /\ call[line[i]].phase = "line" BY <1>3, <1>5, <3>1
    <3>3. call'[line'[j]] = call[line[i]] BY <1>2, <3>1, <3>2
    <3> QED BY <3>1, <3>2, <3>3
  <2>3. ASSUME NEW t \in Loaders, call'[t].phase = "line"
        PROVE  \E j \in 1 .. Len(line') : line'[j] = t
    <3>1. t # s /\ call[t].phase = "line" BY <1>2, <2>3
    <3>2. PICK i \in 1 .. Len(line) : line[i] = t BY <1>3, <3>1
    <3>3. PICK j \in 1 .. Len(line') : line'[j] = line[i] BY <1>5, <2>1, <3>1, <3>2
    <3> QED BY <3>2, <3>3
  <2> QED BY <2>1, <2>2, <2>3 DEF InLine
<1> QED BY <1>4, <1>5

(* What a request that begins, ends or is given up leaves.                 *)
LEMMA SentTypes ==
    /\ [Pacing!NoRequest EXCEPT !.phase = "send"] \in Calls
    /\ [Pacing!NoRequest EXCEPT !.phase = "send"].phase = "send"
    /\ [Pacing!NoRequest EXCEPT !.phase = "send"].waited = 0
<1>1. 0 \in 0 .. Interval /\ 0 \in 0 .. Turns + 1 BY Spans
<1> QED BY <1>1 DEF Pacing!NoRequest, Calls

LEMMA AnsweredHolds ==
    ASSUME IInv, NEW s \in Loaders, Pacing!Answered(s)
    PROVE  IInv'
<1>1. /\ call[s].phase = "send" /\ call' = [call EXCEPT ![s] = Pacing!NoRequest]
      /\ since' = since /\ line' = line
  BY DEF Pacing!Answered
<1>2. call \in [Loaders -> Calls] BY CallTypes
<1>3. /\ call' \in [Loaders -> Calls]
      /\ call'[s].phase = "off" /\ call'[s].waited = 0
      /\ \A t \in Loaders \ {s} : call'[t] = call[t]
  BY <1>1, <1>2, NoRequestTypes
<1>4. Pacing!TypeOK' BY <1>1, <1>3 DEF IInv, Pacing!TypeOK, Calls, Turns
<1>5. \A i \in 1 .. Len(line) : call'[line[i]] = call[line[i]]
  BY <1>1, <1>3, LineTypes DEF IInv, InLine
<1>6. InLine' BY <1>1, <1>3, <1>5 DEF IInv, InLine
<1>7. \A t \in Loaders : call'[t].phase = "nap" =>
         call'[t] = call[t] /\ call[t].phase = "nap"
  BY <1>3
<1>8. \A t \in Loaders : call[t].phase = "nap" => call'[t].phase = "nap"
  BY <1>1, <1>3
<1>9. Asleep'
  <2> SUFFICES ASSUME NEW t \in Loaders, call'[t].phase = "nap"
               PROVE  /\ \A u \in Loaders : call'[u].phase = "nap" => u = t
                      /\ since + call'[t].nap >= Interval
                      /\ call'[t].waited + call'[t].nap <= Turns
                      /\ \A i \in 1 .. Len(line) :
                           call'[line[i]].waited + call'[t].nap + Span(i) <= Turns
    BY <1>1 DEF Asleep, Turns, Pacing!Turns, Span
  <2> QED BY <1>5, <1>7 DEF IInv, Asleep
<1>10. Awake'
  <2> SUFFICES ASSUME Pacing!Free', NEW i \in 1 .. Len(line)
               PROVE  call'[line[i]].waited + (Interval - since) + Span(i - 1) <= Turns
    BY <1>1 DEF Awake, Turns, Pacing!Turns, Span
  <2>1. Pacing!Free BY <1>8 DEF Pacing!Free
  <2> QED BY <1>5, <2>1 DEF IInv, Awake
<1>11. Unasked' BY <1>3 DEF IInv, Unasked
<1> QED BY <1>4, <1>6, <1>9, <1>10, <1>11 DEF IInv

LEMMA WakeHolds ==
    ASSUME IInv, NEW s \in Loaders, Pacing!Wake(s)
    PROVE  IInv' /\ since >= Interval
<1>1. /\ call[s].phase = "nap" /\ call[s].nap = 0 /\ since' = 0 /\ line' = line
      /\ call' = [call EXCEPT ![s] = [Pacing!NoRequest EXCEPT !.phase = "send"]]
  BY DEF Pacing!Wake, Pacing!Due, Pacing!Sending
<1>2. call \in [Loaders -> Calls] /\ since \in Nat BY CallTypes
<1>3. /\ call' \in [Loaders -> Calls]
      /\ call'[s].phase = "send" /\ call'[s].waited = 0
      /\ \A t \in Loaders \ {s} : call'[t] = call[t]
  BY <1>1, <1>2, SentTypes
<1>4. /\ \A t \in Loaders : call[t].phase = "nap" => t = s
      /\ since + 0 >= Interval
      /\ \A i \in 1 .. Len(line) : call[line[i]].waited + 0 + Span(i) <= Turns
  BY <1>1 DEF IInv, Asleep
<1>5. Interval \in Nat /\ Turns \in Nat BY Spans
<1>6. Pacing!TypeOK'
  BY <1>1, <1>3, <1>5 DEF IInv, Pacing!TypeOK, Calls, Turns
<1>7. \A i \in 1 .. Len(line) : call'[line[i]] = call[line[i]]
  BY <1>1, <1>3, LineTypes DEF IInv, InLine
<1>8. InLine' BY <1>1, <1>3, <1>7 DEF IInv, InLine
<1>9. \A t \in Loaders : call'[t].phase # "nap" BY <1>3, <1>4
<1>10. Asleep' BY <1>9 DEF Asleep
<1>11. Awake'
  <2> SUFFICES ASSUME NEW i \in 1 .. Len(line)
               PROVE  call'[line[i]].waited + (Interval - 0) + Span(i - 1) <= Turns
    BY <1>1 DEF Awake, Turns, Pacing!Turns, Span
  <2>1. i - 1 \in Nat /\ i - 1 + 1 = i BY LineTypes
  <2>2. Span(i) = Span(i - 1) + Interval /\ Span(i - 1) \in Nat BY <2>1, Spans
  <2>3. call[line[i]].waited \in Nat BY LineTypes, CallTypes
  <2>4. call[line[i]].waited + 0 + Span(i) <= Turns BY <1>4
  <2> QED BY <1>5, <1>7, <2>2, <2>3, <2>4
<1>12. Unasked' BY <1>3 DEF IInv, Unasked
<1> QED BY <1>2, <1>4, <1>5, <1>6, <1>8, <1>10, <1>11, <1>12 DEF IInv

LEMMA LeaveHolds ==
    ASSUME IInv, NEW s \in Loaders, Pacing!Leave(s)
    PROVE  IInv'
<1>1. since' = since /\ call' = [call EXCEPT ![s] = Pacing!NoRequest]
  BY DEF Pacing!Leave
<1>2. /\ call \in [Loaders -> Calls] /\ since \in Nat /\ since <= Interval
      /\ line \in Seq(Loaders) /\ Len(line) \in Nat
  BY CallTypes, LineTypes
<1>3. /\ call' \in [Loaders -> Calls]
      /\ call'[s].phase = "off" /\ call'[s].waited = 0
      /\ \A t \in Loaders \ {s} : call'[t] = call[t]
  BY <1>1, <1>2, NoRequestTypes
<1>4. /\ line' \in Seq(Loaders)
      /\ \/ line' = line /\ call[s].phase # "line"
         \/ \E k \in 1 .. Len(line) :
               /\ line[k] = s /\ Len(line') = Len(line) - 1
               /\ \A j \in 1 .. Len(line) - 1 :
                     line'[j] = IF j < k THEN line[j] ELSE line[j + 1]
  <2>1. CASE call[s].phase = "line"
    <3>1. PICK k \in DOMAIN line : line[k] = s /\ line' = RemoveAt(line, k)
      BY <2>1 DEF Pacing!Leave, Pacing!RemoveAt, RemoveAt
    <3>2. k \in 1 .. Len(line) BY <1>2
    <3>3. /\ line' \in Seq(Loaders) /\ Len(line') = Len(line) - 1
          /\ \A j \in 1 .. Len(line) - 1 :
                line'[j] = IF j < k THEN line[j] ELSE line[j + 1]
      BY <1>2, <3>1, <3>2, RemoveAtProperties
    <3> QED BY <3>1, <3>2, <3>3
  <2>2. CASE call[s].phase # "line" BY <1>2, <2>2 DEF Pacing!Leave
  <2> QED BY <2>1, <2>2
<1>5. /\ InLine'
      /\ \A j \in 1 .. Len(line') : \E i \in 1 .. Len(line) :
            j <= i /\ line'[j] = line[i] /\ call'[line'[j]] = call[line[i]]
  BY <1>1, <1>4, NoRequestTypes, StillInLine
<1>6. Pacing!TypeOK' BY <1>1, <1>3, <1>4 DEF IInv, Pacing!TypeOK, Calls, Turns
<1>7. Interval \in Nat /\ Turns \in Nat BY Spans
<1>8. ASSUME NEW j \in 1 .. Len(line'), NEW i \in 1 .. Len(line), j <= i
      PROVE  /\ Span(j) <= Span(i) /\ Span(j) \in Nat /\ Span(i) \in Nat
             /\ Span(j - 1) <= Span(i - 1)
             /\ Span(j - 1) \in Nat /\ Span(i - 1) \in Nat
             /\ Span(i) = Span(i - 1) + Interval
             /\ call[line[i]].waited \in Nat
  <2>1. /\ j \in Nat /\ i \in Nat /\ j - 1 \in Nat /\ i - 1 \in Nat
        /\ j - 1 <= i - 1 /\ i - 1 + 1 = i
    BY <1>2, <1>4, <1>8
  <2>2. Span(i - 1 + 1) = Span(i - 1) + Interval BY <2>1, Spans
  <2>3. call[line[i]].waited \in Nat BY LineTypes, CallTypes
  <2> QED BY <1>8, <2>1, <2>2, <2>3, Spans
<1>9. \A t \in Loaders : call'[t].phase = "nap" =>
         call'[t] = call[t] /\ call[t].phase = "nap" /\ t # s
  BY <1>3
<1>10. Asleep'
  <2> SUFFICES ASSUME NEW t \in Loaders, call'[t].phase = "nap"
               PROVE  /\ \A u \in Loaders : call'[u].phase = "nap" => u = t
                      /\ since + call'[t].nap >= Interval
                      /\ call'[t].waited + call'[t].nap <= Turns
                      /\ \A j \in 1 .. Len(line') :
                           call'[line'[j]].waited + call'[t].nap + Span(j) <= Turns
    BY <1>1 DEF Asleep, Turns, Pacing!Turns, Span
  <2>1. call'[t] = call[t] /\ call[t].phase = "nap" BY <1>9
  <2>2. /\ \A u \in Loaders : call[u].phase = "nap" => u = t
        /\ since + call[t].nap >= Interval
        /\ call[t].waited + call[t].nap <= Turns
        /\ \A i \in 1 .. Len(line) :
              call[line[i]].waited + call[t].nap + Span(i) <= Turns
    BY <2>1 DEF IInv, Asleep
  <2>3. call[t].nap \in Nat BY CallTypes
  <2>4. ASSUME NEW j \in 1 .. Len(line')
        PROVE  call'[line'[j]].waited + call[t].nap + Span(j) <= Turns
    <3>1. PICK i \in 1 .. Len(line) : j <= i /\ call'[line'[j]] = call[line[i]]
      BY <1>5
    <3>2. call[line[i]].waited + call[t].nap + Span(i) <= Turns BY <2>2
    <3>3. /\ Span(j) <= Span(i) /\ Span(j) \in Nat /\ Span(i) \in Nat
          /\ call[line[i]].waited \in Nat
      BY <1>8, <3>1
    <3> QED BY <1>7, <2>3, <3>1, <3>2, <3>3
  <2>5. \A u \in Loaders : call'[u].phase = "nap" => u = t BY <1>9, <2>2
  <2> QED BY <2>1, <2>2, <2>4, <2>5
(* When the sleeper goes, the next one has at most the interval to sleep.  *)
<1>11. Awake'
  <2> SUFFICES ASSUME Pacing!Free', NEW j \in 1 .. Len(line')
               PROVE  call'[line'[j]].waited + (Interval - since) + Span(j - 1) <= Turns
    BY <1>1 DEF Awake, Turns, Pacing!Turns, Span
  <2>1. PICK i \in 1 .. Len(line) : j <= i /\ call'[line'[j]] = call[line[i]]
    BY <1>5
  <2>2. /\ Span(j - 1) <= Span(i - 1)
        /\ Span(j - 1) \in Nat /\ Span(i - 1) \in Nat
        /\ Span(i) = Span(i - 1) + Interval /\ Span(i) \in Nat
        /\ call[line[i]].waited \in Nat
    BY <1>8, <2>1
  <2>3. CASE Pacing!Free
    <3>1. call[line[i]].waited + (Interval - since) + Span(i - 1) <= Turns
      BY <2>3 DEF IInv, Awake
    <3>2. call[line[i]].waited + (Interval - since) + Span(j - 1) <= Turns
      BY <1>2, <1>7, <2>2, <3>1, SMTT(30)
    <3> QED BY <2>1, <3>2
  <2>4. CASE ~ Pacing!Free
    <3>1. PICK t \in Loaders : call[t].phase = "nap" BY <2>4 DEF Pacing!Free
    <3>2. call[line[i]].waited + call[t].nap + Span(i) <= Turns
      BY <3>1 DEF IInv, Asleep
    <3>3. call[t].nap \in Nat BY CallTypes
    <3>4. since \in Nat /\ Interval \in Nat /\ Turns \in Nat BY <1>2, Spans
    <3> DEFINE w == call[line[i]].waited
               nap == call[t].nap
               m == Span(i - 1)
               n == Span(i)
               k == Span(j - 1)
    <3>5. /\ w \in Nat /\ nap \in Nat /\ m \in Nat /\ n \in Nat /\ k \in Nat
          /\ w + nap + n <= Turns /\ n = m + Interval /\ k <= m
      BY <2>2, <3>2, <3>3
    <3>6. call'[line'[j]].waited = w BY <2>1
    <3>7. SUFFICES w + (Interval - since) + k <= Turns BY <3>6
    <3> HIDE DEF w, nap, m, n, k
    <3> QED BY <3>4, <3>5, TurnMoves
  <2> QED BY <2>3, <2>4
<1>12. Unasked' BY <1>3 DEF IInv, Unasked
<1> QED BY <1>5, <1>6, <1>10, <1>11, <1>12 DEF IInv

LEMMA EnterHolds ==
    ASSUME IInv, NEW s \in Loaders, Pacing!Enter(s)
    PROVE  IInv' /\ (call'[s].phase = "send" => since >= Interval)
<1> DEFINE n == Len(line)
<1>1. line # << >> /\ Head(line) = s /\ Pacing!Free /\ line' = Tail(line)
  BY DEF Pacing!Enter, Pacing!MayEnter
<1>2. /\ call \in [Loaders -> Calls] /\ call[s] \in Calls
      /\ since \in Nat /\ since <= Interval
      /\ line \in Seq(Loaders) /\ n \in Nat
  BY CallTypes, LineTypes
<1>3. /\ 1 \in 1 .. n /\ line[1] = s
      /\ line' \in Seq(Loaders) /\ Len(line') = n - 1
      /\ \A j \in 1 .. n - 1 : line'[j] = line[j + 1]
  BY <1>1, <1>2
<1>4. Interval \in Nat /\ Turns \in Nat BY Spans
<1>5. \A i \in 1 .. n : call[line[i]].waited + (Interval - since) + Span(i - 1) <= Turns
  BY <1>1 DEF IInv, Awake
<1>6. /\ \A j \in 1 .. n - 1 : line'[j] = IF j < 1 THEN line[j] ELSE line[j + 1]
  BY <1>3
(* Everybody else moves up by one turn.                                    *)
<1>7. ASSUME NEW j \in 1 .. n - 1, \A t \in Loaders \ {s} : call'[t] = call[t]
      PROVE  /\ call'[line'[j]].waited + (Interval - since) + Span(j) <= Turns
             /\ call'[line'[j]].waited \in Nat
             /\ Span(j - 1) \in Nat /\ Span(j) = Span(j - 1) + Interval
  <2>1. j + 1 \in 1 .. n /\ j + 1 - 1 = j /\ j - 1 \in Nat /\ j - 1 + 1 = j BY <1>2
  <2>2. line'[j] = line[j + 1] /\ line[j + 1] # line[1]
    BY <1>3, <2>1 DEF IInv, InLine
  <2>3. call'[line'[j]] = call[line[j + 1]] BY <1>3, <1>7, <2>1, <2>2, LineTypes
  <2>4. call[line[j + 1]].waited + (Interval - since) + Span(j + 1 - 1) <= Turns
    BY <1>5, <2>1
  <2>5. call[line[j + 1]].waited \in Nat BY <2>1, LineTypes, CallTypes
  <2>6. Span(j - 1) \in Nat /\ Span(j - 1 + 1) = Span(j - 1) + Interval BY <2>1, Spans
  <2> QED BY <2>1, <2>3, <2>4, <2>5, <2>6
<1>8. \A t \in Loaders : call[t].phase # "nap" BY <1>1 DEF Pacing!Free
<1>9. CASE since < Interval
  <2> DEFINE r == [call[s] EXCEPT !.phase = "nap", !.nap = Interval - since]
  <2>1. /\ since' = since
        /\ call' = [call EXCEPT ![s].phase = "nap", ![s].nap = Interval - since]
    BY <1>9 DEF Pacing!Enter
  <2>2. Interval - since \in 0 .. Interval BY <1>2, <1>4
  <2>3. /\ r \in Calls /\ r.phase = "nap" /\ r.nap = Interval - since
        /\ r.waited = call[s].waited
    BY <1>2, <2>2 DEF Calls
  <2>4. call' = [call EXCEPT ![s] = r] BY <1>2, <2>1
  <2> HIDE DEF r
  <2>5. /\ call' \in [Loaders -> Calls] /\ call'[s] = r
        /\ \A t \in Loaders \ {s} : call'[t] = call[t]
    BY <1>2, <2>3, <2>4
  <2>6. Pacing!TypeOK'
    BY <1>3, <2>1, <2>5 DEF IInv, Pacing!TypeOK, Calls, Turns
  <2>7. InLine' BY <1>3, <1>6, <2>3, <2>4, StillInLine
  <2>8. \A t \in Loaders : call'[t].phase = "nap" => t = s BY <1>8, <2>5
  <2>9. call[s].waited + (Interval - since) <= Turns
    <3>1. call[line[1]].waited + (Interval - since) + Span(1 - 1) <= Turns BY <1>3, <1>5
    <3>2. call[s].waited \in Nat BY CallTypes
    <3>3. Span(1 - 1) = 0 BY Spans
    <3> QED BY <1>2, <1>3, <1>4, <3>1, <3>2, <3>3
  <2>10. Asleep'
    <3> SUFFICES /\ \A u \in Loaders : call'[u].phase = "nap" => u = s
                 /\ since + r.nap >= Interval
                 /\ r.waited + r.nap <= Turns
                 /\ \A j \in 1 .. n - 1 :
                       call'[line'[j]].waited + r.nap + Span(j) <= Turns
      BY <1>3, <2>1, <2>5, <2>8 DEF Asleep, Turns, Pacing!Turns, Span
    <3> QED BY <1>2, <1>4, <1>7, <2>3, <2>5, <2>8, <2>9
  <2>11. Awake' BY <2>3, <2>5 DEF Awake, Pacing!Free
  <2>12. Unasked' BY <2>3, <2>5 DEF IInv, Unasked
  <2> QED BY <2>3, <2>5, <2>6, <2>7, <2>10, <2>11, <2>12 DEF IInv
<1>10. CASE ~ (since < Interval)
  <2> DEFINE r == [Pacing!NoRequest EXCEPT !.phase = "send"]
  <2>1. since' = 0 /\ call' = [call EXCEPT ![s] = r]
    BY <1>10 DEF Pacing!Enter, Pacing!Sending
  <2>2. r \in Calls /\ r.phase = "send" /\ r.waited = 0 BY SentTypes
  <2> HIDE DEF r
  <2>3. /\ call' \in [Loaders -> Calls] /\ call'[s] = r
        /\ \A t \in Loaders \ {s} : call'[t] = call[t]
    BY <1>2, <2>1, <2>2
  <2>4. Pacing!TypeOK'
    BY <1>3, <1>4, <2>1, <2>3 DEF IInv, Pacing!TypeOK, Calls, Turns
  <2>5. InLine' BY <1>3, <1>6, <2>1, <2>2, StillInLine
  <2>6. \A t \in Loaders : call'[t].phase # "nap" BY <1>8, <2>2, <2>3
  <2>7. Asleep' BY <2>6 DEF Asleep
  <2>8. since = Interval BY <1>2, <1>4, <1>10
  <2>9. Awake'
    <3> SUFFICES ASSUME NEW j \in 1 .. n - 1
                 PROVE  call'[line'[j]].waited + (Interval - 0) + Span(j - 1) <= Turns
      BY <1>3, <2>1 DEF Awake, Turns, Pacing!Turns, Span
    <3> QED BY <1>4, <1>7, <2>3, <2>8
  <2>10. Unasked' BY <2>2, <2>3 DEF IInv, Unasked
  <2> QED BY <1>2, <1>4, <2>4, <2>5, <2>7, <2>8, <2>9, <2>10 DEF IInv
<1> QED BY <1>9, <1>10

(* Time passes only while a job sleeps or nobody is in the line, and not   *)
(* beyond the end of a sleep.                                              *)
LEMMA TickHolds == IInv /\ Pacing!Tick => IInv'
<1> SUFFICES ASSUME IInv, Pacing!Tick PROVE IInv'
  OBVIOUS
<1> DEFINE r(t) == CASE call[t].phase = "nap" ->
                          [call[t] EXCEPT !.nap = @ - 1, !.waited = @ + 1]
                     [] call[t].phase = "line" ->
                          [call[t] EXCEPT !.waited = Pacing!Least(@ + 1, Pacing!Turns + 1)]
                     [] OTHER -> call[t]
<1>1. /\ call' = [t \in Loaders |-> r(t)] /\ line' = line
      /\ since' = Pacing!Least(since + 1, Interval)
      /\ \A t \in Loaders : ~Pacing!Due(t) /\ ~Pacing!MayEnter(t)
  BY DEF Pacing!Tick
<1>2. /\ Interval \in Nat /\ Turns \in Nat BY Spans
<1>3. since \in Nat /\ since <= Interval /\ call \in [Loaders -> Calls]
  <2>1. since \in 0 .. Interval BY DEF IInv, Pacing!TypeOK
  <2>2. call \in [Loaders -> Calls] BY DEF IInv, Pacing!TypeOK, Calls, Turns
  <2> QED BY <1>2, <2>1, <2>2
<1>4. /\ since' \in 0 .. Interval
      /\ since' = since + 1 \/ since' = Interval
  <2> HIDE DEF r
  <2>1. CASE since + 1 < Interval
    <3>1. since' = since + 1 BY <1>1, <2>1 DEF Pacing!Least
    <3> QED BY <1>2, <1>3, <2>1, <3>1
  <2>2. CASE ~(since + 1 < Interval)
    <3>1. since' = Interval BY <1>1, <2>2 DEF Pacing!Least
    <3> QED BY <1>2, <3>1
  <2> QED BY <2>1, <2>2
<1>5. /\ line \in Seq(Loaders) /\ Len(line) \in Nat
      /\ \A i \in 1 .. Len(line) : line[i] \in Loaders /\ call[line[i]].phase = "line"
  BY LineTypes DEF IInv, InLine
(* Who waits in the line waits for a sleeper.                              *)
<1>6. ASSUME NEW i \in 1 .. Len(line)
      PROVE  \E t \in Loaders : call[t].phase = "nap"
  <2>1. line # << >> /\ Head(line) = line[1] /\ line[1] \in Loaders BY <1>5
  <2>2. ~Pacing!MayEnter(line[1]) BY <1>1, <2>1
  <2> QED BY <2>1, <2>2 DEF Pacing!MayEnter, Pacing!Free
<1>7. ASSUME NEW t \in Loaders, call[t].phase = "nap"
      PROVE  /\ call[t].nap \in Nat /\ call[t].nap >= 1 /\ call[t].nap <= Interval
             /\ call[t].waited \in Nat
             /\ \A u \in Loaders : call[u].phase = "nap" => u = t
             /\ since + call[t].nap >= Interval
             /\ call[t].waited + call[t].nap <= Turns
             /\ \A i \in 1 .. Len(line) :
                   call[line[i]].waited + call[t].nap + Span(i) <= Turns
  <2>1. call[t].nap # 0 BY <1>1, <1>7 DEF Pacing!Due
  <2>2. /\ call[t].nap \in Nat /\ call[t].waited \in Nat /\ call[t].nap <= Interval
    BY CallTypes
  <2>3. call[t].nap >= 1 BY <2>1, <2>2
  <2> QED BY <1>7, <2>2, <2>3 DEF IInv, Asleep
<1>8. ASSUME NEW i \in 1 .. Len(line)
      PROVE  /\ call[line[i]].waited \in Nat /\ call[line[i]].waited + 1 <= Turns
             /\ Span(i) \in Nat
  <2>1. PICK t \in Loaders : call[t].phase = "nap" BY <1>6
  <2>2. call[line[i]].waited + call[t].nap + Span(i) <= Turns BY <1>7, <2>1
  <2>3. call[t].nap \in Nat /\ call[t].nap >= 1 BY <1>7, <2>1
  <2>4. Span(i) \in Nat BY <1>5, Spans
  <2>5. call[line[i]].waited \in Nat BY <1>5, CallTypes
  <2> QED BY <1>2, <2>2, <2>3, <2>4, <2>5, SMTT(30)
<1>9. ASSUME NEW t \in Loaders, call[t].phase = "nap"
      PROVE  /\ r(t) \in Calls /\ r(t).phase = "nap" /\ r(t).nap = call[t].nap - 1
             /\ r(t).waited = call[t].waited + 1
  <2> DEFINE m == call[t].nap - 1
             w == call[t].waited + 1
  <2>1. m \in 0 .. Interval /\ w \in 0 .. Turns + 1 BY <1>2, <1>7, <1>9, SMTT(30)
  <2>2. r(t) = [call[t] EXCEPT !.nap = m, !.waited = w] BY <1>9
  <2>3. call[t] \in Calls BY <1>3
  <2> HIDE DEF m, w, r
  <2>4. r(t) \in Calls /\ r(t).phase = "nap" /\ r(t).nap = m /\ r(t).waited = w
    BY <1>9, <2>1, <2>2, <2>3 DEF Calls
  <2> QED BY <2>4 DEF m, w
<1>10. ASSUME NEW t \in Loaders, call[t].phase = "line"
       PROVE  /\ r(t) \in Calls /\ r(t).phase = "line"
              /\ r(t).waited = call[t].waited + 1
  <2> DEFINE w == call[t].waited + 1
  <2>1. PICK i \in 1 .. Len(line) : line[i] = t BY <1>10 DEF IInv, InLine
  <2>2. call[t].waited \in Nat /\ w <= Turns BY <1>8, <2>1
  <2>3. Pacing!Least(w, Turns + 1) = w BY <1>2, <2>2 DEF Pacing!Least
  <2>4. w \in 0 .. Turns + 1 BY <1>2, <2>2
  <2>5. r(t) = [call[t] EXCEPT !.waited = Pacing!Least(w, Turns + 1)]
    BY <1>10 DEF Turns
  <2>6. call[t] \in Calls BY <1>3
  <2> HIDE DEF w, r
  <2>7. r(t) \in Calls /\ r(t).phase = "line" /\ r(t).waited = w
    BY <1>10, <2>3, <2>4, <2>5, <2>6 DEF Calls
  <2> QED BY <2>7 DEF w
<1>11. ASSUME NEW t \in Loaders, call[t].phase \notin {"nap", "line"}
       PROVE  r(t) \in Calls /\ r(t) = call[t]
  BY <1>3, <1>11
<1> HIDE DEF r
<1>12. /\ call' \in [Loaders -> Calls]
       /\ \A t \in Loaders : call'[t] = r(t) /\ call'[t].phase = call[t].phase
  <2>1. \A t \in Loaders : r(t) \in Calls /\ r(t).phase = call[t].phase
    BY <1>9, <1>10, <1>11
  <2> QED BY <1>1, <2>1
<1>13. Pacing!TypeOK'
  BY <1>1, <1>4, <1>5, <1>12 DEF Pacing!TypeOK, Calls, Turns
<1>14. InLine' BY <1>1, <1>5, <1>12 DEF IInv, InLine
<1>15. \A i \in 1 .. Len(line) : call'[line[i]].waited = call[line[i]].waited + 1
  BY <1>5, <1>10, <1>12
<1>16. Asleep'
  <2> SUFFICES ASSUME NEW t \in Loaders, call'[t].phase = "nap"
               PROVE  /\ \A u \in Loaders : call'[u].phase = "nap" => u = t
                      /\ since' + call'[t].nap >= Interval
                      /\ call'[t].waited + call'[t].nap <= Turns
                      /\ \A i \in 1 .. Len(line) :
                           call'[line[i]].waited + call'[t].nap + Span(i) <= Turns
    BY <1>1 DEF Asleep, Turns, Pacing!Turns, Span
  <2>1. call[t].phase = "nap" BY <1>12
  <2>2. call'[t].nap = call[t].nap - 1 /\ call'[t].waited = call[t].waited + 1
    BY <1>9, <1>12, <2>1
  <2>3. \A u \in Loaders : call'[u].phase = "nap" => u = t BY <1>7, <1>12, <2>1
  <2>4. /\ call[t].nap \in Nat /\ call[t].nap >= 1 /\ call[t].waited \in Nat
        /\ since + call[t].nap >= Interval
        /\ call[t].waited + call[t].nap <= Turns
    BY <1>7, <2>1
  <2>5. since' + (call[t].nap - 1) >= Interval BY <1>2, <1>3, <1>4, <2>4
  <2>6. call[t].waited + 1 + (call[t].nap - 1) <= Turns BY <1>2, <2>4
  <2>7. ASSUME NEW i \in 1 .. Len(line)
        PROVE  call[line[i]].waited + 1 + (call[t].nap - 1) + Span(i) <= Turns
    <3>1. call[line[i]].waited + call[t].nap + Span(i) <= Turns BY <1>7, <2>1
    <3>2. call[line[i]].waited \in Nat /\ Span(i) \in Nat BY <1>8
    <3> QED BY <1>2, <2>4, <3>1, <3>2, UnitMoves
  <2> QED BY <1>15, <2>2, <2>3, <2>5, <2>6, <2>7
<1>17. Awake'
  <2> SUFFICES ASSUME Pacing!Free', NEW i \in 1 .. Len(line) PROVE FALSE
    BY <1>1 DEF Awake
  <2> QED BY <1>6, <1>12 DEF Pacing!Free
<1>18. Unasked' BY <1>11, <1>12 DEF IInv, Unasked
<1> QED BY <1>13, <1>14, <1>16, <1>17, <1>18 DEF IInv

-----------------------------------------------------------------------------
(* The steps of a round.                                                   *)

(* A request that starts now, keeps its distance from the one before.      *)
Distant ==
    \A s \in Loaders :
        call[s].phase # "send" /\ call'[s].phase = "send" => since >= Interval

LEMMA RestartedHolds == Restarted => IInv' /\ Distant
<1> SUFFICES ASSUME Restarted PROVE IInv' /\ Distant
  OBVIOUS
<1>1. /\ since' = Interval /\ line' = << >>
      /\ call' = [s \in Loaders |-> Pacing!NoRequest]
  BY DEF Restarted
<1>2. \A s \in Loaders : call'[s].phase = "off" BY <1>1, NoRequestTypes
<1> QED BY <1>1, <1>2, ResetHolds DEF Distant

LEMMA UntouchedHolds == IInv /\ UNCHANGED pacing => IInv' /\ Distant
<1> SUFFICES ASSUME IInv, UNCHANGED <<since, line, call>> PROVE IInv' /\ Distant
  BY DEF pacing
<1>1. Pacing!TypeOK' BY DEF IInv, Pacing!TypeOK
<1>2. InLine' /\ Asleep' /\ Awake' /\ Unasked'
  BY DEF IInv, InLine, Asleep, Awake, Pacing!Free, Unasked, Turns, Pacing!Turns, Span
<1> QED BY <1>1, <1>2 DEF IInv, Distant

LEMMA StepHolds == IInv /\ [NextRound]_vars => IInv' /\ Distant
<1> SUFFICES ASSUME IInv, [NextRound]_vars PROVE IInv' /\ Distant
  OBVIOUS
<1>c. call \in [Loaders -> Calls] BY DEF IInv, Pacing!TypeOK, Calls, Turns
<1>1. CASE UNCHANGED pacing BY <1>1, UntouchedHolds
<1>2. CASE Restarted BY <1>2, RestartedHolds
<1>3. ASSUME NEW l \in Loaders, Pacing!Ask(l) PROVE IInv' /\ Distant
  <2>1. \A s \in Loaders : call'[s].phase = "send" => call[s].phase = "send"
    BY <1>c, <1>3 DEF Pacing!Ask, Calls
  <2> QED BY <1>3, <2>1, AskHolds DEF Distant
<1>4. ASSUME NEW l \in Loaders, Pacing!Enter(l) PROVE IInv' /\ Distant
  <2>1. IInv' /\ (call'[l].phase = "send" => since >= Interval) BY <1>4, EnterHolds
  <2>2. \A s \in Loaders \ {l} : call'[s] = call[s]
    BY <1>c, <1>4 DEF Pacing!Enter, Pacing!Sending
  <2> QED BY <2>1, <2>2 DEF Distant
<1>5. ASSUME NEW l \in Loaders, Pacing!Wake(l) PROVE IInv' /\ Distant
  BY <1>5, WakeHolds DEF Distant
<1>6. ASSUME NEW l \in Loaders, Pacing!Answered(l) PROVE IInv' /\ Distant
  <2>1. \A s \in Loaders : call'[s].phase = "send" => call[s].phase = "send"
    BY <1>c, <1>6, NoRequestTypes DEF Pacing!Answered
  <2> QED BY <1>6, <2>1, AnsweredHolds DEF Distant
<1>7. ASSUME NEW l \in Loaders, Pacing!Leave(l) PROVE IInv' /\ Distant
  <2>1. \A s \in Loaders : call'[s].phase = "send" => call[s].phase = "send"
    BY <1>c, <1>7, NoRequestTypes DEF Pacing!Leave
  <2> QED BY <1>7, <2>1, LeaveHolds DEF Distant
<1>8. CASE Pacing!Tick
  <2>1. ASSUME NEW s \in Loaders PROVE call'[s].phase = call[s].phase
    <3>1. CASE call[s].phase = "nap" BY <1>c, <1>8, <3>1 DEF Pacing!Tick, Calls
    <3>2. CASE call[s].phase = "line" BY <1>c, <1>8, <3>2 DEF Pacing!Tick, Calls
    <3>3. CASE call[s].phase \notin {"nap", "line"}
      BY <1>c, <1>8, <3>3 DEF Pacing!Tick
    <3> QED BY <3>1, <3>2, <3>3
  <2> QED BY <1>8, <2>1, TickHolds DEF Distant
<1>9. CASE PacingStep BY <1>4, <1>5, <1>6, <1>8, <1>9 DEF PacingStep
<1>10. ASSUME NEW l \in Loaders, Request(l) \/ CallStep(l) PROVE IInv' /\ Distant
  BY <1>1, <1>2, <1>3, <1>7, <1>10
  DEF Request, CallStep, Extracted, FetchFails, LoadStep, RecordFailure
<1> QED BY <1>1, <1>2, <1>9, <1>10
        DEF NextRound, StartRound, RemoveCard, Crash, vars, pacing

LEMMA Invariance == Spec => []IInv
<1>1. InitRound => IInv
  <2> SUFFICES ASSUME Pacing!Init PROVE IInv
    BY DEF InitRound
  <2>1. /\ since = Interval /\ line = << >>
        /\ call = [s \in Loaders |-> Pacing!NoRequest]
    BY DEF Pacing!Init
  <2>2. \A s \in Loaders : call[s].phase = "off" /\ call[s].waited = 0
    BY <2>1, NoRequestTypes
  <2>3. line \in Seq(Loaders) /\ 1 .. Len(line) = {} BY <2>1
  <2>4. call \in [Loaders -> Calls] BY <2>1, NoRequestTypes
  <2>5. Pacing!TypeOK BY <2>1, <2>3, <2>4, Spans DEF Pacing!TypeOK, Calls, Turns
  <2> QED BY <2>2, <2>3, <2>5 DEF IInv, InLine, Asleep, Awake, Unasked
<1> QED BY <1>1, StepHolds, PTL DEF Spec

-----------------------------------------------------------------------------
(* No request of a process is held up for more than one turn of each of    *)
(* its jobs (_wait_for_host), whoever is cancelled in the line or asleep,  *)
(* and however long answers and loads take.                                *)
THEOREM Waits == Spec => []WaitBounded
<1>1. IInv => WaitBounded
  <2> SUFFICES ASSUME IInv, NEW s \in Loaders PROVE call[s].waited <= Turns
    BY DEF WaitBounded, Pacing!WaitBounded, Turns
  <2>1. /\ call[s] \in Calls /\ call[s].nap \in Nat /\ call[s].waited \in Nat
        /\ since \in Nat /\ since <= Interval
    BY CallTypes
  <2>2. Interval \in Nat /\ Turns \in Nat BY Spans
  <2>3. CASE call[s].phase \in {"off", "send"} BY <2>2, <2>3 DEF IInv, Unasked
  <2>4. CASE call[s].phase = "nap"
    <3>1. call[s].waited + call[s].nap <= Turns BY <2>4 DEF IInv, Asleep
    <3> QED BY <2>1, <2>2, <3>1
  <2>5. CASE call[s].phase = "line"
    <3>1. PICK i \in 1 .. Len(line) : line[i] = s BY <2>5 DEF IInv, InLine
    <3>2. Span(i) \in Nat /\ Span(i - 1) \in Nat
      <4>1. i \in Nat /\ i - 1 \in Nat BY LineTypes
      <4> QED BY <4>1, Spans
    <3>3. CASE Pacing!Free
      <4>1. call[s].waited + (Interval - since) + Span(i - 1) <= Turns
        BY <3>1, <3>3 DEF IInv, Awake
      <4> QED BY <2>1, <2>2, <3>2, <4>1
    <3>4. CASE ~ Pacing!Free
      <4>1. PICK t \in Loaders : call[t].phase = "nap" BY <3>4 DEF Pacing!Free
      <4>2. call[s].waited + call[t].nap + Span(i) <= Turns
        BY <3>1, <4>1 DEF IInv, Asleep
      <4>3. call[t].nap \in Nat BY CallTypes
      <4> QED BY <2>1, <2>2, <3>2, <4>2, <4>3
    <3> QED BY <3>3, <3>4
  <2> QED BY <2>1, <2>3, <2>4, <2>5 DEF Calls
<1> QED BY <1>1, Invariance, PTL

(* Two requests of a process start at least the interval apart, also when  *)
(* the job that would have made the one between them is cancelled.         *)
THEOREM KeepsDistance == Spec => Spaced
<1>1. IInv /\ [NextRound]_vars => [Distant]_Pacing!pacingVars BY StepHolds
<1>2. Spec => [][Distant]_Pacing!pacingVars BY <1>1, Invariance, PTL DEF Spec
<1> QED BY <1>2 DEF Spaced, Pacing!Spaced, Distant

-----------------------------------------------------------------------------
(* Loads and removals. Their types.                                        *)

Offered == [key : Keys, stock : {0, 1}]
Statements == {"upsert", "check", "zero", "empty", "job", "target", "card", "detach"}
Results == {NoPage} \cup UNION {Observations[card] : card \in Cards}
Txn == [plan : Seq(Statements), card : Cards \cup {NoCard}, seen : Results,
        begun : BOOLEAN, todo : Seq(Keys),
        writes : UNION {[S -> Row] : S \in SUBSET Keys}, share : BOOLEAN]
Job == [phase : {"rest", "fetch", "load", "failed", "done"},
        card : Cards \cup {NoCard}, asked : BOOLEAN]

ListingTypes ==
    /\ rows \in [Keys -> Row]
    /\ txn \in [Txns -> Txn]
    /\ job \in [Loaders -> Job]

(* A call works on a card of its own while it fetches, loads or fails, and *)
(* its transaction is open just while it loads.                            *)
JobsApart ==
    /\ \A l \in Loaders :
          /\ job[l].phase \in {"fetch", "load", "failed"} => job[l].card \in Cards
          /\ IF job[l].phase = "load" THEN txn[l].card = job[l].card
             ELSE txn[l] = NoTxn
    /\ \A l, m \in Loaders : job[l].card = job[m].card /\ l # m => job[l].card = NoCard

(* A row that a transaction has written is nobody else's to write, and was *)
(* listed or of the transaction's own card. What is written there is of    *)
(* that card, or of nobody after a removal.                                *)
Locked(t) ==
    \A k \in DOMAIN txn[t].writes :
        /\ txn[t].writes[k].card = IF t = Remover THEN NoCard ELSE txn[t].card
        /\ k \in Listed(t) \/ rows[k].card = txn[t].card
        /\ \A o \in Txns \ {t} : k \notin DOMAIN txn[o].writes

(* The statements that are left are those of the plan from some point on.  *)
Mark == <<"job", "target">>
AfterZero(found) == IF found.empty THEN <<"empty">> \o Mark ELSE Mark
AfterCheck(found) == IF CodesToZero(found) # {} THEN <<"zero">> \o AfterZero(found)
                    ELSE AfterZero(found)
PlanAt(stmt, plan, found) ==
    CASE stmt = "upsert" -> /\ plan = <<"upsert", "check">> \o AfterCheck(found)
                             /\ found.rows # << >>
      [] stmt = "check" -> plan = <<"check">> \o AfterCheck(found)
      [] stmt = "zero" -> plan = <<"zero">> \o AfterZero(found)
      [] stmt = "empty" -> plan = <<"empty">> \o Mark /\ found.empty
      [] stmt = "job" -> plan = Mark
      [] stmt = "target" -> plan = <<"target">>
      [] OTHER -> FALSE

(* A row that was listed is the card's, as it was seen.                    *)
Stored(l, k) ==
    /\ k \in DOMAIN txn[l].writes
    /\ txn[l].writes[k].stock = Inserted(l, k).stock
    /\ txn[l].seen.empty \/ txn[l].writes[k].active

(* Rows that a statement of the load has to change.                        *)
OnSale(l, k) ==
    /\ Sees(l, k).card = txn[l].card /\ Sees(l, k).active
    /\ CodeOf[k] \in CodesToZero(txn[l].seen) /\ Sees(l, k).stock # 0
OnOffer(l, k) == Sees(l, k).card = txn[l].card /\ Sees(l, k).active

(* How far a load has come.                                                *)
LoadOK(l) ==
    /\ txn[l].card \in Cards
    /\ txn[l].seen \in Observations[txn[l].card]
    /\ PlanAt(Phase(l), txn[l].plan, txn[l].seen)
    /\ txn[l].begun => Phase(l) \in {"upsert", "zero", "empty"} /\ txn[l].todo # << >>
    /\ txn[l].begun /\ Phase(l) = "upsert" =>
          /\ ToSet(txn[l].todo) \subseteq Listed(l)
          /\ \A k \in Listed(l) : k \in ToSet(txn[l].todo) \/ Stored(l, k)
    /\ Phase(l) # "upsert" => \A k \in Listed(l) : Stored(l, k)
    /\ txn[l].begun /\ Phase(l) = "zero" =>
          \A k \in Keys : OnSale(l, k) => k \in ToSet(txn[l].todo)
    /\ Phase(l) \in {"empty", "job", "target"} => \A k \in Keys : ~OnSale(l, k)
    /\ txn[l].begun /\ Phase(l) = "empty" =>
          \A k \in Keys : OnOffer(l, k) => k \in ToSet(txn[l].todo)
    /\ Phase(l) \in {"job", "target"} /\ txn[l].seen.empty =>
          \A k \in Keys : ~OnOffer(l, k)

RemoverOK ==
    /\ txn[Remover].plan \in {<< >>, <<"card", "detach", "target", "job">>,
                              <<"detach", "target", "job">>, <<"target", "job">>, <<"job">>}
    /\ txn[Remover].begun => Phase(Remover) = "detach" /\ txn[Remover].todo # << >>
    /\ Phase(Remover) = "off" => txn[Remover] = NoTxn
    /\ Phase(Remover) # "off" => txn[Remover].card \in Cards

LoadsInv ==
    /\ ListingTypes
    /\ JobsApart
    /\ RemoverOK
    /\ \A t \in Txns : Locked(t)
    /\ \A l \in Loaders : job[l].phase = "load" => LoadOK(l)

-----------------------------------------------------------------------------
(* What a page lists.                                                      *)

LEMMA PageTypes ==
    ASSUME NEW card \in Cards, NEW found \in Observations[card]
    PROVE  /\ found.rows \in Seq(Offered)
           /\ \A s \in ToSet(found.rows) : s \in Offered
           /\ \A s, u \in ToSet(found.rows) : s.key = u.key => s = u
<1>1. /\ found.rows \in Seq(Offered)
      /\ \A i, j \in 1 .. Len(found.rows) : found.rows[i].key = found.rows[j].key => i = j
  BY ListingsAssumption DEF Offered
<1>2. DOMAIN found.rows = 1 .. Len(found.rows) /\ \A i \in 1 .. Len(found.rows) : found.rows[i] \in Offered
  BY <1>1
<1> QED BY <1>1, <1>2 DEF ToSet

LEMMA InsertedRow ==
    ASSUME NEW t \in Txns, txn[t].card \in Cards,
           txn[t].seen \in Observations[txn[t].card],
           NEW s \in ToSet(txn[t].seen.rows)
    PROVE  /\ Inserted(t, s.key) = [card |-> txn[t].card, stock |-> s.stock, active |-> TRUE]
           /\ Inserted(t, s.key) \in Row
           /\ s.key \in Keys /\ s.stock \in {0, 1}
<1> DEFINE u == CHOOSE r \in ToSet(txn[t].seen.rows) : r.key = s.key
<1>1. u \in ToSet(txn[t].seen.rows) /\ u.key = s.key OBVIOUS
<1>2. u = s /\ s \in Offered BY <1>1, PageTypes
<1>3. Inserted(t, s.key) = [card |-> txn[t].card, stock |-> u.stock, active |-> TRUE]
  BY DEF Inserted
<1> HIDE DEF u
<1> QED BY <1>2, <1>3 DEF Row, Offered

(* A code to zero was not listed in stock.                                 *)
LEMMA ZeroedRow ==
    ASSUME NEW t \in Txns, txn[t].card \in Cards,
           txn[t].seen \in Observations[txn[t].card],
           NEW k \in Listed(t), CodeOf[k] \in CodesToZero(txn[t].seen)
    PROVE  Inserted(t, k).stock = 0
<1>1. PICK s \in ToSet(txn[t].seen.rows) : s.key = k BY DEF Listed
<1>2. /\ Inserted(t, s.key) = [card |-> txn[t].card, stock |-> s.stock, active |-> TRUE]
      /\ s.stock \in {0, 1}
  BY InsertedRow
<1>3. ~(s.stock > 0) BY <1>1 DEF CodesToZero
<1> QED BY <1>1, <1>2, <1>3

LEMMA FirstAndRest ==
    ASSUME NEW S, NEW s \in Seq(S), s # << >>
    PROVE  /\ Head(s) \in S /\ Tail(s) \in Seq(S)
           /\ ToSet(s) = {Head(s)} \cup ToSet(Tail(s))
           /\ ToSet(<< >>) = {}
<1>1. /\ Len(s) \in Nat /\ Len(s) >= 1 /\ DOMAIN s = 1 .. Len(s)
      /\ \A i \in 1 .. Len(s) : s[i] \in S
  OBVIOUS
<1>2. /\ Head(s) = s[1] /\ Tail(s) \in Seq(S) /\ Len(Tail(s)) = Len(s) - 1
      /\ DOMAIN Tail(s) = 1 .. Len(s) - 1
      /\ \A i \in 1 .. Len(s) - 1 : Tail(s)[i] = s[i + 1]
  BY <1>1
<1>3. ASSUME NEW x \in ToSet(s) PROVE x = Head(s) \/ x \in ToSet(Tail(s))
  <2>1. PICK i \in 1 .. Len(s) : x = s[i] BY <1>1 DEF ToSet
  <2>2. CASE i = 1 BY <1>2, <2>1, <2>2
  <2>3. CASE i # 1
    <3>1. i - 1 \in 1 .. Len(s) - 1 /\ (i - 1) + 1 = i BY <1>1, <2>3
    <3> QED BY <1>2, <2>1, <3>1 DEF ToSet
  <2> QED BY <2>2, <2>3
<1>4. ASSUME NEW x \in ToSet(Tail(s)) PROVE x \in ToSet(s)
  <2>1. PICK i \in 1 .. Len(s) - 1 : x = s[i + 1] BY <1>2 DEF ToSet
  <2>2. i + 1 \in 1 .. Len(s) BY <1>1
  <2> QED BY <1>1, <2>1, <2>2 DEF ToSet
<1>5. Head(s) \in ToSet(s) BY <1>1, <1>2 DEF ToSet
<1> QED BY <1>1, <1>2, <1>3, <1>4, <1>5 DEF ToSet

LEMMA AnyOrder ==
    ASSUME NEW S, IsFiniteSet(S), NEW q \in SetToSeqs(S)
    PROVE  q \in Seq(S) /\ ToSet(q) = S
<1> DEFINE n == Cardinality(S)
<1>1. n \in Nat BY FS_CardinalityType
<1>2. q \in [1 .. n -> S] /\ \A i, j \in 1 .. n : i # j => q[i] # q[j]
  BY DEF SetToSeqs
<1>3. q \in Seq(S) BY <1>1, <1>2
<1>4. ToSet(q) = {q[i] : i \in 1 .. n} BY <1>2 DEF ToSet
<1>5. ToSet(q) \subseteq S /\ IsFiniteSet(ToSet(q)) BY <1>2, <1>4, FS_Subset
<1>6. q \in Injection(1 .. n, ToSet(q)) BY <1>2, <1>4 DEF Injection, IsInjective
<1>7. Cardinality(1 .. n) <= Cardinality(ToSet(q)) BY <1>5, <1>6, FS_Injection
<1>8. Cardinality(1 .. n) = n
  <2>1. 1 \in Int /\ n \in Int BY <1>1
  <2>2. Cardinality(1 .. n) = IF 1 > n THEN 0 ELSE n - 1 + 1 BY <2>1, FS_Interval
  <2> QED BY <1>1, <2>2
<1>9. /\ Cardinality(ToSet(q)) \in Nat /\ Cardinality(ToSet(q)) <= n
      /\ Cardinality(ToSet(q)) = n => ToSet(q) = S
  BY <1>5, FS_Subset, FS_CardinalityType
<1> HIDE DEF n
<1> QED BY <1>1, <1>3, <1>7, <1>8, <1>9

-----------------------------------------------------------------------------
(* The order of the statements.                                            *)

LEMMA StatementNames ==
    \A x \in {"upsert", "check", "zero", "empty", "job", "target", "card", "detach"} :
        x \in Statements
  BY DEF Statements

LEMMA Joined ==
    ASSUME NEW s \in Seq(Statements), NEW a \in Statements, NEW b \in Statements
    PROVE  /\ <<a>> \o s \in Seq(Statements) /\ <<a>> \o s # << >>
           /\ Head(<<a>> \o s) = a /\ Tail(<<a>> \o s) = s
           /\ <<a, b>> \o s \in Seq(Statements) /\ <<a, b>> \o s # << >>
           /\ Head(<<a, b>> \o s) = a /\ Tail(<<a, b>> \o s) = <<b>> \o s
  OBVIOUS

LEMMA Plans ==
    ASSUME NEW found
    PROVE  /\ AfterZero(found) \in Seq(Statements) /\ AfterZero(found) # << >>
           /\ Head(AfterZero(found)) = IF found.empty THEN "empty" ELSE "job"
           /\ PlanAt(Head(AfterZero(found)), AfterZero(found), found)
           /\ AfterCheck(found) \in Seq(Statements) /\ AfterCheck(found) # << >>
           /\ Head(AfterCheck(found)) = IF CodesToZero(found) # {} THEN "zero"
                                       ELSE Head(AfterZero(found))
           /\ PlanAt(Head(AfterCheck(found)), AfterCheck(found), found)
<1>1. Mark \in Seq(Statements) /\ Mark # << >> /\ Head(Mark) = "job"
  BY DEF Mark, Statements
<1>2. /\ AfterZero(found) \in Seq(Statements) /\ AfterZero(found) # << >>
      /\ Head(AfterZero(found)) = IF found.empty THEN "empty" ELSE "job"
      /\ PlanAt(Head(AfterZero(found)), AfterZero(found), found)
  <2>1. CASE found.empty
    <3>1. AfterZero(found) = <<"empty">> \o Mark BY <2>1 DEF AfterZero
    <3>2. /\ AfterZero(found) \in Seq(Statements) /\ AfterZero(found) # << >>
          /\ Head(AfterZero(found)) = "empty"
      BY <1>1, <3>1, Joined, StatementNames
    <3> QED BY <2>1, <3>1, <3>2 DEF PlanAt
  <2>2. CASE ~found.empty BY <1>1, <2>2 DEF AfterZero, PlanAt
  <2> QED BY <2>1, <2>2
<1>3. CASE CodesToZero(found) # {}
  <2>1. AfterCheck(found) = <<"zero">> \o AfterZero(found) BY <1>3 DEF AfterCheck
  <2>2. /\ AfterCheck(found) \in Seq(Statements) /\ AfterCheck(found) # << >>
        /\ Head(AfterCheck(found)) = "zero"
    BY <1>2, <2>1, Joined, StatementNames
  <2> QED BY <1>2, <1>3, <2>1, <2>2 DEF PlanAt
<1>4. CASE CodesToZero(found) = {} BY <1>2, <1>4 DEF AfterCheck
<1> QED BY <1>2, <1>3, <1>4

LEMMA FirstStatement ==
    ASSUME NEW found
    PROVE  /\ LoadPlan(found) \in Seq(Statements) /\ LoadPlan(found) # << >>
           /\ PlanAt(Head(LoadPlan(found)), LoadPlan(found), found)
           /\ Head(LoadPlan(found)) \in {"upsert", "zero", "empty", "job"}
           /\ found.rows # << >> => Head(LoadPlan(found)) = "upsert"
           /\ Head(LoadPlan(found)) \in {"empty", "job"} => CodesToZero(found) = {}
           /\ Head(LoadPlan(found)) = "job" => ~found.empty
<1>1. LoadPlan(found) = IF found.rows # << >> THEN <<"upsert", "check">> \o AfterCheck(found)
                       ELSE AfterCheck(found)
  BY DEF LoadPlan, AfterCheck, AfterZero, Mark
<1>2. CASE found.rows # << >>
  <2>1. /\ LoadPlan(found) \in Seq(Statements) /\ LoadPlan(found) # << >>
        /\ Head(LoadPlan(found)) = "upsert"
    BY <1>1, <1>2, Joined, StatementNames, Plans
  <2> QED BY <1>1, <1>2, <2>1 DEF PlanAt
<1>3. CASE found.rows = << >> BY <1>1, <1>3, Plans
<1> QED BY <1>2, <1>3

LEMMA NextStatement ==
    ASSUME NEW stmt, NEW plan \in Seq(Statements), NEW found,
           stmt = Head(plan), PlanAt(stmt, plan, found), stmt # "target"
    PROVE  /\ Tail(plan) \in Seq(Statements) /\ Tail(plan) # << >>
           /\ PlanAt(Head(Tail(plan)), Tail(plan), found)
           /\ stmt = "upsert" => Head(Tail(plan)) = "check"
           /\ stmt = "check" =>
                /\ Head(Tail(plan)) \in {"zero", "empty", "job"}
                /\ Head(Tail(plan)) \in {"empty", "job"} => CodesToZero(found) = {}
                /\ Head(Tail(plan)) = "job" => ~found.empty
           /\ stmt = "zero" =>
                /\ Head(Tail(plan)) \in {"empty", "job"}
                /\ Head(Tail(plan)) = "job" => ~found.empty
           /\ stmt = "empty" => Head(Tail(plan)) = "job"
           /\ stmt = "job" => Head(Tail(plan)) = "target"
<1>1. CASE stmt = "upsert"
  <2>1. plan = <<"upsert", "check">> \o AfterCheck(found) BY <1>1 DEF PlanAt
  <2>s. /\ AfterCheck(found) \in Seq(Statements)
        /\ "upsert" \in Statements /\ "check" \in Statements
    BY Plans, StatementNames
  <2>2. Tail(plan) = <<"check">> \o AfterCheck(found) BY <2>s, <2>1, Joined
  <2>3. Tail(plan) \in Seq(Statements) /\ Tail(plan) # << >> /\ Head(Tail(plan)) = "check"
    BY <2>s, <2>2, Joined, SMTT(30)
  <2> QED BY <1>1, <2>2, <2>3 DEF PlanAt
<1>2. CASE stmt = "check"
  <2>1. plan = <<"check">> \o AfterCheck(found) BY <1>2 DEF PlanAt
  <2>2. Tail(plan) = AfterCheck(found) BY <2>1, Joined, StatementNames, Plans
  <2> QED BY <1>2, <2>2, Plans
<1>3. CASE stmt = "zero"
  <2>1. plan = <<"zero">> \o AfterZero(found) BY <1>3 DEF PlanAt
  <2>2. Tail(plan) = AfterZero(found) BY <2>1, Joined, StatementNames, Plans
  <2> QED BY <1>3, <2>2, Plans
<1>m. Mark \in Seq(Statements) /\ Mark # << >> /\ Head(Mark) = "job" /\ Tail(Mark) = <<"target">>
  BY DEF Mark, Statements
<1>4. CASE stmt = "empty"
  <2>1. plan = <<"empty">> \o Mark BY <1>4 DEF PlanAt
  <2>2. Tail(plan) = Mark BY <1>m, <2>1, Joined, StatementNames
  <2> QED BY <1>4, <1>m, <2>2 DEF PlanAt
<1>5. CASE stmt = "job"
  <2>1. plan = Mark BY <1>5 DEF PlanAt
  <2>2. /\ <<"target">> \in Seq(Statements) /\ <<"target">> # << >>
        /\ Head(<<"target">>) = "target"
    BY DEF Statements
  <2> QED BY <1>5, <1>m, <2>1, <2>2 DEF PlanAt
<1> QED BY <1>1, <1>2, <1>3, <1>4, <1>5 DEF PlanAt

-----------------------------------------------------------------------------
(* What a step of one transaction leaves to the others.                    *)

LEMMA Emptiness == NoTxn \in Txn
<1>1. << >> \in [{} -> Row] OBVIOUS
<1>2. << >> \in UNION {[S -> Row] : S \in SUBSET Keys} BY <1>1
<1>3. << >> \in Seq(Statements) /\ << >> \in Seq(Keys) OBVIOUS
<1>4. NoPage \in Results BY DEF Results
<1> QED BY <1>2, <1>3, <1>4 DEF NoTxn, Txn

LEMMA TxnTypes ==
    ASSUME ListingTypes, NEW t \in Txns
    PROVE  /\ txn[t] \in Txn
           /\ txn[t].plan \in Seq(Statements) /\ txn[t].todo \in Seq(Keys)
           /\ txn[t].card \in Cards \cup {NoCard} /\ txn[t].seen \in Results
           /\ txn[t].begun \in BOOLEAN
           /\ DOMAIN txn[t].writes \subseteq Keys
           /\ \A k \in DOMAIN txn[t].writes : txn[t].writes[k] \in Row
           /\ \A k \in Keys : Sees(t, k) \in Row
<1>1. txn[t] \in Txn BY DEF ListingTypes
<1>2. /\ txn[t].plan \in Seq(Statements) /\ txn[t].todo \in Seq(Keys)
      /\ txn[t].card \in Cards \cup {NoCard} /\ txn[t].seen \in Results
      /\ txn[t].begun \in BOOLEAN
      /\ txn[t].writes \in UNION {[S -> Row] : S \in SUBSET Keys}
  BY <1>1 DEF Txn
<1>3. PICK S \in SUBSET Keys : txn[t].writes \in [S -> Row] BY <1>2
<1> QED BY <1>1, <1>2, <1>3 DEF Sees, ListingTypes

(* A load is where it was while nobody gives its card a row.               *)
LEMMA LoadKept ==
    ASSUME NEW l \in Loaders, LoadOK(l), txn'[l] = txn[l],
           \A k \in Keys : \/ Sees(l, k)' = Sees(l, k)
                           \/ Sees(l, k)'.card # txn[l].card
    PROVE  LoadOK(l)'
<1>1. \A k \in Keys : /\ OnSale(l, k)' => OnSale(l, k)
                      /\ OnOffer(l, k)' => OnOffer(l, k)
  BY DEF OnSale, OnOffer
<1>2. /\ Phase(l)' = Phase(l) /\ Listed(l)' = Listed(l)
      /\ \A k : Stored(l, k)' <=> Stored(l, k)
  BY DEF Phase, Listed, Stored, Inserted
<1> HIDE DEF OnSale, OnOffer, Phase, Listed, Stored
<1> QED BY <1>1, <1>2 DEF LoadOK

LEMMA LockKept ==
    ASSUME NEW t \in Txns, Locked(t), txn'[t] = txn[t],
           \A k \in DOMAIN txn[t].writes : rows'[k] = rows[k],
           \A o \in Txns \ {t} :
              DOMAIN txn'[o].writes \cap DOMAIN txn[t].writes = {}
    PROVE  Locked(t)'
  BY DEF Locked, Listed

(* Loads under way are of different cards.                                 *)
LEMMA Apart ==
    ASSUME LoadsInv, NEW l \in Loaders, job[l].phase = "load"
    PROVE  /\ txn[l].card \in Cards /\ txn[l].card # NoCard
           /\ \A m \in Loaders \ {l} : txn[m].card # txn[l].card
<1>1. txn[l].card = job[l].card /\ job[l].card \in Cards BY DEF LoadsInv, JobsApart
<1>2. job[l].card # NoCard BY <1>1, ListingsAssumption
<1>3. ASSUME NEW m \in Loaders \ {l} PROVE txn[m].card # txn[l].card
  <2>1. CASE job[m].phase = "load"
    BY <1>1, <1>2, <2>1 DEF LoadsInv, JobsApart
  <2>2. CASE job[m].phase # "load"
    BY <1>1, <1>2, <2>2 DEF LoadsInv, JobsApart, NoTxn
  <2> QED BY <2>1, <2>2
<1> QED BY <1>1, <1>2, <1>3

(* A transaction begins, makes a statement or a part of one.               *)
LEMMA GoesOn ==
    ASSUME LoadsInv, NEW t \in Txns, NEW new \in Txn,
           rows' = rows, txn' = [txn EXCEPT ![t] = new], Locked(t)',
           \/ t = Remover /\ job' = job /\ RemoverOK'
           \/ /\ t \in Loaders /\ job[t].phase \in {"fetch", "load"}
              /\ job' = [job EXCEPT ![t].phase = "load"]
              /\ new.card = job[t].card
              /\ LoadOK(t)'
    PROVE  LoadsInv'
<1>1. /\ txn \in [Txns -> Txn] /\ txn' \in [Txns -> Txn] /\ txn'[t] = new
      /\ \A o \in Txns \ {t} : txn'[o] = txn[o]
  BY DEF LoadsInv, ListingTypes
<1>2. ListingTypes' /\ JobsApart'
  <2>1. CASE t = Remover /\ job' = job
    <3>1. \A l \in Loaders : txn'[l] = txn[l]
      BY <1>1, <2>1, ListingsAssumption DEF Txns
    <3> QED BY <1>1, <2>1, <3>1 DEF LoadsInv, ListingTypes, JobsApart
  <2>2. CASE /\ t \in Loaders /\ job[t].phase \in {"fetch", "load"}
             /\ job' = [job EXCEPT ![t].phase = "load"]
             /\ new.card = job[t].card
    <3>1. job \in [Loaders -> Job] /\ job[t] \in Job /\ job[t].card \in Cards
      BY <2>2 DEF LoadsInv, ListingTypes, JobsApart
    <3>2. /\ job' \in [Loaders -> Job] /\ job'[t].phase = "load"
          /\ job'[t].card = job[t].card
          /\ \A l \in Loaders \ {t} : job'[l] = job[l]
      BY <2>2, <3>1 DEF Job
    <3>3. \A l \in Loaders \ {t} : txn'[l] = txn[l] BY <1>1 DEF Txns
    <3>4. ListingTypes' BY <1>1, <3>2 DEF LoadsInv, ListingTypes
    <3>5. JobsApart' BY <1>1, <2>2, <3>1, <3>2, <3>3 DEF LoadsInv, JobsApart
    <3> QED BY <3>4, <3>5
  <2> QED BY <2>1, <2>2
<1>4. RemoverOK'
  <2>1. Remover \in Txns BY DEF Txns
  <2>2. CASE t # Remover
    <3>1. txn'[Remover] = txn[Remover] BY <1>1, <2>1, <2>2
    <3> QED BY <3>1 DEF LoadsInv, RemoverOK, Phase
  <2> QED BY <2>2, ListingsAssumption
<1>5. ASSUME NEW o \in Txns PROVE Locked(o)'
  <2>1. CASE o = t BY <2>1
  <2>2. CASE o # t
    <3>1. \A u \in Txns \ {o} : DOMAIN txn'[u].writes \cap DOMAIN txn[o].writes = {}
      <4> SUFFICES ASSUME NEW u \in Txns \ {o}, NEW k \in DOMAIN txn'[u].writes
                   PROVE  k \notin DOMAIN txn[o].writes
        OBVIOUS
      <4>1. CASE u = t BY <1>1, <2>2, <4>1 DEF Locked
      <4>2. CASE u # t BY <1>1, <4>2 DEF LoadsInv, Locked
      <4> QED BY <4>1, <4>2
    <3>2. Locked(o) /\ txn'[o] = txn[o] BY <1>1, <2>2 DEF LoadsInv
    <3> QED BY <3>1, <3>2, LockKept
  <2> QED BY <2>1, <2>2
<1>6. ASSUME NEW l \in Loaders, job'[l].phase = "load" PROVE LoadOK(l)'
  <2>1. CASE l = t BY <2>1, ListingsAssumption
  <2>2. CASE l # t
    <3>1. txn'[l] = txn[l] /\ job'[l] = job[l]
      BY <1>1, <2>2 DEF Txns, LoadsInv, ListingTypes
    <3>2. \A k \in Keys : Sees(l, k)' = Sees(l, k) BY <3>1 DEF Sees
    <3>3. LoadOK(l) BY <1>6, <3>1 DEF LoadsInv
    <3> QED BY <3>1, <3>2, <3>3, LoadKept
  <2> QED BY <2>1, <2>2
<1> QED BY <1>2, <1>4, <1>5, <1>6 DEF LoadsInv

(* A transaction ends; its writes are committed, or not.                   *)
LEMMA Finishes ==
    ASSUME LoadsInv, NEW t \in Txns,
           txn' = [txn EXCEPT ![t] = NoTxn],
           rows' = rows \/ rows' = Committed(t),
           \/ t = Remover /\ job' = job
           \/ /\ t \in Loaders /\ job[t].phase = "load"
              /\ \E next \in Job :
                    /\ job' = [job EXCEPT ![t] = next]
                    /\ \/ next.phase = "failed" /\ next.card = job[t].card
                       \/ next.phase = "done" /\ next.card = NoCard
    PROVE  LoadsInv'
<1>1. /\ txn \in [Txns -> Txn] /\ txn' \in [Txns -> Txn] /\ txn'[t] = NoTxn
      /\ \A o \in Txns \ {t} : txn'[o] = txn[o]
  BY Emptiness DEF LoadsInv, ListingTypes
<1>2. ListingTypes' /\ JobsApart'
  <2>1. rows' \in [Keys -> Row]
    BY TxnTypes DEF LoadsInv, ListingTypes, Committed
  <2>2. CASE t = Remover /\ job' = job
    <3>1. \A l \in Loaders : txn'[l] = txn[l]
      BY <1>1, <2>2, ListingsAssumption DEF Txns
    <3> QED BY <1>1, <2>1, <2>2, <3>1 DEF LoadsInv, ListingTypes, JobsApart
  <2>3. ASSUME t \in Loaders, job[t].phase = "load", NEW next \in Job,
               job' = [job EXCEPT ![t] = next],
               \/ next.phase = "failed" /\ next.card = job[t].card
               \/ next.phase = "done" /\ next.card = NoCard
        PROVE  ListingTypes' /\ JobsApart'
    <3>1. /\ job \in [Loaders -> Job] /\ job[t] \in Job /\ job[t].card \in Cards
      BY <2>3 DEF LoadsInv, ListingTypes, JobsApart
    <3>2. /\ job' \in [Loaders -> Job] /\ job'[t] = next
          /\ \A l \in Loaders \ {t} : job'[l] = job[l]
      BY <2>3, <3>1
    <3>3. \A l \in Loaders \ {t} : txn'[l] = txn[l] BY <1>1 DEF Txns
    <3>4. ListingTypes' BY <1>1, <2>1, <3>2 DEF ListingTypes
    <3>5. JobsApart' BY <1>1, <2>3, <3>1, <3>2, <3>3 DEF LoadsInv, JobsApart
    <3> QED BY <3>4, <3>5
  <2> QED BY <2>2, <2>3
<1>3. RemoverOK'
  <2>1. Remover \in Txns BY DEF Txns
  <2>2. CASE t = Remover BY <1>1, <2>2 DEF RemoverOK, NoTxn, Phase
  <2>3. CASE t # Remover
    <3>1. txn'[Remover] = txn[Remover] BY <1>1, <2>1, <2>3
    <3> QED BY <3>1 DEF LoadsInv, RemoverOK, Phase
  <2> QED BY <2>2, <2>3
<1>4. ASSUME NEW k \in Keys
      PROVE  \/ rows'[k] = rows[k]
             \/ k \in DOMAIN txn[t].writes /\ rows'[k] = txn[t].writes[k]
  <2>1. CASE rows' = rows BY <2>1
  <2>2. CASE rows' = Committed(t)
    <3>1. rows'[k] = Sees(t, k) BY <2>2 DEF Committed
    <3> QED BY <3>1 DEF Sees
  <2> QED BY <2>1, <2>2
<1>5. ASSUME NEW o \in Txns PROVE Locked(o)'
  <2>1. CASE o = t BY <1>1, <2>1 DEF Locked, NoTxn
  <2>2. CASE o # t
    <3>1. /\ Locked(o) /\ txn'[o] = txn[o] /\ DOMAIN txn[o].writes \subseteq Keys
      BY <1>1, <2>2, TxnTypes DEF LoadsInv
    <3>2. \A u \in Txns \ {o} : DOMAIN txn'[u].writes \cap DOMAIN txn[o].writes = {}
      BY <1>1, <3>1 DEF Locked, NoTxn
    <3>3. \A k \in DOMAIN txn[o].writes : rows'[k] = rows[k]
      BY <1>4, <2>2, <3>1 DEF Locked
    <3> QED BY <3>1, <3>2, <3>3, LockKept
  <2> QED BY <2>1, <2>2
<1>6. ASSUME NEW l \in Loaders, job'[l].phase = "load" PROVE LoadOK(l)'
  <2>1. l # t /\ job[l].phase = "load"
    BY <1>1, <1>2, <1>6, ListingsAssumption DEF JobsApart, LoadsInv, ListingTypes, Job
  <2>2. txn'[l] = txn[l] /\ LoadOK(l) BY <1>1, <1>6, <2>1 DEF LoadsInv, Txns
  <2>3. ASSUME NEW k \in Keys
        PROVE  Sees(l, k)' = Sees(l, k) \/ Sees(l, k)'.card # txn[l].card
    <3>1. CASE rows'[k] = rows[k] BY <2>2, <3>1 DEF Sees
    <3>2. CASE k \in DOMAIN txn[l].writes BY <2>2, <3>2 DEF Sees
    <3>3. CASE /\ k \notin DOMAIN txn[l].writes
               /\ k \in DOMAIN txn[t].writes /\ rows'[k] = txn[t].writes[k]
      <4>1. Sees(l, k)' = txn[t].writes[k] BY <2>2, <3>3 DEF Sees
      <4>2. txn[t].writes[k].card = IF t = Remover THEN NoCard ELSE txn[t].card
        BY <3>3 DEF LoadsInv, Locked
      <4>3. /\ NoCard # txn[l].card
            /\ t # Remover => txn[t].card # txn[l].card
        BY <2>1, Apart DEF Txns
      <4> QED BY <4>1, <4>2, <4>3
    <3> QED BY <1>4, <3>1, <3>2, <3>3
  <2> QED BY <2>2, <2>3, LoadKept
<1> QED BY <1>2, <1>3, <1>5, <1>6 DEF LoadsInv

-----------------------------------------------------------------------------
(* The steps of a load.                                                    *)

LEMMA BeginLoadHolds ==
    ASSUME LoadsInv, NEW l \in Loaders, Extracted(l)
    PROVE  LoadsInv'
<1>1. PICK found \in Observations[job[l].card] :
         txn' = [txn EXCEPT ![l] = [NoTxn EXCEPT !.plan = LoadPlan(found),
                                                 !.card = job[l].card, !.seen = found]]
  BY DEF Extracted, BeginLoad
<1>2. /\ job[l].phase = "fetch" /\ rows' = rows
      /\ job' = [job EXCEPT ![l].phase = "load"]
  BY DEF Extracted, BeginLoad, Goes
<1>3. job[l].card \in Cards /\ l \in Txns
  BY <1>2 DEF LoadsInv, JobsApart, Txns
<1> DEFINE new == [NoTxn EXCEPT !.plan = LoadPlan(found),
                                !.card = job[l].card, !.seen = found]
<1>4. /\ new \in Txn /\ new.plan = LoadPlan(found) /\ new.card = job[l].card
      /\ new.seen = found /\ new.begun = FALSE /\ DOMAIN new.writes = {}
  <2>1. found \in Results /\ LoadPlan(found) \in Seq(Statements)
    BY <1>3, FirstStatement DEF Results
  <2>2. NoTxn \in Txn BY Emptiness
  <2>3. new \in Txn BY <1>3, <2>1, <2>2 DEF Txn
  <2>4. DOMAIN NoTxn.writes = {} BY DEF NoTxn
  <2> QED BY <2>3, <2>4 DEF NoTxn
<1>5. txn'[l] = new BY <1>1, <1>3 DEF LoadsInv, ListingTypes
<1> HIDE DEF new
<1>6. Locked(l)' BY <1>4, <1>5 DEF Locked
<1>7. LoadOK(l)'
  <2>1. /\ Phase(l)' = Head(LoadPlan(found))
        /\ Listed(l)' = {s.key : s \in ToSet(found.rows)}
    BY <1>4, <1>5, FirstStatement DEF Phase, Listed
  <2>2. PlanAt(Phase(l)', LoadPlan(found), found)
        /\ Phase(l)' \in {"upsert", "zero", "empty", "job"}
    BY <2>1, FirstStatement
  <2>3. ASSUME Phase(l)' # "upsert" PROVE Listed(l)' = {}
    <3>1. found.rows = << >> BY <2>1, <2>3, FirstStatement
    <3> QED BY <2>1, <3>1 DEF ToSet
  <2>4. ASSUME Phase(l)' \in {"empty", "job"}, NEW k \in Keys PROVE ~OnSale(l, k)'
    BY <1>4, <1>5, <2>1, <2>4, FirstStatement DEF OnSale
  <2>5. Phase(l)' = "job" => ~found.empty BY <2>1, FirstStatement
  <2> HIDE DEF PlanAt, Phase, Listed, OnSale
  <2> QED BY <1>3, <1>4, <1>5, <2>2, <2>3, <2>4, <2>5 DEF LoadOK
<1> QED BY <1>1, <1>2, <1>3, <1>4, <1>6, <1>7, GoesOn DEF new

(* A statement is done and the next one begins.                            *)
LEMMA StatementMade ==
    ASSUME NEW l \in Loaders, LoadOK(l), txn[l].plan \in Seq(Statements),
           txn'[l].card = txn[l].card, txn'[l].seen = txn[l].seen,
           txn'[l].begun = FALSE, txn'[l].plan = Tail(txn[l].plan),
           Phase(l) \notin {"off", "target"},
           \A k \in Listed(l) : Stored(l, k)',
           Phase(l) \in {"zero", "empty", "job"} => \A k \in Keys : ~OnSale(l, k)',
           Phase(l) \in {"empty", "job"} /\ txn[l].seen.empty =>
              \A k \in Keys : ~OnOffer(l, k)'
    PROVE  LoadOK(l)'
<1> DEFINE found == txn[l].seen
           plan == txn[l].plan
<1>1. Phase(l) = Head(plan) /\ PlanAt(Phase(l), plan, found) BY DEF LoadOK, Phase
<1>2. Phase(l)' = Head(Tail(plan)) BY <1>1, NextStatement DEF Phase
<1> HIDE DEF found, plan
<1>3. /\ PlanAt(Phase(l)', Tail(plan), found)
      /\ Phase(l) = "upsert" => Phase(l)' = "check"
      /\ Phase(l) = "check" => /\ Phase(l)' \in {"zero", "empty", "job"}
                               /\ Phase(l)' \in {"empty", "job"} => CodesToZero(found) = {}
                               /\ Phase(l)' = "job" => ~found.empty
      /\ Phase(l) = "zero" => /\ Phase(l)' \in {"empty", "job"}
                              /\ Phase(l)' = "job" => ~found.empty
      /\ Phase(l) = "empty" => Phase(l)' = "job"
      /\ Phase(l) = "job" => Phase(l)' = "target"
  <2> DEFINE stmt == Phase(l)
             next == Phase(l)'
  <2>1. plan \in Seq(Statements) /\ stmt # "target" BY DEF plan
  <2>2. stmt = Head(plan) /\ PlanAt(stmt, plan, found) /\ next = Head(Tail(plan))
    BY <1>1, <1>2
  <2> HIDE DEF stmt, next
  <2>3. /\ PlanAt(Head(Tail(plan)), Tail(plan), found)
        /\ stmt = "upsert" => Head(Tail(plan)) = "check"
        /\ stmt = "check" =>
             /\ Head(Tail(plan)) \in {"zero", "empty", "job"}
             /\ Head(Tail(plan)) \in {"empty", "job"} => CodesToZero(found) = {}
             /\ Head(Tail(plan)) = "job" => ~found.empty
        /\ stmt = "zero" =>
             /\ Head(Tail(plan)) \in {"empty", "job"}
             /\ Head(Tail(plan)) = "job" => ~found.empty
        /\ stmt = "empty" => Head(Tail(plan)) = "job"
        /\ stmt = "job" => Head(Tail(plan)) = "target"
    BY <2>1, <2>2, NextStatement
  <2> QED BY <2>2, <2>3 DEF stmt, next
<1> USE DEF found, plan
<1>4. Phase(l) \in {"upsert", "check", "zero", "empty", "job"} BY <1>1 DEF PlanAt
<1>5. Listed(l)' = Listed(l) BY DEF Listed
<1>6. ASSUME NEW k \in Keys, CodesToZero(found) = {} PROVE ~OnSale(l, k)'
  BY <1>6 DEF OnSale
<1>7. txn[l].card \in Cards /\ found \in Observations[txn[l].card] BY DEF LoadOK
<1>8. PlanAt(Phase(l), txn[l].plan, txn[l].seen)' = PlanAt(Phase(l)', Tail(plan), found)
  OBVIOUS
<1> HIDE DEF PlanAt, Phase, Listed, OnSale, OnOffer, Stored
<1>9. Phase(l)' # "upsert" BY <1>3, <1>4
<1>10. Phase(l)' \in {"empty", "job", "target"} => \A k \in Keys : ~OnSale(l, k)'
  BY <1>3, <1>4, <1>6
<1>11. Phase(l)' \in {"job", "target"} /\ found.empty => \A k \in Keys : ~OnOffer(l, k)'
  BY <1>3, <1>4
<1> QED BY <1>3, <1>5, <1>7, <1>8, <1>9, <1>10, <1>11 DEF LoadOK

(* What a load under way knows of itself.                                  *)
LEMMA Loading ==
    ASSUME LoadsInv, NEW l \in Loaders, job[l].phase = "load"
    PROVE  /\ l \in Txns /\ l # Remover /\ LoadOK(l) /\ Locked(l)
           /\ txn \in [Txns -> Txn] /\ txn[l] \in Txn
           /\ txn[l].card = job[l].card
           /\ job = [job EXCEPT ![l].phase = "load"]
           /\ Phase(l) \in {"upsert", "check", "zero", "empty", "job", "target"}
           /\ Phase(l) = Head(txn[l].plan) /\ txn[l].plan \in Seq(Statements)
<1>1. l \in Txns /\ l # Remover BY ListingsAssumption DEF Txns
<1>2. LoadOK(l) /\ Locked(l) /\ txn \in [Txns -> Txn] /\ txn[l] \in Txn
  BY <1>1 DEF LoadsInv, ListingTypes
<1>3. txn[l].card = job[l].card BY DEF LoadsInv, JobsApart
<1>4. job = [job EXCEPT ![l].phase = "load"] BY DEF LoadsInv, ListingTypes, Job
<1>5. Phase(l) \in {"upsert", "check", "zero", "empty", "job", "target"}
  BY <1>2 DEF LoadOK, PlanAt
<1>6. Phase(l) = Head(txn[l].plan) BY <1>5 DEF Phase
<1>7. txn[l].plan \in Seq(Statements) BY <1>2 DEF Txn
<1> QED BY <1>1, <1>2, <1>3, <1>4, <1>5, <1>6, <1>7

(* What an open load writes in its record while it keeps what it wrote.    *)
LEMMA SameWrites ==
    ASSUME LoadsInv, NEW t \in Txns, NEW new \in Txn, rows' = rows,
           txn' = [txn EXCEPT ![t] = new], new.writes = txn[t].writes,
           new.card = txn[t].card, new.seen = txn[t].seen
    PROVE  /\ Locked(t)'
           /\ \A k \in Keys : Sees(t, k)' = Sees(t, k)
           /\ \A k : Stored(t, k)' <=> Stored(t, k)
           /\ \A k \in Keys : /\ OnSale(t, k)' <=> OnSale(t, k)
                              /\ OnOffer(t, k)' <=> OnOffer(t, k)
           /\ Listed(t)' = Listed(t)
<1>1. txn'[t] = new /\ \A o \in Txns \ {t} : txn'[o] = txn[o]
  BY DEF LoadsInv, ListingTypes
<1>2. Locked(t) BY DEF LoadsInv
<1>3. Locked(t)' BY <1>1, <1>2 DEF Locked, Listed
<1>4. \A k \in Keys : Sees(t, k)' = Sees(t, k) BY <1>1 DEF Sees
<1>5. ASSUME NEW k PROVE Stored(t, k)' <=> Stored(t, k)
  <2>1. /\ txn'[t].card = txn[t].card /\ txn'[t].seen = txn[t].seen
        /\ txn'[t].writes = txn[t].writes
    BY <1>1
  <2>2. Inserted(t, k)' = Inserted(t, k) BY <2>1 DEF Inserted
  <2> HIDE DEF Inserted
  <2> QED BY <2>1, <2>2 DEF Stored
<1>6. \A k \in Keys : /\ OnSale(t, k)' <=> OnSale(t, k)
                      /\ OnOffer(t, k)' <=> OnOffer(t, k)
  BY <1>1, <1>4 DEF OnSale, OnOffer
<1>7. Listed(t)' = Listed(t) BY <1>1 DEF Listed
<1> QED BY <1>3, <1>4, <1>5, <1>6, <1>7

LEMMA BeginHolds ==
    ASSUME LoadsInv, NEW l \in Loaders, job[l].phase = "load", Begin(l), job' = job
    PROVE  LoadsInv'
<1>1. /\ Phase(l) \in {"upsert", "zero", "empty"} /\ ~txn[l].begun /\ rows' = rows
  BY Loading DEF Begin
<1>2. PICK todo \in IF Phase(l) = "upsert"
                    THEN {[i \in DOMAIN txn[l].seen.rows |-> txn[l].seen.rows[i].key]}
                    ELSE SetToSeqs({k \in Keys : Matches(l, k)}) :
         txn' = [txn EXCEPT ![l].todo = todo, ![l].begun = todo # << >>,
                            ![l].plan = IF todo = << >> THEN Tail(@) ELSE @]
  BY DEF Begin
<1>3. /\ l \in Txns /\ LoadOK(l) /\ txn \in [Txns -> Txn] /\ txn[l] \in Txn
      /\ txn[l].plan \in Seq(Statements) /\ Phase(l) = Head(txn[l].plan)
  BY Loading
<1>4. /\ todo \in Seq(Keys)
      /\ Phase(l) = "upsert" => ToSet(todo) = Listed(l) /\ todo # << >>
      /\ Phase(l) # "upsert" => ToSet(todo) = {k \in Keys : Matches(l, k)}
  <2>1. CASE Phase(l) = "upsert"
    <3>1. todo = [i \in DOMAIN txn[l].seen.rows |-> txn[l].seen.rows[i].key]
      BY <1>2, <2>1
    <3>2. txn[l].seen.rows \in Seq(Offered) /\ txn[l].seen.rows # << >>
      BY <1>3, <2>1, PageTypes DEF LoadOK, PlanAt
    <3>3. \A i \in DOMAIN txn[l].seen.rows : txn[l].seen.rows[i].key \in Keys
      <4> DEFINE offers == txn[l].seen.rows
      <4>1. offers \in Seq(Offered) BY <3>2
      <4> HIDE DEF offers
      <4>2. \A i \in DOMAIN offers : offers[i] \in Offered BY <4>1
      <4>3. \A o \in Offered : o.key \in Keys BY DEF Offered
      <4> QED BY <4>2, <4>3 DEF offers
    <3>4. todo \in Seq(Keys) /\ todo # << >>
      <4> DEFINE offers == txn[l].seen.rows
      <4>1. /\ offers \in Seq(Offered) /\ offers # << >>
            /\ todo = [i \in DOMAIN offers |-> offers[i].key]
            /\ \A i \in DOMAIN offers : offers[i].key \in Keys
        BY <3>1, <3>2, <3>3
      <4> HIDE DEF offers
      <4>2. Len(offers) \in Nat /\ Len(offers) >= 1 /\ DOMAIN offers = 1 .. Len(offers)
        BY <4>1
      <4>3. todo \in [1 .. Len(offers) -> Keys] BY <4>1, <4>2
      <4> QED BY <4>2, <4>3
    <3>5. ToSet(todo) = Listed(l) BY <3>1 DEF ToSet, Listed
    <3> QED BY <2>1, <3>4, <3>5
  <2>2. CASE Phase(l) # "upsert"
    <3> DEFINE S == {k \in Keys : Matches(l, k)}
    <3>1. IsFiniteSet(S) BY FS_Subset, ListingsAssumption
    <3>2. todo \in SetToSeqs(S) BY <1>2, <2>2
    <3> HIDE DEF S
    <3>3. todo \in Seq(S) /\ ToSet(todo) = S BY <3>1, <3>2, AnyOrder
    <3>4. todo \in Seq(Keys)
      <4>1. S \subseteq Keys BY DEF S
      <4> QED BY <3>3, <4>1
    <3> QED BY <2>2, <3>3, <3>4 DEF S
  <2> QED BY <2>1, <2>2
<1> DEFINE new == [txn[l] EXCEPT !.todo = todo, !.begun = (todo # << >>),
                                 !.plan = IF todo = << >> THEN Tail(@) ELSE @]
<1>5. Tail(txn[l].plan) \in Seq(Statements)
  BY <1>1, <1>3, NextStatement DEF LoadOK
<1>6. /\ new \in Txn /\ new.writes = txn[l].writes /\ new.card = txn[l].card
      /\ new.seen = txn[l].seen /\ new.todo = todo /\ new.begun = (todo # << >>)
      /\ new.plan = IF todo = << >> THEN Tail(txn[l].plan) ELSE txn[l].plan
  BY <1>3, <1>4, <1>5 DEF Txn
<1>7. txn' = [txn EXCEPT ![l] = new] BY <1>2, <1>3
<1>8. txn'[l] = new BY <1>3, <1>7
<1> HIDE DEF new
<1>9. /\ Locked(l)' /\ Listed(l)' = Listed(l)
      /\ \A k : Stored(l, k)' <=> Stored(l, k)
      /\ \A k \in Keys : /\ OnSale(l, k)' <=> OnSale(l, k)
                         /\ OnOffer(l, k)' <=> OnOffer(l, k)
  BY <1>1, <1>3, <1>6, <1>7, SameWrites
<1>10. ASSUME NEW k \in Keys
       PROVE  /\ Phase(l) = "zero" /\ OnSale(l, k) => k \in ToSet(todo)
              /\ Phase(l) = "empty" /\ OnOffer(l, k) => k \in ToSet(todo)
  BY <1>4 DEF Matches, OnSale, OnOffer
<1>11. CASE todo # << >>
  <2>1. Phase(l)' = Phase(l) BY <1>6, <1>8, <1>11 DEF Phase
  <2>2. /\ txn'[l].card = txn[l].card /\ txn'[l].seen = txn[l].seen
        /\ txn'[l].plan = txn[l].plan /\ txn'[l].begun /\ txn'[l].todo = todo
    BY <1>6, <1>8, <1>11
  <2>3. PlanAt(Phase(l), txn[l].plan, txn[l].seen)' BY <1>3, <2>1, <2>2 DEF LoadOK
  <2> HIDE DEF PlanAt, Phase, Listed, OnSale, OnOffer, Stored
  <2>4. LoadOK(l)'
    BY <1>1, <1>3, <1>4, <1>9, <1>10, <1>11, <2>1, <2>2, <2>3 DEF LoadOK
  <2> QED BY <1>1, <1>3, <1>6, <1>7, <1>9, <2>4, GoesOn, Loading
<1>12. CASE todo = << >>
  <2>1. ToSet(todo) = {} BY <1>12 DEF ToSet
  <2>2. Phase(l) # "upsert" BY <1>4, <1>12
  <2>3. \A k \in Listed(l) : Stored(l, k)' BY <1>3, <1>9, <2>2 DEF LoadOK
  <2>4. \A k \in Keys : ~OnSale(l, k)'
    BY <1>1, <1>3, <1>9, <1>10, <2>1, <2>2 DEF LoadOK
  <2>5. Phase(l) = "empty" => \A k \in Keys : ~OnOffer(l, k)' BY <1>9, <1>10, <2>1
  <2>6. LoadOK(l)'
    BY <1>1, <1>3, <1>6, <1>8, <1>12, <2>2, <2>3, <2>4, <2>5, StatementMade
  <2> QED BY <1>1, <1>3, <1>6, <1>7, <1>9, <2>6, GoesOn, Loading
<1> QED BY <1>11, <1>12

(* What the lock of row k changes, when the rows of rest are still to be   *)
(* locked.                                                                 *)
RowUpdate(t, k, rest) ==
    /\ k \in Keys /\ rest \in Seq(Keys) /\ txn'[t] \in Txn
    /\ txn' = [txn EXCEPT ![t] = txn'[t]] /\ rows' = rows
    /\ txn'[t].card = txn[t].card /\ txn'[t].seen = txn[t].seen
    /\ txn'[t].todo = rest /\ txn'[t].begun = (rest # << >>)
    /\ txn'[t].plan = IF rest = << >> THEN Tail(txn[t].plan) ELSE txn[t].plan
    /\ ToSet(txn[t].todo) = {k} \cup ToSet(rest)
    /\ DOMAIN txn[t].writes \subseteq DOMAIN txn'[t].writes
    /\ \A j \in DOMAIN txn[t].writes \ {k} : txn'[t].writes[j] = txn[t].writes[j]
    /\ \A j \in Keys \ {k} : Sees(t, j)' = Sees(t, j)
    /\ Phase(t) = "upsert" => /\ k \in DOMAIN txn'[t].writes
                              /\ txn'[t].writes[k] = Inserted(t, k)
    /\ Phase(t) # "upsert" /\ Matches(t, k) =>
          /\ k \in DOMAIN txn'[t].writes
          /\ txn'[t].writes[k] = Updated(t, k)
    /\ Phase(t) # "upsert" /\ ~Matches(t, k) => txn'[t].writes = txn[t].writes
    /\ Locked(t)'

(* A row is written under its lock.                                        *)
LEMMA RowWritten ==
    ASSUME LoadsInv, NEW t \in Txns, LockRow(t), txn[t].todo # << >>,
           NEW k \in Keys, NEW rest \in Seq(Keys),
           k = Head(txn[t].todo), rest = Tail(txn[t].todo),
           \/ /\ Phase(t) = "upsert" /\ t # Remover
              /\ txn[t].card \in Cards /\ txn[t].seen \in Observations[txn[t].card]
              /\ k \in Listed(t)
           \/ Phase(t) \in {"zero", "empty"} /\ t # Remover
           \/ Phase(t) = "detach" /\ t = Remover
    PROVE  RowUpdate(t, k, rest)
<1> DEFINE W == Writes(t, k)
           new == [txn[t] EXCEPT !.writes = W, !.todo = rest, !.begun = (rest # << >>),
                                 !.plan = IF rest = << >> THEN Tail(@) ELSE @]
<1>1. /\ txn \in [Txns -> Txn] /\ txn[t] \in Txn
      /\ txn[t].todo \in Seq(Keys) /\ txn[t].plan \in Seq(Statements)
      /\ txn[t].plan # << >> /\ txn[t].seen \in Results
      /\ DOMAIN txn[t].writes \subseteq Keys
      /\ \A j \in DOMAIN txn[t].writes : txn[t].writes[j] \in Row
      /\ \A j \in Keys : Sees(t, j) \in Row
      /\ Locked(t)
  BY TxnTypes DEF LoadsInv, ListingTypes, Phase
<1>2. /\ k \in Keys /\ rest \in Seq(Keys) /\ ToSet(txn[t].todo) = {k} \cup ToSet(rest)
  BY <1>1, FirstAndRest
<1>3. txn' = [txn EXCEPT ![t] = new] /\ rows' = rows /\ WaitsFor(t) = {} /\ txn[t].begun
  BY <1>1 DEF LockRow
<1>4. \A o \in Txns \ {t} : k \notin DOMAIN txn[o].writes BY <1>3 DEF WaitsFor
(* The value that is written.                                              *)
<1> DEFINE made == IF Phase(t) = "upsert" THEN Inserted(t, k) ELSE Updated(t, k)
           does == Phase(t) = "upsert" \/ Matches(t, k)
<1>5. W = IF does THEN Written(t, k, made) ELSE txn[t].writes BY DEF Writes
<1>6. ASSUME does
      PROVE  /\ made \in Row
             /\ made.card = IF t = Remover THEN NoCard ELSE txn[t].card
             /\ k \in Listed(t) \/ Sees(t, k).card = txn[t].card
  <2>1. CASE Phase(t) = "upsert"
    <3>1. PICK s \in ToSet(txn[t].seen.rows) : s.key = k BY <2>1 DEF Listed
    <3>2. /\ Inserted(t, s.key) = [card |-> txn[t].card, stock |-> s.stock, active |-> TRUE]
          /\ Inserted(t, s.key) \in Row
      BY <2>1, InsertedRow
    <3> QED BY <2>1, <3>1, <3>2
  <2>2. CASE Phase(t) # "upsert"
    <3>1. Sees(t, k) \in Row /\ Sees(t, k).card = txn[t].card
      BY <1>1, <1>2, <1>6, <2>2 DEF Matches
    <3>2. CASE Phase(t) = "zero" BY <2>2, <3>1, <3>2 DEF Updated, Row
    <3>3. CASE Phase(t) = "empty" BY <2>2, <3>1, <3>3 DEF Updated, Row
    <3>4. CASE Phase(t) = "detach" BY <2>2, <3>1, <3>4 DEF Updated, Row
    <3> QED BY <2>2, <3>2, <3>3, <3>4
  <2> QED BY <2>1, <2>2
<1>7. /\ DOMAIN txn[t].writes \subseteq DOMAIN W
      /\ DOMAIN W \subseteq DOMAIN txn[t].writes \cup {k}
      /\ \A j \in DOMAIN txn[t].writes \ {k} : W[j] = txn[t].writes[j]
      /\ does => k \in DOMAIN W /\ W[k] = made
      /\ ~does => W = txn[t].writes
  <2> HIDE DEF does, made, W
  <2> QED BY <1>5 DEF Written
<1>8. W \in UNION {[S -> Row] : S \in SUBSET Keys}
  <2>1. CASE does
    <3> DEFINE S == DOMAIN txn[t].writes \cup {k}
    <3> HIDE DEF does, made, W
    <3>1. W = [j \in S |-> IF j = k THEN made ELSE txn[t].writes[j]]
      BY <1>5, <2>1 DEF Written
    <3>2. S \in SUBSET Keys BY <1>1, <1>2
    <3>3. \A j \in S : (IF j = k THEN made ELSE txn[t].writes[j]) \in Row
      BY <1>1, <1>6, <2>1
    <3> HIDE DEF S
    <3>4. W \in [S -> Row] BY <3>1, <3>3
    <3> QED BY <3>2, <3>4
  <2>2. CASE ~does BY <1>1, <1>5, <2>2 DEF Txn
  <2> QED BY <2>1, <2>2
<1>9. Tail(txn[t].plan) \in Seq(Statements) BY <1>1, FirstAndRest
<1> HIDE DEF W, does, made
<1>10. /\ new \in Txn /\ new.writes = W /\ new.card = txn[t].card
       /\ new.seen = txn[t].seen /\ new.todo = rest /\ new.begun = (rest # << >>)
       /\ new.plan = IF rest = << >> THEN Tail(txn[t].plan) ELSE txn[t].plan
  BY <1>1, <1>2, <1>8, <1>9 DEF Txn
<1>11. txn'[t] = new /\ \A o \in Txns \ {t} : txn'[o] = txn[o] BY <1>1, <1>3
<1> HIDE DEF new
<1>12. \A j \in Keys \ {k} : Sees(t, j)' = Sees(t, j)
  BY <1>3, <1>7, <1>10, <1>11, SMTT(30) DEF Sees
<1>13. Locked(t)'
  <2> SUFFICES ASSUME NEW j \in DOMAIN W
               PROVE  /\ W[j].card = IF t = Remover THEN NoCard ELSE txn[t].card
                      /\ j \in Listed(t) \/ rows[j].card = txn[t].card
                      /\ \A o \in Txns \ {t} : j \notin DOMAIN txn[o].writes
    <3>1. /\ txn'[t].writes = W /\ txn'[t].card = txn[t].card
          /\ txn'[t].seen = txn[t].seen /\ rows' = rows
          /\ \A o \in Txns \ {t} : txn'[o] = txn[o]
      BY <1>3, <1>10, <1>11
    <3>2. Listed(t)' = Listed(t) BY <3>1 DEF Listed
    <3> HIDE DEF Listed
    <3> QED BY <3>1, <3>2 DEF Locked
  <2>1. CASE j \in DOMAIN txn[t].writes /\ (j # k \/ ~does)
    BY <1>1, <1>7, <2>1 DEF Locked
  <2>2. CASE j = k /\ does
    <3>1. j \in Listed(t) \/ rows[j].card = txn[t].card
      <4>1. CASE k \in DOMAIN txn[t].writes BY <1>1, <2>2, <4>1 DEF Locked
      <4>2. CASE k \notin DOMAIN txn[t].writes BY <1>6, <2>2, <4>2 DEF Sees
      <4> QED BY <4>1, <4>2
    <3> QED BY <1>4, <1>6, <1>7, <2>2, <3>1
  <2> QED BY <1>7, <2>1, <2>2
<1>14. /\ Phase(t) = "upsert" => k \in DOMAIN W /\ W[k] = Inserted(t, k)
       /\ Phase(t) # "upsert" /\ Matches(t, k) => k \in DOMAIN W /\ W[k] = Updated(t, k)
       /\ Phase(t) # "upsert" /\ ~Matches(t, k) => W = txn[t].writes
  BY <1>7 DEF does, made
<1> QED BY <1>2, <1>3, <1>7, <1>10, <1>11, <1>12, <1>13, <1>14, ZenonT(40) DEF RowUpdate

LEMMA LockRowHolds ==
    ASSUME LoadsInv, NEW l \in Loaders, job[l].phase = "load", LockRow(l), job' = job
    PROVE  LoadsInv'
<1>0. PICK k, rest : k = Head(txn[l].todo) /\ rest = Tail(txn[l].todo) OBVIOUS
<1>1. /\ l \in Txns /\ l # Remover /\ LoadOK(l)
      /\ txn[l].plan \in Seq(Statements) /\ Phase(l) = Head(txn[l].plan)
      /\ txn[l].card = job[l].card /\ job = [job EXCEPT ![l].phase = "load"]
  BY Loading
<1>2. /\ txn[l].begun /\ txn[l].todo # << >> /\ txn[l].todo \in Seq(Keys)
      /\ Phase(l) \in {"upsert", "zero", "empty"}
      /\ txn[l].card \in Cards /\ txn[l].seen \in Observations[txn[l].card]
  BY <1>1, TxnTypes DEF LockRow, LoadOK, LoadsInv
<1>3. k \in ToSet(txn[l].todo) /\ k \in Keys /\ rest \in Seq(Keys)
  BY <1>0, <1>2, FirstAndRest
<1>4. Phase(l) = "upsert" => k \in Listed(l) BY <1>1, <1>2, <1>3 DEF LoadOK
<1>5. RowUpdate(l, k, rest)
  <2>1. \/ /\ Phase(l) = "upsert" /\ l # Remover
           /\ txn[l].card \in Cards /\ txn[l].seen \in Observations[txn[l].card]
           /\ k \in Listed(l)
        \/ Phase(l) \in {"zero", "empty"} /\ l # Remover
        \/ Phase(l) = "detach" /\ l = Remover
    BY <1>1, <1>2, <1>4
  <2>2. l \in Txns /\ txn[l].todo # << >> BY <1>1, <1>2
  <2> QED BY <1>0, <1>3, <2>1, <2>2, RowWritten
<1>a. /\ k \in Keys /\ txn'[l] \in Txn /\ rows' = rows
      /\ txn' = [txn EXCEPT ![l] = txn'[l]] /\ Locked(l)'
  BY <1>5 DEF RowUpdate
<1>b. ToSet(txn[l].todo) = {k} \cup ToSet(rest) BY <1>5 DEF RowUpdate
<1>c. /\ txn'[l].card = txn[l].card /\ txn'[l].seen = txn[l].seen
      /\ txn'[l].todo = rest /\ txn'[l].begun = (rest # << >>)
      /\ txn'[l].plan = IF rest = << >> THEN Tail(txn[l].plan) ELSE txn[l].plan
  BY <1>5 DEF RowUpdate
<1>d. /\ DOMAIN txn[l].writes \subseteq DOMAIN txn'[l].writes
      /\ \A j \in DOMAIN txn[l].writes \ {k} : txn'[l].writes[j] = txn[l].writes[j]
  BY <1>5 DEF RowUpdate
<1>e. \A j \in Keys \ {k} : Sees(l, j)' = Sees(l, j) BY <1>5 DEF RowUpdate
<1>f. Phase(l) # "upsert" /\ Matches(l, k) =>
         k \in DOMAIN txn'[l].writes /\ txn'[l].writes[k] = Updated(l, k)
  BY <1>5 DEF RowUpdate
<1>g. Phase(l) # "upsert" /\ ~Matches(l, k) => txn'[l].writes = txn[l].writes BY <1>5 DEF RowUpdate
<1>6. Listed(l)' = Listed(l) BY <1>c DEF Listed
<1>i. ASSUME NEW j PROVE Inserted(l, j)' = Inserted(l, j) BY <1>c DEF Inserted
<1>7. \A j \in Keys \ {k} : /\ OnSale(l, j)' => OnSale(l, j)
                            /\ OnOffer(l, j)' => OnOffer(l, j)
  BY <1>c, <1>e DEF OnSale, OnOffer
<1>8. ASSUME NEW j, j # k, Stored(l, j) PROVE Stored(l, j)'
  <2>1. Inserted(l, j)' = Inserted(l, j) BY <1>i
  <2> HIDE DEF Inserted
  <2> QED BY <1>c, <1>d, <1>8, <2>1 DEF Stored
<1>h. Inserted(l, k)' = Inserted(l, k) BY <1>i
<1>9. Sees(l, k) \in Row BY <1>1, <1>5, TxnTypes DEF RowUpdate, LoadsInv
(* The row itself is as its statement wants it.                            *)
<1>10. CASE Phase(l) = "upsert"
  <2>1. PICK s \in ToSet(txn[l].seen.rows) : s.key = k BY <1>4, <1>10 DEF Listed
  <2>2. Inserted(l, s.key) = [card |-> txn[l].card, stock |-> s.stock, active |-> TRUE]
    BY <1>1, <1>2, InsertedRow
  <2>3. Stored(l, k)'
    <3>1. k \in DOMAIN txn'[l].writes /\ txn'[l].writes[k] = Inserted(l, k)
      BY <1>5, <1>10 DEF RowUpdate
    <3>2. Inserted(l, k).active BY <2>1, <2>2
    <3> HIDE DEF Inserted
    <3> QED BY <1>c, <1>h, <3>1, <3>2 DEF Stored
  <2>4. \A j \in Listed(l) : j \in ToSet(rest) \/ Stored(l, j)'
    BY <1>1, <1>2, <1>b, <1>8, <1>10, <2>3 DEF LoadOK
  <2>5. CASE rest # << >>
    <3>1. Phase(l)' = Phase(l) BY <1>5, <2>5 DEF RowUpdate, Phase
    <3>2. PlanAt(Phase(l), txn[l].plan, txn[l].seen)' BY <1>1, <1>5, <2>5, <3>1 DEF RowUpdate, LoadOK
    <3>3. ToSet(rest) \subseteq Listed(l)
      BY <1>1, <1>2, <1>5, <1>10 DEF RowUpdate, LoadOK
    <3> HIDE DEF PlanAt, Phase, Listed, OnSale, OnOffer, Stored
    <3>4. LoadOK(l)'
      BY <1>2, <1>5, <1>6, <1>10, <2>4, <2>5, <3>1, <3>2, <3>3 DEF RowUpdate, LoadOK
    <3> QED BY <1>1, <1>5, <3>4, GoesOn DEF RowUpdate
  <2>6. CASE rest = << >>
    <3>1. ToSet(rest) = {} BY <2>6 DEF ToSet
    <3>2. LoadOK(l)' BY <1>1, <1>5, <1>10, <2>4, <2>6, <3>1, StatementMade DEF RowUpdate
    <3> QED BY <1>1, <1>5, <3>2, GoesOn DEF RowUpdate
  <2> QED BY <2>5, <2>6
<1>11. CASE Phase(l) = "zero"
  <2>1. ASSUME Matches(l, k)
        PROVE  /\ Sees(l, k)' = [Sees(l, k) EXCEPT !.stock = 0]
               /\ txn'[l].writes[k] = [Sees(l, k) EXCEPT !.stock = 0]
               /\ k \in DOMAIN txn'[l].writes
               /\ CodeOf[k] \in CodesToZero(txn[l].seen)
    <3>1. /\ k \in DOMAIN txn'[l].writes
          /\ txn'[l].writes[k] = [Sees(l, k) EXCEPT !.stock = 0]
      BY <1>f, <1>11, <2>1 DEF Updated
    <3>2. CodeOf[k] \in CodesToZero(txn[l].seen) BY <1>11, <2>1 DEF Matches
    <3>3. Sees(l, k)' = txn'[l].writes[k] BY <3>1 DEF Sees
    <3> QED BY <3>1, <3>2, <3>3
  <2>2. ASSUME ~Matches(l, k)
        PROVE  txn'[l].writes = txn[l].writes /\ Sees(l, k)' = Sees(l, k)
    BY <1>a, <1>g, <1>11, <2>2 DEF Sees
  <2>3. ~OnSale(l, k)'
    <3>1. CASE Matches(l, k) BY <1>9, <2>1, <3>1 DEF OnSale, Row
    <3>2. CASE ~Matches(l, k) BY <1>c, <1>11, <2>2, <3>2 DEF OnSale, Matches
    <3> QED BY <3>1, <3>2
  <2>4. ASSUME k \in Listed(l) PROVE Stored(l, k)'
    <3>1. Stored(l, k) BY <1>1, <1>11, <2>4 DEF LoadOK
    <3>2. CASE Matches(l, k)
      <4>1. Inserted(l, k).stock = 0
        BY <1>1, <1>2, <2>1, <2>4, <3>2, ZeroedRow
      <4>2. Sees(l, k) = txn[l].writes[k] BY <3>1 DEF Stored, Sees
      <4>3. txn'[l].writes[k].stock = 0 /\ txn'[l].writes[k].active = txn[l].writes[k].active
        BY <1>9, <2>1, <3>2, <4>2 DEF Row
      <4> HIDE DEF Inserted
      <4> QED BY <1>c, <1>h, <2>1, <3>1, <3>2, <4>1, <4>3 DEF Stored
    <3>3. CASE ~Matches(l, k)
      <4> HIDE DEF Inserted
      <4> QED BY <1>c, <1>h, <2>2, <3>1, <3>3 DEF Stored
    <3> QED BY <3>2, <3>3
  <2>5. \A j \in Listed(l) : Stored(l, j)' BY <1>1, <1>8, <1>11, <2>4 DEF LoadOK
  <2>6. \A j \in Keys : OnSale(l, j)' => j \in ToSet(rest)
    BY <1>1, <1>2, <1>b, <1>7, <1>11, <2>3 DEF LoadOK
  <2>7. CASE rest # << >>
    <3>1. Phase(l)' = Phase(l) BY <1>5, <2>7 DEF RowUpdate, Phase
    <3>2. PlanAt(Phase(l), txn[l].plan, txn[l].seen)' BY <1>1, <1>5, <2>7, <3>1 DEF RowUpdate, LoadOK
    <3> HIDE DEF PlanAt, Phase, Listed, OnSale, OnOffer, Stored
    <3>3. LoadOK(l)'
      BY <1>2, <1>5, <1>6, <1>11, <2>5, <2>6, <2>7, <3>1, <3>2 DEF RowUpdate, LoadOK
    <3> QED BY <1>1, <1>5, <3>3, GoesOn DEF RowUpdate
  <2>8. CASE rest = << >>
    <3>1. ToSet(rest) = {} BY <2>8 DEF ToSet
    <3>2. LoadOK(l)' BY <1>1, <1>5, <1>11, <2>5, <2>6, <2>8, <3>1, StatementMade DEF RowUpdate
    <3> QED BY <1>1, <1>5, <3>2, GoesOn DEF RowUpdate
  <2> QED BY <2>7, <2>8
<1>12. CASE Phase(l) = "empty"
  <2>1. ASSUME Matches(l, k)
        PROVE  /\ Sees(l, k)' = [Sees(l, k) EXCEPT !.active = FALSE]
               /\ txn'[l].writes[k] = [Sees(l, k) EXCEPT !.active = FALSE]
               /\ k \in DOMAIN txn'[l].writes
    <3>1. /\ k \in DOMAIN txn'[l].writes
          /\ txn'[l].writes[k] = [Sees(l, k) EXCEPT !.active = FALSE]
      BY <1>f, <1>12, <2>1 DEF Updated
    <3>2. Sees(l, k)' = txn'[l].writes[k] BY <3>1 DEF Sees
    <3> QED BY <3>1, <3>2
  <2>2. ASSUME ~Matches(l, k)
        PROVE  txn'[l].writes = txn[l].writes /\ Sees(l, k)' = Sees(l, k)
    BY <1>a, <1>g, <1>12, <2>2 DEF Sees
  <2>3. ~OnOffer(l, k)'
    <3>1. CASE Matches(l, k) BY <1>9, <2>1, <3>1 DEF OnOffer, Row
    <3>2. CASE ~Matches(l, k) BY <1>c, <1>12, <2>2, <3>2 DEF OnOffer, Matches
    <3> QED BY <3>1, <3>2
  <2>4. txn[l].seen.empty BY <1>1, <1>12 DEF LoadOK, PlanAt
  <2>5. ASSUME k \in Listed(l) PROVE Stored(l, k)'
    <3>1. Stored(l, k) BY <1>1, <1>12, <2>5 DEF LoadOK
    <3>2. CASE Matches(l, k)
      <4>1. Sees(l, k) = txn[l].writes[k] BY <3>1 DEF Stored, Sees
      <4>2. txn'[l].writes[k].stock = txn[l].writes[k].stock
        BY <1>9, <2>1, <3>2, <4>1 DEF Row
      <4> HIDE DEF Inserted
      <4> QED BY <1>c, <1>h, <2>1, <2>4, <3>1, <3>2, <4>2 DEF Stored
    <3>3. CASE ~Matches(l, k)
      <4> HIDE DEF Inserted
      <4> QED BY <1>c, <1>h, <2>2, <3>1, <3>3 DEF Stored
    <3> QED BY <3>2, <3>3
  <2>6. \A j \in Listed(l) : Stored(l, j)' BY <1>1, <1>8, <1>12, <2>5 DEF LoadOK
  <2>7. \A j \in Keys : OnOffer(l, j)' => j \in ToSet(rest)
    BY <1>1, <1>2, <1>b, <1>7, <1>12, <2>3 DEF LoadOK
  <2>8. \A j \in Keys : ~OnSale(l, j)'
    <3>1. OnSale(l, k)' => OnOffer(l, k)' BY DEF OnSale, OnOffer
    <3> QED BY <1>1, <1>7, <1>12, <2>3, <3>1 DEF LoadOK
  <2>9. CASE rest # << >>
    <3>1. Phase(l)' = Phase(l) BY <1>5, <2>9 DEF RowUpdate, Phase
    <3>2. PlanAt(Phase(l), txn[l].plan, txn[l].seen)' BY <1>1, <1>5, <2>9, <3>1 DEF RowUpdate, LoadOK
    <3> HIDE DEF PlanAt, Phase, Listed, OnSale, OnOffer, Stored
    <3>3. LoadOK(l)'
      BY <1>2, <1>5, <1>6, <1>12, <2>6, <2>7, <2>8, <2>9, <3>1, <3>2 DEF RowUpdate, LoadOK
    <3> QED BY <1>1, <1>5, <3>3, GoesOn DEF RowUpdate
  <2>10. CASE rest = << >>
    <3>1. ToSet(rest) = {} BY <2>10 DEF ToSet
    <3>2. LoadOK(l)' BY <1>1, <1>5, <1>12, <2>6, <2>7, <2>8, <2>10, <3>1, StatementMade DEF RowUpdate
    <3> QED BY <1>1, <1>5, <3>2, GoesOn DEF RowUpdate
  <2> QED BY <2>9, <2>10
<1> QED BY <1>2, <1>10, <1>11, <1>12

(* The foreign key's check, and the lock of the job.                       *)
LEMMA PassHolds ==
    ASSUME LoadsInv, NEW l \in Loaders, job[l].phase = "load", job' = job,
           CheckCard(l) \/ TakeRow(l, "job")
    PROVE  LoadsInv'
<1>1. /\ l \in Txns /\ l # Remover /\ LoadOK(l) /\ txn[l] \in Txn
      /\ txn \in [Txns -> Txn]
      /\ txn[l].plan \in Seq(Statements) /\ Phase(l) = Head(txn[l].plan)
      /\ txn[l].card = job[l].card /\ job = [job EXCEPT ![l].phase = "load"]
  BY Loading
<1>2. /\ Phase(l) \in {"check", "job"} /\ rows' = rows
      /\ \E share \in BOOLEAN :
            txn' = [txn EXCEPT ![l].share = share, ![l].plan = Tail(@)]
  <2>1. CASE CheckCard(l)
    <3>1. NewToCard(l) \in BOOLEAN BY DEF NewToCard
    <3> QED BY <2>1, <3>1 DEF CheckCard
  <2>2. CASE TakeRow(l, "job")
    <3>1. txn[l].share \in BOOLEAN /\ txn[l] = [txn[l] EXCEPT !.share = txn[l].share]
      BY <1>1 DEF Txn
    <3>2. txn' = [txn EXCEPT ![l].plan = Tail(@)] /\ Phase(l) = "job" /\ rows' = rows
      BY <2>2 DEF TakeRow, Takes
    <3>3. txn' = [txn EXCEPT ![l].share = txn[l].share, ![l].plan = Tail(@)]
      BY <1>1, <3>1, <3>2 DEF Txn
    <3> QED BY <3>1, <3>2, <3>3
  <2> QED BY <2>1, <2>2
<1>3. PICK share \in BOOLEAN : txn' = [txn EXCEPT ![l].share = share, ![l].plan = Tail(@)]
  BY <1>2
<1> DEFINE new == [txn[l] EXCEPT !.share = share, !.plan = Tail(@)]
<1>4. Tail(txn[l].plan) \in Seq(Statements)
  BY <1>1, <1>2, NextStatement DEF LoadOK
<1>5. /\ new \in Txn /\ new.writes = txn[l].writes /\ new.card = txn[l].card
      /\ new.seen = txn[l].seen /\ new.todo = txn[l].todo /\ new.begun = txn[l].begun
      /\ new.plan = Tail(txn[l].plan)
  BY <1>1, <1>4 DEF Txn
<1>6. txn' = [txn EXCEPT ![l] = new] /\ txn'[l] = new BY <1>1, <1>3
<1> HIDE DEF new
<1>7. /\ Locked(l)' /\ Listed(l)' = Listed(l)
      /\ \A k : Stored(l, k)' <=> Stored(l, k)
      /\ \A k \in Keys : /\ OnSale(l, k)' <=> OnSale(l, k)
                         /\ OnOffer(l, k)' <=> OnOffer(l, k)
  BY <1>1, <1>2, <1>5, <1>6, SameWrites
<1>8. txn[l].begun = FALSE BY <1>1, <1>2 DEF LoadOK, Txn
<1>9. \A k \in Listed(l) : Stored(l, k)' BY <1>1, <1>2, <1>7 DEF LoadOK
<1>10. Phase(l) = "job" => \A k \in Keys : ~OnSale(l, k)' BY <1>1, <1>7 DEF LoadOK
<1>11. Phase(l) = "job" /\ txn[l].seen.empty => \A k \in Keys : ~OnOffer(l, k)'
  BY <1>1, <1>7 DEF LoadOK
<1>12. LoadOK(l)'
  BY <1>1, <1>2, <1>5, <1>6, <1>8, <1>9, <1>10, <1>11, StatementMade
<1> QED BY <1>1, <1>2, <1>5, <1>6, <1>7, <1>12, GoesOn

-----------------------------------------------------------------------------
(* The steps of a removal.                                                 *)

(* What a removal knows of itself.                                         *)
LEMMA Removing ==
    ASSUME LoadsInv
    PROVE  /\ Remover \in Txns /\ txn \in [Txns -> Txn] /\ txn[Remover] \in Txn
           /\ Phase(Remover) \in {"off", "card", "detach", "target", "job"}
           /\ Phase(Remover) = "card" =>
                 txn[Remover].plan = <<"card", "detach", "target", "job">>
           /\ Phase(Remover) = "detach" =>
                 txn[Remover].plan = <<"detach", "target", "job">>
           /\ Phase(Remover) = "target" => txn[Remover].plan = <<"target", "job">>
           /\ Phase(Remover) = "job" => txn[Remover].plan = <<"job">>
           /\ Phase(Remover) # "off" => txn[Remover].card \in Cards
           /\ txn[Remover].begun =>
                 Phase(Remover) = "detach" /\ txn[Remover].todo # << >>
<1>1. Remover \in Txns /\ txn \in [Txns -> Txn] /\ txn[Remover] \in Txn
  BY DEF LoadsInv, ListingTypes, Txns
<1>2. RemoverOK BY DEF LoadsInv
<1> QED BY <1>1, <1>2 DEF RemoverOK, Phase

LEMMA RemovalPlans ==
    /\ Tail(<<"card", "detach", "target", "job">>) = <<"detach", "target", "job">>
    /\ Tail(<<"detach", "target", "job">>) = <<"target", "job">>
    /\ Tail(<<"target", "job">>) = <<"job">>
    /\ Head(<<"card", "detach", "target", "job">>) = "card"
    /\ Head(<<"detach", "target", "job">>) = "detach"
    /\ Head(<<"target", "job">>) = "target" /\ Head(<<"job">>) = "job"
    /\ <<"card", "detach", "target", "job">> # << >>
    /\ <<"detach", "target", "job">> # << >>
    /\ <<"target", "job">> # << >> /\ <<"job">> # << >>
    /\ <<"card", "detach", "target", "job">> \in Seq(Statements)
    /\ <<"detach", "target", "job">> \in Seq(Statements)
    /\ <<"target", "job">> \in Seq(Statements) /\ <<"job">> \in Seq(Statements)
  BY DEF Statements

(* What the removal's plan becomes when a statement of it is made.         *)
LEMMA RemovalPlan ==
    ASSUME LoadsInv, Phase(Remover) \in {"card", "detach", "target"},
           NEW new \in Txn, txn' = [txn EXCEPT ![Remover] = new],
           new.card = txn[Remover].card, new.begun = FALSE,
           new.plan = Tail(txn[Remover].plan)
    PROVE  RemoverOK'
<1>1. txn'[Remover] = new BY Removing
<1>2. \/ /\ txn[Remover].plan = <<"card", "detach", "target", "job">>
         /\ new.plan = <<"detach", "target", "job">>
      \/ /\ txn[Remover].plan = <<"detach", "target", "job">>
         /\ new.plan = <<"target", "job">>
      \/ /\ txn[Remover].plan = <<"target", "job">>
         /\ new.plan = <<"job">>
  <2>1. \/ txn[Remover].plan = <<"card", "detach", "target", "job">>
        \/ txn[Remover].plan = <<"detach", "target", "job">>
        \/ txn[Remover].plan = <<"target", "job">>
    BY Removing
  <2> QED BY <2>1, RemovalPlans
<1>3. new.plan # << >> /\ Phase(Remover)' = Head(new.plan)
  <2>1. new.plan # << >> BY <1>2, RemovalPlans
  <2> QED BY <1>1, <2>1 DEF Phase
<1>4. Phase(Remover)' # "off" /\ txn'[Remover].begun = FALSE
  BY <1>1, <1>2, <1>3, RemovalPlans
<1>5. txn'[Remover].plan \in {<<"detach", "target", "job">>, <<"target", "job">>, <<"job">>}
  BY <1>1, <1>2
<1>6. txn'[Remover].card \in Cards BY <1>1, Removing
<1> HIDE DEF Phase
<1> QED BY <1>4, <1>5, <1>6 DEF RemoverOK

LEMMA BeginRemoveHolds ==
    ASSUME LoadsInv, NEW card \in Removable, BeginRemove(card), job' = job
    PROVE  LoadsInv'
<1> DEFINE new == [NoTxn EXCEPT !.plan = <<"card", "detach", "target", "job">>,
                                !.card = card]
<1>1. txn' = [txn EXCEPT ![Remover] = new] /\ rows' = rows BY DEF BeginRemove
<1>2. card \in Cards BY ListingsAssumption
<1>3. /\ new \in Txn /\ new.plan = <<"card", "detach", "target", "job">>
      /\ new.card = card /\ new.begun = FALSE /\ DOMAIN new.writes = {}
  <2>1. <<"card", "detach", "target", "job">> \in Seq(Statements) BY DEF Statements
  <2>2. new \in Txn BY <1>2, <2>1, Emptiness DEF Txn
  <2> QED BY <2>2 DEF NoTxn
<1> HIDE DEF new
<1>4. txn'[Remover] = new BY <1>1, Removing
<1>5. Locked(Remover)' BY <1>3, <1>4 DEF Locked
<1>6. RemoverOK'
  <2>1. /\ txn'[Remover].plan = <<"card", "detach", "target", "job">>
        /\ txn'[Remover].begun = FALSE /\ txn'[Remover].card \in Cards
    BY <1>2, <1>3, <1>4
  <2>2. Phase(Remover)' = "card" BY <2>1, RemovalPlans DEF Phase
  <2> HIDE DEF Phase
  <2> QED BY <2>1, <2>2 DEF RemoverOK
<1> QED BY <1>1, <1>3, <1>5, <1>6, Removing, GoesOn

LEMMA TakeRowHolds ==
    ASSUME LoadsInv, NEW row \in {"card", "target"}, TakeRow(Remover, row), job' = job
    PROVE  LoadsInv'
<1> DEFINE new == [txn[Remover] EXCEPT !.plan = Tail(@)]
<1>1. /\ Phase(Remover) = row /\ rows' = rows
      /\ txn' = [txn EXCEPT ![Remover] = new]
  BY Removing DEF TakeRow, Takes
<1>2. Tail(txn[Remover].plan) \in Seq(Statements)
  <2>1. txn[Remover].plan \in Seq(Statements) /\ txn[Remover].plan # << >>
    BY <1>1, Removing DEF Txn, Phase
  <2> QED BY <2>1, FirstAndRest
<1>3. /\ new \in Txn /\ new.plan = Tail(txn[Remover].plan)
      /\ new.card = txn[Remover].card /\ new.seen = txn[Remover].seen
      /\ new.writes = txn[Remover].writes /\ new.begun = txn[Remover].begun
  BY <1>2, Removing DEF Txn
<1>4. new.begun = FALSE BY <1>1, <1>3, Removing DEF Txn
<1> HIDE DEF new
<1>5. Locked(Remover)' BY <1>1, <1>3, Removing, SameWrites
<1>6. RemoverOK' BY <1>1, <1>3, <1>4, RemovalPlan
<1> QED BY <1>1, <1>3, <1>5, <1>6, Removing, GoesOn

LEMMA BeginDetachHolds ==
    ASSUME LoadsInv, Begin(Remover), job' = job
    PROVE  LoadsInv'
<1>1. Phase(Remover) = "detach" /\ ~txn[Remover].begun /\ rows' = rows
  BY Removing DEF Begin
<1> DEFINE S == {k \in Keys : Matches(Remover, k)}
<1>2. PICK todo \in SetToSeqs(S) :
         txn' = [txn EXCEPT ![Remover].todo = todo, ![Remover].begun = todo # << >>,
                            ![Remover].plan = IF todo = << >> THEN Tail(@) ELSE @]
  BY <1>1 DEF Begin
<1>3. todo \in Seq(Keys)
  <2>1. S \subseteq Keys /\ IsFiniteSet(S) BY FS_Subset, ListingsAssumption
  <2> HIDE DEF S
  <2>2. todo \in Seq(S) BY <2>1, AnyOrder
  <2> QED BY <2>1, <2>2
<1> DEFINE new == [txn[Remover] EXCEPT !.todo = todo, !.begun = (todo # << >>),
                                       !.plan = IF todo = << >> THEN Tail(@) ELSE @]
<1>4. Tail(txn[Remover].plan) \in Seq(Statements)
  <2>1. txn[Remover].plan \in Seq(Statements) /\ txn[Remover].plan # << >>
    BY <1>1, Removing DEF Txn, Phase
  <2> QED BY <2>1, FirstAndRest
<1>5. /\ new \in Txn /\ new.card = txn[Remover].card /\ new.seen = txn[Remover].seen
      /\ new.writes = txn[Remover].writes /\ new.todo = todo
      /\ new.begun = (todo # << >>)
      /\ new.plan = IF todo = << >> THEN Tail(txn[Remover].plan)
                    ELSE txn[Remover].plan
  BY <1>3, <1>4, Removing DEF Txn
<1>6. txn' = [txn EXCEPT ![Remover] = new] BY <1>2, Removing
<1> HIDE DEF new, S
<1>7. Locked(Remover)' BY <1>1, <1>5, <1>6, Removing, SameWrites
<1>8. RemoverOK'
  <2>1. CASE todo = << >> BY <1>1, <1>5, <1>6, <2>1, RemovalPlan
  <2>2. CASE todo # << >>
    <3>1. txn'[Remover] = new BY <1>6, Removing
    <3> QED BY <1>1, <1>5, <2>2, <3>1, Removing DEF RemoverOK, Phase
  <2> QED BY <2>1, <2>2
<1> QED BY <1>1, <1>5, <1>6, <1>7, <1>8, Removing, GoesOn

LEMMA DetachHolds ==
    ASSUME LoadsInv, LockRow(Remover), job' = job
    PROVE  LoadsInv'
<1>1. /\ txn[Remover].begun /\ Phase(Remover) = "detach"
      /\ txn[Remover].todo # << >> /\ txn[Remover].todo \in Seq(Keys)
  BY Removing DEF LockRow, Txn
<1>2. PICK k, rest : k = Head(txn[Remover].todo) /\ rest = Tail(txn[Remover].todo)
  OBVIOUS
<1>3. k \in Keys /\ rest \in Seq(Keys) BY <1>1, <1>2, FirstAndRest
<1>4. RowUpdate(Remover, k, rest) BY <1>1, <1>2, <1>3, Removing, RowWritten
<1> DEFINE new == txn'[Remover]
<1>5. /\ new \in Txn /\ new.card = txn[Remover].card
      /\ new.todo = rest /\ new.begun = (rest # << >>)
      /\ new.plan = IF rest = << >> THEN Tail(txn[Remover].plan)
                    ELSE txn[Remover].plan
      /\ txn' = [txn EXCEPT ![Remover] = new] /\ rows' = rows /\ Locked(Remover)'
  BY <1>4 DEF RowUpdate
<1>6. RemoverOK'
  <2>1. CASE rest = << >> BY <1>1, <1>5, <2>1, RemovalPlan
  <2>2. CASE rest # << >>
    BY <1>1, <1>5, <2>2, Removing DEF RemoverOK, Phase
  <2> QED BY <2>1, <2>2
<1> QED BY <1>5, <1>6, Removing, GoesOn

LEMMA RemoveEnds ==
    ASSUME LoadsInv, CommitRemove \/ RemoveFails, job' = job
    PROVE  LoadsInv'
<1>1. /\ txn' = [txn EXCEPT ![Remover] = NoTxn]
      /\ rows' = rows \/ rows' = Committed(Remover)
  BY DEF CommitRemove, RemoveFails, Rollback
<1> QED BY <1>1, Removing, Finishes

-----------------------------------------------------------------------------
(* Loads end, and calls that load nothing.                                 *)

LEMMA LoadEnds ==
    ASSUME LoadsInv, NEW l \in Loaders, job[l].phase = "load",
           \/ CommitLoad(l) /\ job' = [job EXCEPT ![l] = [NoJob EXCEPT !.phase = "done"]]
           \/ LoadFails(l) /\ Goes(l, "failed")
    PROVE  LoadsInv'
<1>1. job \in [Loaders -> Job] /\ job[l] \in Job /\ l \in Txns
  BY DEF LoadsInv, ListingTypes, Txns
<1>2. /\ txn' = [txn EXCEPT ![l] = NoTxn]
      /\ rows' = rows \/ rows' = Committed(l)
  BY DEF CommitLoad, LoadFails, Rollback
<1>3. \E next \in Job :
         /\ job' = [job EXCEPT ![l] = next]
         /\ \/ next.phase = "failed" /\ next.card = job[l].card
            \/ next.phase = "done" /\ next.card = NoCard
  <2>1. CASE job' = [job EXCEPT ![l] = [NoJob EXCEPT !.phase = "done"]]
    <3> DEFINE next == [NoJob EXCEPT !.phase = "done"]
    <3>1. next \in Job /\ next.phase = "done" /\ next.card = NoCard BY DEF NoJob, Job
    <3> HIDE DEF next
    <3> QED BY <2>1, <3>1 DEF next
  <2>2. CASE Goes(l, "failed")
    <3> DEFINE next == [job[l] EXCEPT !.phase = "failed"]
    <3>1. next \in Job /\ next.phase = "failed" /\ next.card = job[l].card
      BY <1>1 DEF Job
    <3>2. job' = [job EXCEPT ![l] = next] BY <1>1, <2>2 DEF Goes
    <3> HIDE DEF next
    <3> QED BY <3>1, <3>2
  <2>3. \/ job' = [job EXCEPT ![l] = [NoJob EXCEPT !.phase = "done"]]
        \/ Goes(l, "failed")
    OBVIOUS
  <2> QED BY <2>1, <2>2, <2>3
<1> QED BY <1>1, <1>2, <1>3, Finishes

LEMMA NothingLoaded ==
    ASSUME LoadsInv, rows' = rows, txn' = txn, job' \in [Loaders -> Job], JobsApart',
           \A l \in Loaders : job'[l].phase = "load" => job[l].phase = "load"
    PROVE  LoadsInv'
<1>1. ListingTypes' BY DEF LoadsInv, ListingTypes
<1>2. RemoverOK' BY DEF LoadsInv, RemoverOK, Phase
<1>3. \A t \in Txns : Locked(t)' BY DEF LoadsInv, Locked, Listed
<1>4. ASSUME NEW l \in Loaders, job'[l].phase = "load" PROVE LoadOK(l)'
  <2>1. LoadOK(l) BY <1>4 DEF LoadsInv
  <2>2. \A k \in Keys : Sees(l, k)' = Sees(l, k) BY DEF Sees
  <2> QED BY <2>1, <2>2, LoadKept
<1> QED BY <1>1, <1>2, <1>3, <1>4 DEF LoadsInv

LEMMA CallHolds ==
    ASSUME LoadsInv, NEW l \in Loaders, rows' = rows, txn' = txn,
           \/ Request(l) \/ FetchFails(l)
           \/ job[l].phase = "failed" /\ job' = [job EXCEPT ![l] = NoJob]
    PROVE  LoadsInv'
<1>1. job \in [Loaders -> Job] /\ job[l] \in Job /\ JobsApart
  BY DEF LoadsInv, ListingTypes
<1>2. PICK new \in Job :
         /\ job' = [job EXCEPT ![l] = new] /\ job[l].phase \in {"fetch", "failed"}
         /\ \/ new.phase \in {"fetch", "failed"} /\ new.card = job[l].card
            \/ new.phase = "rest" /\ new.card = NoCard
  <2>1. CASE Request(l)
    <3> DEFINE new == [job[l] EXCEPT !.asked = TRUE]
    <3>1. job[l].phase = "fetch" /\ job' = [job EXCEPT ![l] = new]
      BY <1>1, <2>1 DEF Request
    <3>2. new \in Job /\ new.phase = job[l].phase /\ new.card = job[l].card
      BY <1>1 DEF Job
    <3> HIDE DEF new
    <3> QED BY <3>1, <3>2
  <2>2. CASE FetchFails(l)
    <3> DEFINE new == [job[l] EXCEPT !.phase = "failed"]
    <3>1. job[l].phase = "fetch" /\ job' = [job EXCEPT ![l] = new]
      BY <1>1, <2>2 DEF FetchFails, Goes
    <3>2. new \in Job /\ new.phase = "failed" /\ new.card = job[l].card
      BY <1>1 DEF Job
    <3> HIDE DEF new
    <3> QED BY <3>1, <3>2
  <2>3. CASE job[l].phase = "failed" /\ job' = [job EXCEPT ![l] = NoJob]
    <3>1. NoJob \in Job /\ NoJob.phase = "rest" /\ NoJob.card = NoCard
      BY DEF NoJob, Job
    <3> QED BY <2>3, <3>1
  <2> QED BY <2>1, <2>2, <2>3
<1>3. /\ job' \in [Loaders -> Job] /\ job'[l] = new
      /\ \A m \in Loaders \ {l} : job'[m] = job[m]
  BY <1>1, <1>2
<1>4. JobsApart' BY <1>1, <1>2, <1>3 DEF JobsApart
<1>5. \A m \in Loaders : job'[m].phase = "load" => job[m].phase = "load"
  BY <1>2, <1>3
<1> QED BY <1>3, <1>4, <1>5, NothingLoaded

LEMMA StartHolds ==
    ASSUME LoadsInv, StartRound
    PROVE  LoadsInv'
<1>1. PICK claims \in [Loaders -> (Cards \ removed) \cup {NoCard}] :
         /\ \A l, m \in Loaders : l # m /\ claims[l] = claims[m] => claims[l] = NoCard
         /\ job' = [l \in Loaders |->
                      IF claims[l] = NoCard THEN NoJob
                      ELSE [NoJob EXCEPT !.phase = "fetch", !.card = claims[l]]]
  BY DEF StartRound
<1>2. rows' = rows /\ txn' = txn BY DEF StartRound, listingVars
<1>3. \A l \in Loaders : txn[l] = NoTxn
  BY DEF StartRound, Rest, LoadsInv, JobsApart
<1>4. ASSUME NEW l \in Loaders
      PROVE  /\ job'[l] \in Job /\ job'[l].phase \in {"rest", "fetch"}
             /\ job'[l].phase = "fetch" => job'[l].card \in Cards
             /\ job'[l].card = claims[l]
  BY <1>1 DEF NoJob, Job
<1>5. job' \in [Loaders -> Job] BY <1>1, <1>4
<1>6. JobsApart'
  <2>1. \A l, m \in Loaders : job'[l].card = job'[m].card /\ l # m => job'[l].card = NoCard
    <3>1. \A l, m \in Loaders : l # m /\ claims[l] = claims[m] => claims[l] = NoCard
      BY <1>1
    <3>2. \A l \in Loaders : job'[l].card = claims[l] BY <1>4
    <3> QED BY <3>1, <3>2
  <2>2. \A l \in Loaders : txn'[l] = NoTxn BY <1>2, <1>3
  <2> QED BY <1>4, <2>1, <2>2 DEF JobsApart
<1>7. \A l \in Loaders : job'[l].phase # "load" BY <1>4
<1> QED BY <1>2, <1>5, <1>6, <1>7, NothingLoaded

LEMMA RestartHolds ==
    ASSUME LoadsInv, Restarted
    PROVE  LoadsInv'
<1>1. /\ rows' = rows /\ job' = [l \in Loaders |-> NoJob]
      /\ txn' = [t \in Txns |-> IF t \in Loaders THEN NoTxn ELSE txn[t]]
  BY DEF Restarted
<1>2. /\ \A l \in Loaders : txn'[l] = NoTxn /\ job'[l] = NoJob
      /\ Remover \in Txns /\ txn'[Remover] = txn[Remover]
      /\ \A t \in Txns : t \in Loaders \/ t = Remover
  BY <1>1, ListingsAssumption DEF Txns
<1>3. ListingTypes'
  <2>1. NoJob \in Job BY DEF NoJob, Job
  <2> QED BY <1>1, <2>1, Emptiness DEF LoadsInv, ListingTypes
<1>4. JobsApart' BY <1>2 DEF JobsApart, NoJob
<1>5. RemoverOK' BY <1>2 DEF LoadsInv, RemoverOK, Phase
<1>6. ASSUME NEW t \in Txns PROVE Locked(t)'
  <2>1. CASE t \in Loaders BY <1>2, <2>1 DEF Locked, NoTxn
  <2>2. CASE t = Remover
    <3>1. \A o \in Txns \ {t} : DOMAIN txn'[o].writes \cap DOMAIN txn[t].writes = {}
      BY <1>2, <2>2 DEF NoTxn
    <3> QED BY <1>1, <1>2, <2>2, <3>1, LockKept DEF LoadsInv
  <2> QED BY <1>2, <2>1, <2>2
<1>7. \A l \in Loaders : job'[l].phase # "load" BY <1>2 DEF NoJob
<1> QED BY <1>3, <1>4, <1>5, <1>6, <1>7 DEF LoadsInv

-----------------------------------------------------------------------------
(* The invariant.                                                          *)

LEMMA LoadsBegin == InitRound => LoadsInv
<1> SUFFICES ASSUME InitRound PROVE LoadsInv OBVIOUS
<1>1. /\ rows = [k \in Keys |-> NoRow] /\ txn = [t \in Txns |-> NoTxn]
      /\ job = [l \in Loaders |-> NoJob]
  BY DEF InitRound, Init
<1>2. NoJob \in Job /\ NoRow \in Row BY DEF NoJob, Job, NoRow, Row
<1>3. ListingTypes BY <1>1, <1>2, Emptiness DEF ListingTypes
<1>4. JobsApart BY <1>1 DEF JobsApart, NoJob, Txns
<1>5. txn[Remover] = NoTxn BY <1>1 DEF Txns
<1>6. RemoverOK BY <1>5 DEF RemoverOK, NoTxn, Phase
<1>7. \A t \in Txns : Locked(t) BY <1>1 DEF Locked, NoTxn
<1>8. \A l \in Loaders : job[l].phase # "load" BY <1>1 DEF NoJob
<1> QED BY <1>3, <1>4, <1>6, <1>7, <1>8 DEF LoadsInv

LEMMA LoadsStep == LoadsInv /\ [NextRound]_vars => LoadsInv'
<1> SUFFICES ASSUME LoadsInv, [NextRound]_vars PROVE LoadsInv' OBVIOUS
<1>s. ASSUME rows' = rows, txn' = txn, job' = job PROVE LoadsInv'
  <2>1. job' \in [Loaders -> Job] BY <1>s DEF LoadsInv, ListingTypes
  <2>2. JobsApart' BY <1>s DEF LoadsInv, JobsApart
  <2>3. \A l \in Loaders : job'[l].phase = "load" => job[l].phase = "load" BY <1>s
  <2> QED BY <1>s, <2>1, <2>2, <2>3, NothingLoaded
<1>1. CASE StartRound BY <1>1, StartHolds
<1>2. ASSUME NEW l \in Loaders, Request(l) PROVE LoadsInv'
  <2>1. rows' = rows /\ txn' = txn BY <1>2 DEF Request, listingVars
  <2> QED BY <1>2, <2>1, CallHolds
<1>3. ASSUME NEW l \in Loaders, Extracted(l) PROVE LoadsInv'
  BY <1>3, BeginLoadHolds
<1>4. ASSUME NEW l \in Loaders, FetchFails(l) PROVE LoadsInv'
  <2>1. rows' = rows /\ txn' = txn BY <1>4 DEF FetchFails, listingVars
  <2> QED BY <1>4, <2>1, CallHolds
<1>5. ASSUME NEW l \in Loaders, LoadStep(l) PROVE LoadsInv'
  <2>1. job[l].phase = "load" BY <1>5 DEF LoadStep
  <2>2. CASE Begin(l) /\ job' = job BY <2>1, <2>2, BeginHolds
  <2>3. CASE LockRow(l) /\ job' = job BY <2>1, <2>3, LockRowHolds
  <2>4. CASE (CheckCard(l) \/ TakeRow(l, "job")) /\ job' = job
    BY <2>1, <2>4, PassHolds
  <2>5. CASE \/ CommitLoad(l) /\ job' = [job EXCEPT ![l] = [NoJob EXCEPT !.phase = "done"]]
             \/ LoadFails(l) /\ Goes(l, "failed")
    BY <2>1, <2>5, LoadEnds
  <2> QED BY <1>5, <2>2, <2>3, <2>4, <2>5 DEF LoadStep
<1>6. ASSUME NEW l \in Loaders, RecordFailure(l) PROVE LoadsInv'
  <2>1. CASE Restarted BY <2>1, RestartHolds
  <2>2. CASE ~Restarted
    <3>1. /\ job[l].phase = "failed" /\ job' = [job EXCEPT ![l] = NoJob]
          /\ rows' = rows /\ txn' = txn
      BY <1>6, <2>2 DEF RecordFailure, listingVars
    <3> QED BY <3>1, CallHolds
  <2> QED BY <2>1, <2>2
<1>7. CASE PacingStep
  BY <1>s, <1>7 DEF PacingStep, listingVars
<1>8. CASE RemoveCard
  <2>1. job' = job BY <1>8 DEF RemoveCard
  <2>2. CASE \E card \in Removable : BeginRemove(card) BY <2>1, <2>2, BeginRemoveHolds
  <2>3. CASE TakeRow(Remover, "card") \/ TakeRow(Remover, "target")
    BY <2>1, <2>3, TakeRowHolds
  <2>4. CASE Begin(Remover) BY <2>1, <2>4, BeginDetachHolds
  <2>5. CASE LockRow(Remover) BY <2>1, <2>5, DetachHolds
  <2>6. CASE CommitRemove \/ RemoveFails BY <2>1, <2>6, RemoveEnds
  <2> QED BY <1>8, <2>2, <2>3, <2>4, <2>5, <2>6 DEF RemoveCard, RemoveStep
<1>9. CASE Crash BY <1>9, RestartHolds DEF Crash
<1>10. CASE UNCHANGED vars BY <1>s, <1>10 DEF vars, listingVars
<1> QED BY <1>1, <1>2, <1>3, <1>4, <1>5, <1>6, <1>7, <1>8, <1>9, <1>10
        DEF NextRound, CallStep

LEMMA LoadsInvariance == Spec => []LoadsInv
<1>1. InitRound => LoadsInv BY LoadsBegin
<1>2. LoadsInv /\ [NextRound]_vars => LoadsInv' BY LoadsStep
<1> QED BY <1>1, <1>2, PTL DEF Spec

-----------------------------------------------------------------------------
(* What is committed.                                                      *)

(* A load is done when it commits, and only then.                          *)
LEMMA DoneByCommit ==
    ASSUME LoadsInv, [NextRound]_vars, NEW l \in Loaders, Loaded(l)
    PROVE  CommitLoad(l)
<1>1. /\ job[l].phase = "load" /\ job'[l].phase = "done"
      /\ job \in [Loaders -> Job] /\ job[l] \in Job
  BY DEF Loaded, LoadsInv, ListingTypes
<1>2. ASSUME NEW m \in Loaders, NEW new, job' = [job EXCEPT ![m] = new],
             new.phase # "done"
      PROVE  FALSE
  BY <1>1, <1>2
<1>3. job' # job BY <1>1
<1>4. ~StartRound BY <1>1 DEF StartRound, Rest
<1>5. ~Restarted BY <1>1 DEF Restarted, NoJob
<1>6. ASSUME NEW m \in Loaders PROVE ~Request(m) /\ ~Extracted(m) /\ ~FetchFails(m)
  <2>1. ~Request(m)
    <3> DEFINE new == [job[m] EXCEPT !.asked = TRUE]
    <3>1. ASSUME Request(m) PROVE job' = [job EXCEPT ![m] = new] /\ job[m].phase = "fetch"
      BY <1>1, <3>1 DEF Request
    <3>2. job[m].phase = "fetch" => new.phase # "done" BY <1>1 DEF Job
    <3> HIDE DEF new
    <3> QED BY <1>2, <3>1, <3>2
  <2>2. ~Extracted(m)
    <3> DEFINE new == [job[m] EXCEPT !.phase = "load"]
    <3>1. Extracted(m) => job' = [job EXCEPT ![m] = new] BY <1>1 DEF Extracted, Goes
    <3>2. new.phase # "done" BY <1>1 DEF Job
    <3> HIDE DEF new
    <3> QED BY <1>2, <3>1, <3>2
  <2>3. ~FetchFails(m)
    <3> DEFINE new == [job[m] EXCEPT !.phase = "failed"]
    <3>1. FetchFails(m) => job' = [job EXCEPT ![m] = new] BY <1>1 DEF FetchFails, Goes
    <3>2. new.phase # "done" BY <1>1 DEF Job
    <3> HIDE DEF new
    <3> QED BY <1>2, <3>1, <3>2
  <2> QED BY <2>1, <2>2, <2>3
<1>7. ASSUME NEW m \in Loaders PROVE ~RecordFailure(m)
  <2>1. ASSUME RecordFailure(m) PROVE job' = [job EXCEPT ![m] = NoJob]
    BY <1>5, <2>1 DEF RecordFailure
  <2>2. NoJob.phase # "done" BY DEF NoJob
  <2> QED BY <1>2, <2>1, <2>2
<1>8. ASSUME NEW m \in Loaders, LoadStep(m) PROVE m = l /\ CommitLoad(l)
  <2>1. ~Goes(m, "failed")
    <3> DEFINE new == [job[m] EXCEPT !.phase = "failed"]
    <3>1. Goes(m, "failed") => job' = [job EXCEPT ![m] = new] BY <1>1 DEF Goes
    <3>2. new.phase # "done" BY <1>1 DEF Job
    <3> HIDE DEF new
    <3> QED BY <1>2, <3>1, <3>2
  <2>2. /\ CommitLoad(m) /\ job' = [job EXCEPT ![m] = [NoJob EXCEPT !.phase = "done"]]
    BY <1>3, <1>8, <2>1 DEF LoadStep
  <2>3. m = l BY <1>1, <2>2
  <2> QED BY <2>2, <2>3
<1>9. ~PacingStep /\ ~RemoveCard /\ ~UNCHANGED vars
  BY <1>3 DEF PacingStep, RemoveCard, vars
<1> QED BY <1>4, <1>5, <1>6, <1>7, <1>8, <1>9 DEF NextRound, CallStep, Crash

(* When a load commits every statement of it has been made.                *)
LEMMA CommitMade ==
    ASSUME LoadsInv, NEW l \in Loaders, job[l].phase = "load", CommitLoad(l)
    PROVE  /\ txn[l].card \in Cards /\ txn[l].seen \in Observations[txn[l].card]
           /\ \A k \in Keys : rows'[k] = Sees(l, k) /\ Sees(l, k) \in Row
           /\ \A k \in Listed(l) : /\ Stored(l, k)
                                   /\ k \in Keys /\ Sees(l, k).card = txn[l].card
           /\ \A k \in Keys : ~OnSale(l, k)
           /\ txn[l].seen.empty => \A k \in Keys : ~OnOffer(l, k)
<1>1. Phase(l) = "target" /\ rows' = Committed(l) BY DEF CommitLoad, Takes
<1>2. LoadOK(l) /\ Locked(l) /\ l \in Txns /\ l # Remover BY Loading
<1>3. /\ txn[l].card \in Cards /\ txn[l].seen \in Observations[txn[l].card]
      /\ \A k \in Listed(l) : Stored(l, k)
      /\ \A k \in Keys : ~OnSale(l, k)
      /\ txn[l].seen.empty => \A k \in Keys : ~OnOffer(l, k)
  <2> HIDE DEF Phase, Listed, OnSale, OnOffer, Stored, PlanAt
  <2> QED BY <1>1, <1>2 DEF LoadOK
<1>4. \A k \in Keys : rows'[k] = Sees(l, k) /\ Sees(l, k) \in Row
  BY <1>1, <1>2, TxnTypes DEF Committed, LoadsInv
<1>5. ASSUME NEW k \in Listed(l) PROVE k \in Keys /\ Sees(l, k).card = txn[l].card
  <2>1. k \in DOMAIN txn[l].writes BY <1>3 DEF Stored
  <2>2. k \in Keys BY <1>2, <2>1, TxnTypes DEF LoadsInv
  <2>3. txn[l].writes[k].card = txn[l].card BY <1>2, <2>1 DEF Locked
  <2> QED BY <2>1, <2>2, <2>3 DEF Sees
<1> QED BY <1>3, <1>4, <1>5

(* For every set of calls, cards, rows and pages, and for every way their  *)
(* row locks interleave: a load that commits leaves every row it listed    *)
(* its own, with the units it saw.                                         *)
THEOREM Whole == Spec => LoadIsWhole
<1>1. ASSUME LoadsInv, [NextRound]_vars, NEW l \in Loaders, Loaded(l),
             NEW found \in ToSet(txn[l].seen.rows)
      PROVE  rows'[found.key] = [card |-> txn[l].card, stock |-> found.stock,
                                active |-> ~txn[l].seen.empty]
  <2> DEFINE k == found.key
             row == Sees(l, k)
  <2>1. CommitLoad(l) /\ job[l].phase = "load" /\ l \in Txns
    BY <1>1, DoneByCommit DEF Loaded, Txns
  <2>2. k \in Listed(l) BY <1>1 DEF Listed
  <2>3. /\ txn[l].card \in Cards /\ txn[l].seen \in Observations[txn[l].card]
        /\ k \in Keys /\ rows'[k] = row /\ row \in Row /\ row.card = txn[l].card
        /\ Stored(l, k)
        /\ txn[l].seen.empty => ~OnOffer(l, k)
    BY <1>1, <2>1, <2>2, CommitMade
  <2>4. Inserted(l, k).stock = found.stock
    <3>1. found \in ToSet(txn[l].seen.rows) BY <1>1
    <3>2. Inserted(l, found.key) =
             [card |-> txn[l].card, stock |-> found.stock, active |-> TRUE]
      BY <2>1, <2>3, <3>1, InsertedRow
    <3> HIDE DEF Inserted
    <3> QED BY <3>2
  <2>5. row.stock = found.stock /\ (txn[l].seen.empty \/ row.active)
    <3> HIDE DEF k
    <3>1. row = txn[l].writes[k] BY <2>3 DEF Stored, Sees
    <3> HIDE DEF row, Inserted
    <3> QED BY <2>3, <2>4, <3>1 DEF Stored
  <2>6. txn[l].seen.empty => ~row.active BY <2>3 DEF OnOffer
  <2> HIDE DEF row
  <2>7. row = [card |-> row.card, stock |-> row.stock, active |-> row.active]
        /\ row.active \in BOOLEAN
    BY <2>3 DEF Row
  <2> QED BY <2>3, <2>5, <2>6, <2>7
<1>2. LoadsInv /\ [NextRound]_vars =>
         [\A l \in Loaders : Loaded(l) =>
             \A listing \in ToSet(txn[l].seen.rows) :
                 rows'[listing.key] = [card |-> txn[l].card, stock |-> listing.stock,
                                      active |-> ~txn[l].seen.empty]]_vars
  BY <1>1
<1> QED BY <1>2, LoadsInvariance, PTL DEF Spec, LoadIsWhole

(* After a load no active row of its card shows stock for a code it was    *)
(* told is sold out, whoever had the row locked while it was zeroed.       *)
THEOREM SoldOutRows == Spec => SoldOutAmongOthers
<1>1. ASSUME LoadsInv, [NextRound]_vars, NEW l \in Loaders, Loaded(l), NEW k \in Keys,
             rows'[k].card = txn[l].card, rows'[k].active,
             CodeOf[k] \in txn[l].seen.out,
             \A found \in ToSet(txn[l].seen.rows) :
                CodeOf[found.key] = CodeOf[k] => found.stock = 0
      PROVE  rows'[k].stock = 0
  <2>1. CommitLoad(l) /\ job[l].phase = "load"
    BY <1>1, DoneByCommit DEF Loaded
  <2>2. rows'[k] = Sees(l, k) /\ ~OnSale(l, k) BY <1>1, <2>1, CommitMade
  <2>3. CodeOf[k] \in CodesToZero(txn[l].seen)
    <3>1. ASSUME NEW s \in ToSet(txn[l].seen.rows), s.stock > 0
          PROVE  CodeOf[s.key] # CodeOf[k]
      BY <1>1, <3>1
    <3> QED BY <1>1, <3>1 DEF CodesToZero
  <2> QED BY <1>1, <2>2, <2>3 DEF OnSale
<1>2. LoadsInv /\ [NextRound]_vars =>
         [\A l \in Loaders : Loaded(l) =>
             \A k \in Keys :
                 /\ rows'[k].card = txn[l].card
                 /\ rows'[k].active
                 /\ CodeOf[k] \in txn[l].seen.out
                 /\ \A listing \in ToSet(txn[l].seen.rows) :
                       CodeOf[listing.key] = CodeOf[k] => listing.stock = 0
                 => rows'[k].stock = 0]_vars
  BY <1>1
<1> QED BY <1>2, LoadsInvariance, PTL DEF Spec, SoldOutAmongOthers

(* The table changes only when a transaction commits.                      *)
LEMMA ChangedByCommit ==
    ASSUME LoadsInv, [NextRound]_vars, rows' # rows
    PROVE  \E t \in Txns : /\ Phase(t) # "off" /\ rows' = Committed(t)
                           /\ txn' = [txn EXCEPT ![t] = NoTxn]
<1>1. ~StartRound /\ ~PacingStep /\ ~Restarted /\ ~UNCHANGED vars
  BY DEF StartRound, PacingStep, Restarted, vars, listingVars
<1>2. ASSUME NEW l \in Loaders
      PROVE  ~Request(l) /\ ~Extracted(l) /\ ~FetchFails(l) /\ ~RecordFailure(l)
  BY <1>1 DEF Request, Extracted, BeginLoad, FetchFails, RecordFailure, listingVars
<1>3. ASSUME NEW l \in Loaders, LoadStep(l) PROVE CommitLoad(l)
  BY <1>3 DEF LoadStep, Begin, LockRow, CheckCard, TakeRow, LoadFails, Rollback
<1>4. ASSUME RemoveCard PROVE CommitRemove
  BY <1>4 DEF RemoveCard, RemoveStep, BeginRemove, TakeRow, Begin, LockRow,
              RemoveFails, Rollback
<1>5. (\E l \in Loaders : CommitLoad(l)) \/ CommitRemove
  BY <1>1, <1>2, <1>3, <1>4 DEF NextRound, CallStep, Crash
<1> QED BY <1>5 DEF CommitLoad, CommitRemove, Takes, Txns

(* A row that belongs to a card is changed by a transaction of that card   *)
(* or by a load that lists it, whatever became of the row while it was     *)
(* locked.                                                                 *)
THEOREM OthersKept == Spec => OthersRowsKept
<1>1. ASSUME LoadsInv, [NextRound]_vars, NEW k \in Keys, rows'[k] # rows[k]
      PROVE  \E t \in Txns : /\ txn[t] # NoTxn /\ txn'[t] = NoTxn
                             /\ txn[t].card = rows[k].card \/ k \in Listed(t)
  <2>1. PICK t \in Txns : /\ Phase(t) # "off" /\ rows' = Committed(t)
                          /\ txn' = [txn EXCEPT ![t] = NoTxn]
    BY <1>1, ChangedByCommit
  <2>2. rows'[k] = Sees(t, k) BY <2>1 DEF Committed
  <2>3. k \in DOMAIN txn[t].writes BY <1>1, <2>2 DEF Sees
  <2>4. Locked(t) BY <1>1 DEF LoadsInv
  <2>5. txn[t] # NoTxn BY <2>1 DEF Phase, NoTxn
  <2>6. txn'[t] = NoTxn BY <1>1, <2>1 DEF LoadsInv, ListingTypes
  <2> QED BY <2>3, <2>4, <2>5, <2>6 DEF Locked
<1>2. LoadsInv /\ [NextRound]_vars =>
         [\A k \in Keys : rows[k].card # NoCard /\ rows'[k] # rows[k] =>
             \E t \in Txns :
                 /\ txn[t] # NoTxn /\ txn'[t] = NoTxn
                 /\ txn[t].card = rows[k].card \/ k \in Listed(t)]_vars
  BY <1>1
<1> QED BY <1>2, LoadsInvariance, PTL DEF Spec, OthersRowsKept

-----------------------------------------------------------------------------
(***************************************************************************)
(* What a job loads (SearchCrawl, PageReadings), for any pages and         *)
(* answers of the store, any products and any number of search pages.      *)
(***************************************************************************)
DbRow == [mine : BOOLEAN, stock : {0, 1}, active : BOOLEAN]

(* What a store may have shown.                                            *)
Testimony(w) ==
    /\ w = [products |-> w.products, more |-> w.more, read |-> w.read, in |-> w.in,
            out |-> w.out, stands |-> w.stands, nothing |-> w.nothing]
    /\ w.more \in BOOLEAN /\ w.nothing \in BOOLEAN

CrawlTypes ==
    /\ \A id \in DOMAIN db : db[id] \in DbRow
    /\ got = [listings |-> got.listings, inStock |-> got.inStock,
              out |-> got.out, empty |-> got.empty]
    /\ \A id \in DOMAIN got.listings : got.listings[id] \in {0, 1}
    /\ got.empty \in BOOLEAN
    /\ Testimony(shown)
    /\ confirmed \in BOOLEAN
    /\ DOMAIN listed \subseteq Urls
    /\ products \in Seq(Urls) /\ ToSet(products) \subseteq DOMAIN listed

(* Nothing has been shown to a job that waits for its first answer.        *)
FirstOK ==
    phase = "first" =>
        /\ got = NoResult /\ shown = NothingShown
        /\ DOMAIN listed = {} /\ products = << >> /\ ~confirmed

(* The products found so far are those the search pages have shown, and no *)
(* page of a product has been read.                                        *)
SearchOK ==
    phase = "search" =>
        /\ got = NoResult
        /\ shown.read = {} /\ shown.in = {} /\ shown.stands = {}
        /\ ToSet(products) = DOMAIN listed /\ shown.products = DOMAIN listed
        /\ confirmed => shown.nothing

(* A code that stands as sold out is one to zero unless some product has it.*)
OutKnown == shown.stands \subseteq got.out /\ got.inStock \subseteq shown.in

(* Of the products shown, those that are not left to fetch have been read. *)
FetchOK ==
    phase = "products" =>
        /\ products # << >>
        /\ ~shown.more
        /\ shown.products = shown.read \cup ToSet(products)
        /\ ~got.empty
        /\ OutKnown

LoadOfAll ==
    phase = "load" =>
        /\ ~shown.more /\ shown.read = shown.products
        /\ got.empty => shown.nothing /\ shown.products = {}
        /\ OutKnown

CrawlInv == CrawlTypes /\ FirstOK /\ SearchOK /\ FetchOK /\ LoadOfAll

-----------------------------------------------------------------------------
(* A page, as it is read                                                   *)

LEMMA Greatest ==
    ASSUME NEW n \in Nat, NEW S \in SUBSET (1 .. n), S # {}
    PROVE  \E m \in S : \A i \in S : i <= m
<1> DEFINE R == OpToRel(<, Nat)
           T == {n - i : i \in S}
<1>1. T \in SUBSET Nat /\ T # {}
  <2>1. \A i \in S : n - i \in Nat OBVIOUS
  <2> QED BY <2>1
<1>2. PICK t \in T : \A u \in T : <<u, t>> \notin R
  BY <1>1, NatLessThanWellFounded, WFMin
<1>3. \A u \in T : u < t => <<u, t>> \in R BY <1>1 DEF OpToRel
<1>4. PICK m \in S : t = n - m BY <1>2
<1>5. ASSUME NEW i \in S PROVE i <= m
  <2>1. n - i \in T OBVIOUS
  <2>2. ~(n - i < t) BY <1>2, <1>3, <2>1
  <2>3. i \in Nat /\ m \in Nat /\ n \in Nat OBVIOUS
  <2> QED BY <1>4, <2>2, <2>3
<1> QED BY <1>5

(* The last of the rows with an identity is one of them.                   *)
LEMMA LastRow ==
    ASSUME NEW list \in Seq(PageRow), NEW k \in Parsed(list)
    PROVE  LET id == Identity(list[k])
           IN  LastOf(list, id) \in Same(list, id)
<1> DEFINE id == Identity(list[k])
           S == Same(list, id)
<1>1. Len(list) \in Nat /\ DOMAIN list = 1 .. Len(list) BY LenProperties
<1>2. S \in SUBSET (1 .. Len(list)) /\ k \in S
  BY <1>1 DEF Same, Parsed
<1>3. \E m \in S : \A i \in S : i <= m BY <1>1, <1>2, Greatest
<1>4. LastOf(list, id) = CHOOSE m \in S : \A i \in S : i <= m
  BY DEF LastOf
<1> HIDE DEF S, id
<1>5. LastOf(list, id) \in S BY <1>3, <1>4
<1> QED BY <1>5 DEF S, id

(* One listing for each identity: the units of some row that gives it.     *)
LEMMA OneOfEach ==
    ASSUME NEW list \in Seq(PageRow)
    PROVE  LET found == Deduplicated(list)
           IN  /\ DOMAIN found = {Identity(list[i]) : i \in Parsed(list)}
               /\ \A id \in DOMAIN found : id = <<id[1], id[2]>>
               /\ \A id \in DOMAIN found :
                     \E i \in DOMAIN list : /\ list[i].code = id[1]
                                            /\ found[id] = list[i].stock
<1> DEFINE found == Deduplicated(list)
<1>1. DOMAIN found = {Identity(list[i]) : i \in Parsed(list)}
  BY DEF Deduplicated
<1>2. ASSUME NEW id \in DOMAIN found
      PROVE  \E i \in DOMAIN list : list[i].code = id[1] /\ found[id] = list[i].stock
  <2>1. PICK k \in Parsed(list) : id = Identity(list[k]) BY <1>1
  <2>2. LastOf(list, id) \in Same(list, id) BY <2>1, LastRow
  <2>3. found[id] = list[LastOf(list, id)].stock BY <1>1 DEF Deduplicated
  <2> QED BY <2>2, <2>3 DEF Same, Parsed, Identity
<1>3. \A id \in DOMAIN found : id = <<id[1], id[2]>>
  BY <1>1 DEF Identity
<1> QED BY <1>1, <1>2, <1>3

Rows(page) == ToSet(page.rows) \cup ToSet(page.loose)

(* What the rest of a job uses of a page.                                  *)
LEMMA Reading ==
    ASSUME NEW page \in Page
    PROVE  LET t == Transform(page)
           IN  /\ t.empty \in BOOLEAN
               /\ t.empty => page.saysEmpty
               /\ t.out = OutCodes(page)
               /\ \A id \in DOMAIN t.listings :
                     t.listings[id] \in {0, 1} /\ id = <<id[1], id[2]>>
               /\ InStock(t.listings) \subseteq
                     {r.code : r \in {w \in Rows(page) : w.stock > 0}}
               /\ DOMAIN t.listings = {} <=> NoOffers(page)
<1> DEFINE t == Transform(page)
           list == Offers(page)
<1>1. /\ t.empty = Empty(page) /\ t.out = OutCodes(page)
      /\ t.listings = Deduplicated(list)
  BY DEF Transform
<1>2. /\ page.saysEmpty \in BOOLEAN /\ page.table \in BOOLEAN
      /\ page.rows \in Seq(PageRow) /\ page.loose \in Seq(PageRow)
  BY DEF Page
<1>3. list \in Seq(PageRow) /\ ToSet(list) \subseteq Rows(page)
  BY <1>2 DEF Offers, Rows
<1> HIDE DEF list
<1>4. /\ DOMAIN t.listings = {Identity(list[i]) : i \in Parsed(list)}
      /\ \A id \in DOMAIN t.listings :
            \E i \in DOMAIN list : /\ list[i].code = id[1]
                                   /\ t.listings[id] = list[i].stock
      /\ \A id \in DOMAIN t.listings : id = <<id[1], id[2]>>
  <2> DEFINE found == Deduplicated(list)
  <2>1. /\ DOMAIN found = {Identity(list[i]) : i \in Parsed(list)}
        /\ \A id \in DOMAIN found :
              \E i \in DOMAIN list : /\ list[i].code = id[1]
                                     /\ found[id] = list[i].stock
        /\ \A id \in DOMAIN found : id = <<id[1], id[2]>>
    BY <1>3, OneOfEach
  <2>2. t.listings = found BY <1>1
  <2> HIDE DEF found, t
  <2> QED BY <2>1, <2>2
<1>5. \A i \in DOMAIN list : list[i] \in PageRow /\ list[i] \in Rows(page)
  BY <1>3 DEF ToSet
<1>6. \A id \in DOMAIN t.listings :
         t.listings[id] \in {0, 1} /\ id = <<id[1], id[2]>>
  BY <1>4, <1>5 DEF PageRow
<1>7. ASSUME NEW code \in InStock(t.listings)
      PROVE  code \in {r.code : r \in {w \in Rows(page) : w.stock > 0}}
  <2>1. PICK id \in DOMAIN t.listings : t.listings[id] > 0 /\ code = id[1]
    BY DEF InStock
  <2>2. PICK i \in DOMAIN list : /\ list[i].code = id[1]
                                 /\ t.listings[id] = list[i].stock
    BY <1>4
  <2> QED BY <1>5, <2>1, <2>2
<1>8. DOMAIN t.listings = {} <=> NoOffers(page)
  BY <1>4 DEF NoOffers, list
<1>9. t.empty \in BOOLEAN /\ (t.empty => page.saysEmpty)
  BY <1>1, <1>2 DEF Empty
<1> HIDE DEF t
<1>10. t.out = OutCodes(page) BY <1>1
<1> QED BY <1>6, <1>7, <1>8, <1>9, <1>10 DEF t

LEMMA EmptyPages == EmptyIsSaid
<1> SUFFICES ASSUME NEW page \in Pages,
                    Transform(page).error = "none",
                    DOMAIN Transform(page).listings = {}
             PROVE  IF page.rows = << >> THEN page.table /\ page.saysEmpty
                    ELSE \A i \in 1 .. Len(page.rows) : page.rows[i].out
  BY DEF EmptyIsSaid
<1>1. /\ page.rows \in Seq(PageRow) /\ page.loose \in Seq(PageRow)
      /\ page.table \in BOOLEAN /\ page.saysEmpty \in BOOLEAN /\ page \in Page
  <2>1. PICK n \in 0 .. MaxRows : page.rows \in [1 .. n -> PageRow]
    BY DEF Pages
  <2>2. PICK m \in 0 .. MaxLoose : page.loose \in [1 .. m -> PageRow]
    BY DEF Pages
  <2>3. n \in Nat /\ m \in Nat BY ReadingsAssumption
  <2>4. page.rows \in Seq(PageRow) /\ page.loose \in Seq(PageRow)
    BY <2>1, <2>2, <2>3
  <2> QED BY <2>4 DEF Pages, Page
<1>2. NoOffers(page) BY <1>1, Reading
<1>3. ~RowsRejected(page) /\ ~Unrecognized(page)
  BY DEF Transform
<1>4. CASE page.rows = << >>
  BY <1>2, <1>3, <1>4 DEF Unrecognized, Empty
<1>5. CASE page.rows # << >>
  <2>1. SoldOut(page.rows) = DOMAIN page.rows
    BY <1>2, <1>3, <1>5 DEF RowsRejected
  <2>2. DOMAIN page.rows = 1 .. Len(page.rows) BY <1>1, LenProperties
  <2>3. \A i \in DOMAIN page.rows : page.rows[i].out BY <2>1 DEF SoldOut
  <2> QED BY <1>5, <2>2, <2>3
<1> QED BY <1>4, <1>5

(* Whatever page a job gets, with however many rows, it is taken to offer  *)
(* nothing only if all of its rows are sold out or its text says so.       *)
THEOREM NothingUnsaid == SpecCrawl => []NothingOnlyIfSaid
<1>1. NothingOnlyIfSaid BY EmptyPages DEF NothingOnlyIfSaid
<1> QED BY <1>1, PTL

-----------------------------------------------------------------------------
(* What a job remembers of its pages, step by step                         *)

LEMMA Appended ==
    ASSUME NEW S, NEW q \in Seq(S), NEW more \in Seq(S)
    PROVE  q \o more \in Seq(S) /\ ToSet(q \o more) = ToSet(q) \cup ToSet(more)
<1>1. q \o more \in Seq(S) BY ConcatProperties
<1>2. \A s : ToSet(s) = Range(s) BY DEF ToSet, Range
<1>3. Range(q \o more) = Range(q) \cup Range(more) BY RangeConcatenation
<1> QED BY <1>1, <1>2, <1>3

LEMMA OneOrder ==
    ASSUME NEW S, IsFiniteSet(S), NEW q \in Orders(S)
    PROVE  q \in Seq(S) /\ ToSet(q) = S
<1>1. Cardinality(S) \in Nat BY FS_CardinalityType
<1>2. q \in [1 .. Cardinality(S) -> S] /\ ToSet(q) = S
  BY DEF Orders
<1> QED BY <1>1, <1>2

(* The listings of a page, under the key of its product.                   *)
LEMMA KeyedUnits ==
    ASSUME NEW key, NEW units,
           \A k \in DOMAIN units : units[k] \in {0, 1} /\ k = <<k[1], k[2]>>
    PROVE  \A id \in DOMAIN Keyed(key, units) :
              Keyed(key, units)[id] \in {0, 1}
<1> SUFFICES ASSUME NEW id \in DOMAIN Keyed(key, units)
             PROVE  Keyed(key, units)[id] \in {0, 1}
  OBVIOUS
<1>1. PICK k \in DOMAIN units : id = <<key, k[1], k[2]>> BY DEF Keyed
<1>2. Keyed(key, units)[id] = units[<<k[1], k[2]>>]
  BY <1>1 DEF Keyed
<1> QED BY <1>2

LEMMA Blank ==
    /\ NoResult = [listings |-> NoListings, inStock |-> {}, out |-> {},
                         empty |-> FALSE]
    /\ NothingShown = [products |-> {}, more |-> FALSE, read |-> {}, in |-> {},
                       out |-> {}, stands |-> {}, nothing |-> FALSE]
    /\ Testimony(NothingShown)
    /\ DOMAIN NoListings = {}
BY DEF NoResult, NothingShown, NoListings, Testimony

LEMMA CrawlStarts == ASSUME InitCrawl PROVE CrawlInv
<1>1. CrawlTypes
  <2>1. db = [id \in {} |-> 0] /\ listed = [u \in {} |-> 0] /\ products = << >>
    BY DEF InitCrawl
  <2>2. got = NoResult /\ shown = NothingShown /\ confirmed = FALSE
    BY DEF InitCrawl
  <2>3. /\ DOMAIN db = {} /\ DOMAIN listed = {}
        /\ products \in Seq(Urls) /\ ToSet(products) = {}
    BY <2>1 DEF ToSet
  <2>4. DOMAIN got.listings = {} /\ got.empty = FALSE BY <2>2, Blank
  <2>5. got = [listings |-> got.listings, inStock |-> got.inStock,
               out |-> got.out, empty |-> got.empty]
    BY <2>2, Blank
  <2>6. Testimony(shown) BY <2>2, Blank
  <2> QED BY <2>2, <2>3, <2>4, <2>5, <2>6 DEF CrawlTypes
<1> QED BY <1>1 DEF InitCrawl, CrawlInv, FirstOK, SearchOK, FetchOK, LoadOfAll

LEMMA StartKeeps == ASSUME CrawlInv, Start PROVE CrawlInv'
<1>1. CrawlTypes'
  <2>1. db' = db /\ listed' = [u \in {} |-> 0] /\ products' = << >>
    BY DEF Start, Unset
  <2>2. got' = NoResult /\ shown' = NothingShown /\ confirmed' = FALSE
    BY DEF Start, Unset
  <2>3. DOMAIN listed' = {} /\ products' \in Seq(Urls) /\ ToSet(products') = {}
    BY <2>1 DEF ToSet
  <2>4. DOMAIN got'.listings = {} /\ got'.empty = FALSE BY <2>2, Blank
  <2>5. got' = [listings |-> got'.listings, inStock |-> got'.inStock,
                out |-> got'.out, empty |-> got'.empty]
    BY <2>2, Blank
  <2>6. Testimony(shown') BY <2>2, Blank
  <2> QED BY <2>1, <2>2, <2>3, <2>4, <2>5, <2>6 DEF CrawlInv, CrawlTypes
<1> QED BY <1>1 DEF Start, Unset, CrawlInv, FirstOK, SearchOK, FetchOK, LoadOfAll

LEMMA FailKeeps == ASSUME CrawlInv, Fail PROVE CrawlInv'
<1>1. CrawlTypes' BY DEF CrawlInv, Fail, searching, CrawlTypes
<1> QED BY <1>1 DEF Fail, CrawlInv, FirstOK, SearchOK, FetchOK, LoadOfAll

LEMMA FirstIsSearchKeeps == ASSUME CrawlInv, FirstIsSearch PROVE CrawlInv'
<1>1. CrawlTypes' BY DEF CrawlInv, FirstIsSearch, CrawlTypes
<1>2. FirstOK /\ phase = "first" BY DEF CrawlInv, FirstIsSearch
<1>3. SearchOK' BY <1>2 DEF FirstIsSearch, FirstOK, SearchOK, NothingShown, ToSet
<1> QED BY <1>1, <1>3 DEF FirstIsSearch, CrawlInv, FirstOK, FetchOK, LoadOfAll

(* What a page adds to what has been shown.                                *)
LEMMA Witnessed ==
    ASSUME CrawlTypes, NEW page \in Page, NEW url
    PROVE  LET w == Witness(page, url)
           IN  /\ Testimony(w)
               /\ w.products = shown.products /\ w.more = shown.more
               /\ w.read = shown.read \cup url
               /\ w.in = shown.in \cup {r.code : r \in {x \in Rows(page) : x.stock > 0}}
               /\ w.nothing = (shown.nothing \/ page.saysEmpty)
               /\ w.stands = IF Transform(page).error = "none"
                             THEN shown.stands \cup OutCodes(page) ELSE shown.stands
<1>1. page.saysEmpty \in BOOLEAN BY DEF Page
<1>2. Testimony(shown) BY DEF CrawlTypes
<1> DEFINE places == ToSet(page.rows) \cup ToSet(page.loose)
           in == shown.in \cup {r.code : r \in {x \in places : x.stock > 0}}
           out == shown.out \cup OutCodes(page)
           stands == IF Transform(page).error = "none"
                     THEN shown.stands \cup OutCodes(page) ELSE shown.stands
           nothing == shown.nothing \/ page.saysEmpty
<1>3. Witness(page, url) =
         [shown EXCEPT !.read = shown.read \cup url, !.in = in, !.out = out,
                       !.stands = stands, !.nothing = nothing]
  BY DEF Witness
<1>4. places = Rows(page) BY DEF Rows
<1>5. in = shown.in \cup {r.code : r \in {x \in Rows(page) : x.stock > 0}}
  BY <1>4
<1>6. nothing \in BOOLEAN BY <1>1, <1>2 DEF Testimony
<1> HIDE DEF in, out, stands, nothing
<1>7. Witness(page, url) =
         [products |-> shown.products, more |-> shown.more,
          read |-> shown.read \cup url, in |-> in,
          out |-> out, stands |-> stands, nothing |-> nothing]
  BY <1>2, <1>3 DEF Testimony
<1>8. Testimony(Witness(page, url)) BY <1>2, <1>6, <1>7 DEF Testimony
<1> QED BY <1>5, <1>7, <1>8 DEF stands, nothing

LEMMA FirstIsProductKeeps ==
    ASSUME CrawlInv, FirstIsProduct
    PROVE  CrawlInv'
<1>1. /\ phase = "first" /\ phase' = "load" /\ CrawlTypes /\ FirstOK
      /\ UNCHANGED <<db, listed, products, confirmed>>
  BY DEF CrawlInv, FirstIsProduct, searching
<1>2. PICK page \in ProductPages :
         LET t == Transform(page)
         IN  /\ got' = [listings |-> Keyed(CardTitle, t.listings),
                        inStock |-> InStock(t.listings),
                        out |-> t.out, empty |-> t.empty]
             /\ t.error = "none"
             /\ shown' = Witness(page, {})
  BY DEF FirstIsProduct
<1> DEFINE t == Transform(page)
           w == Witness(page, {})
<1>3. page \in Page BY CrawlAssumption
<1>4. /\ t.empty \in BOOLEAN /\ (t.empty => page.saysEmpty)
      /\ t.out = OutCodes(page)
      /\ \A id \in DOMAIN t.listings :
            t.listings[id] \in {0, 1} /\ id = <<id[1], id[2]>>
      /\ InStock(t.listings) \subseteq
            {r.code : r \in {x \in Rows(page) : x.stock > 0}}
  BY <1>3, Reading
<1>5. /\ Testimony(w)
      /\ w.products = shown.products /\ w.more = shown.more
      /\ w.read = shown.read \cup {}
      /\ w.in = shown.in \cup {r.code : r \in {x \in Rows(page) : x.stock > 0}}
      /\ w.nothing = (shown.nothing \/ page.saysEmpty)
      /\ w.stands = IF t.error = "none" THEN shown.stands \cup OutCodes(page)
                    ELSE shown.stands
  BY <1>1, <1>3, Witnessed
<1>6. /\ got' = [listings |-> Keyed(CardTitle, t.listings),
                 inStock |-> InStock(t.listings),
                 out |-> t.out, empty |-> t.empty]
      /\ t.error = "none" /\ shown' = w
  BY <1>2
<1>7. \A id \in DOMAIN Keyed(CardTitle, t.listings) :
         Keyed(CardTitle, t.listings)[id] \in {0, 1}
  BY <1>4, KeyedUnits
<1>8. shown.products = {} /\ shown.read = {} /\ ~shown.more
  BY <1>1, Blank DEF FirstOK
<1> HIDE DEF t, w
<1>9. CrawlTypes' BY <1>1, <1>4, <1>5, <1>6, <1>7 DEF CrawlTypes
<1>10. OutKnown' BY <1>1, <1>4, <1>5, <1>6, Blank DEF OutKnown, FirstOK
<1>11. LoadOfAll' BY <1>4, <1>5, <1>6, <1>8, <1>10 DEF LoadOfAll
<1> QED BY <1>1, <1>9, <1>11 DEF CrawlInv, FirstOK, SearchOK, FetchOK

(* A search page that was read: what it showed, and where the job goes.    *)
SearchPage(shows, hits, saysEmpty, next) ==
    /\ Collect(hits)
    /\ confirmed' = (confirmed \/ saysEmpty)
    /\ IF ~next
       THEN IF DOMAIN listed' # {}
            THEN phase' = "products" /\ UNCHANGED got
            ELSE /\ confirmed' /\ phase' = "load"
                 /\ got' = [NoResult EXCEPT !.empty = TRUE]
       ELSE UNCHANGED <<phase, got>>
    /\ current \notin seen
    /\ shown' = SearchWitness(hits, saysEmpty, next)

LEMMA ReadSearchPageKeeps ==
    ASSUME CrawlInv, ReadSearchPage
    PROVE  CrawlInv'
<1>1. /\ phase = "search" /\ CrawlTypes /\ SearchOK
      /\ UNCHANGED <<db, error>>
  BY DEF CrawlInv, ReadSearchPage
<1>r. \E shows \in SUBSET Urls : \E hits \in [shows -> SearchRow] :
      \E others, saysEmpty, next \in BOOLEAN : SearchPage(shows, hits, saysEmpty, next)
  BY ZenonT(40) DEF ReadSearchPage, SearchPage, Understood, Ends
<1>s. PICK shows \in SUBSET Urls : \E hits \in [shows -> SearchRow] :
      \E others, saysEmpty, next \in BOOLEAN : SearchPage(shows, hits, saysEmpty, next)
  BY <1>r
<1>t. PICK hits \in [shows -> SearchRow], saysEmpty \in BOOLEAN, next \in BOOLEAN :
         SearchPage(shows, hits, saysEmpty, next)
  BY <1>s
<1>2. /\ Collect(hits)
      /\ confirmed' = (confirmed \/ saysEmpty)
      /\ IF ~next
         THEN IF DOMAIN listed' # {}
              THEN phase' = "products" /\ UNCHANGED got
              ELSE /\ confirmed' /\ phase' = "load"
                   /\ got' = [NoResult EXCEPT !.empty = TRUE]
         ELSE UNCHANGED <<phase, got>>
      /\ current \notin seen
      /\ shown' = SearchWitness(hits, saysEmpty, next)
  BY <1>t DEF SearchPage
<1>3. PICK new \in Orders(shows \ DOMAIN listed) :
         products' = products \o new /\ DOMAIN listed' = DOMAIN listed \cup shows
  BY <1>2 DEF Collect, Over
<1>4. new \in Seq(Urls) /\ ToSet(new) = shows \ DOMAIN listed
  <2>1. IsFiniteSet(Urls) BY CrawlAssumption
  <2>2. IsFiniteSet(shows \ DOMAIN listed) BY <2>1, FS_Subset
  <2>3. new \in Seq(shows \ DOMAIN listed) /\ ToSet(new) = shows \ DOMAIN listed
    BY <2>2, OneOrder
  <2> QED BY <2>3
<1>5. products' \in Seq(Urls) /\ ToSet(products') = ToSet(products) \cup ToSet(new)
  BY <1>1, <1>3, <1>4, Appended DEF CrawlTypes
<1>6. ToSet(products') = DOMAIN listed' /\ DOMAIN listed' \subseteq Urls
  BY <1>1, <1>3, <1>4, <1>5 DEF SearchOK, CrawlTypes
<1>7. /\ Testimony(shown')
      /\ shown'.products = shown.products \cup shows /\ shown'.more = next
      /\ shown'.nothing = (shown.nothing \/ saysEmpty)
      /\ shown'.read = {} /\ shown'.in = {} /\ shown'.stands = {}
  <2> DEFINE nothing == shown.nothing \/ saysEmpty
             more == next \/ (shown.more /\ current \in seen)
             out == shown.out \cup UNION {OutCode(hits[u]) : u \in DOMAIN hits}
  <2>1. Testimony(shown) BY <1>1 DEF CrawlTypes
  <2>2. shown' = [shown EXCEPT !.products = shown.products \cup shows, !.more = more,
                               !.out = out, !.nothing = nothing]
    BY <1>2 DEF SearchWitness
  <2>3. more = next /\ nothing \in BOOLEAN BY <1>2, <2>1 DEF Testimony
  <2> HIDE DEF nothing, more, out
  <2>4. shown' = [products |-> shown.products \cup shows, more |-> more,
                  read |-> shown.read, in |-> shown.in, out |-> out,
                  stands |-> shown.stands, nothing |-> nothing]
    BY <2>1, <2>2 DEF Testimony
  <2>5. shown.read = {} /\ shown.in = {} /\ shown.stands = {} BY <1>1 DEF SearchOK
  <2>6. Testimony(shown') BY <2>3, <2>4 DEF Testimony
  <2>7. /\ shown'.products = shown.products \cup shows /\ shown'.more = next
        /\ shown'.nothing = nothing
        /\ shown'.read = {} /\ shown'.in = {} /\ shown'.stands = {}
    BY <2>3, <2>4, <2>5
  <2> QED BY <2>6, <2>7 DEF nothing
<1>8. shown'.products = DOMAIN listed' BY <1>1, <1>3, <1>7 DEF SearchOK
<1>9. /\ confirmed' \in BOOLEAN /\ confirmed \in BOOLEAN
      /\ confirmed' => shown'.nothing
  BY <1>1, <1>2, <1>7 DEF SearchOK, CrawlTypes
<1>10. got = NoResult BY <1>1 DEF SearchOK
<1>11. /\ got' = [listings |-> got'.listings, inStock |-> got'.inStock,
                  out |-> got'.out, empty |-> got'.empty]
       /\ DOMAIN got'.listings = {} /\ got'.inStock = {} /\ got'.empty \in BOOLEAN
  <2>1. got' = got \/ got' = [NoResult EXCEPT !.empty = TRUE] BY <1>2
  <2>2. \E empty \in BOOLEAN :
           got' = [listings |-> NoListings, inStock |-> {}, out |-> {},
                   empty |-> empty]
    BY <1>10, <2>1, Blank
  <2>3. PICK empty \in BOOLEAN :
           got' = [listings |-> NoListings, inStock |-> {}, out |-> {},
                   empty |-> empty]
    BY <2>2
  <2> QED BY <2>3, Blank
<1>12. CrawlTypes'
  BY <1>1, <1>5, <1>6, <1>7, <1>9, <1>11 DEF CrawlTypes
<1>13. OutKnown' BY <1>7, <1>11 DEF OutKnown
<1>14. CASE next
  <2>1. phase' = "search" /\ got' = got BY <1>1, <1>2, <1>14
  <2>2. SearchOK' BY <1>6, <1>7, <1>8, <1>9, <1>10, <2>1 DEF SearchOK
  <2> QED BY <1>12, <2>1, <2>2 DEF CrawlInv, FirstOK, FetchOK, LoadOfAll
<1>15. CASE ~next /\ DOMAIN listed' # {}
  <2>1. phase' = "products" /\ got' = got BY <1>2, <1>15
  <2>2. products' # << >> BY <1>6, <1>15 DEF ToSet
  <2>3. ~got'.empty BY <1>10, <2>1, Blank
  <2>4. ~shown'.more BY <1>7, <1>15
  <2>5. FetchOK' BY <1>6, <1>7, <1>8, <1>13, <2>2, <2>3, <2>4 DEF FetchOK
  <2> QED BY <1>12, <2>1, <2>5 DEF CrawlInv, FirstOK, SearchOK, LoadOfAll
<1>16. CASE ~next /\ DOMAIN listed' = {}
  <2>1. phase' = "load" /\ confirmed' BY <1>2, <1>16
  <2>2. LoadOfAll' BY <1>7, <1>8, <1>9, <1>13, <1>16, <2>1 DEF LoadOfAll
  <2> QED BY <1>12, <2>1, <2>2 DEF CrawlInv, FirstOK, SearchOK, FetchOK
<1> QED BY <1>14, <1>15, <1>16

(* A fetched product adds units of its listings and nothing else.          *)
LEMMA FetchProductKeeps ==
    ASSUME CrawlInv, FetchProduct
    PROVE  CrawlInv'
<1> DEFINE url == Head(products)
           code == OutCode(listed[url])
<1>1. /\ phase = "products" /\ CrawlTypes /\ FetchOK
      /\ products' = Tail(products)
      /\ phase' = IF products' = << >> THEN "load" ELSE "products"
      /\ UNCHANGED <<db, listed, confirmed>>
  BY DEF CrawlInv, FetchProduct
<1>2. PICK page \in ProductPages :
         LET t == Transform(page)
             found == IF t.error = "none" THEN t.listings ELSE NoListings
             out == IF t.error = "none" THEN t.out ELSE {}
         IN  /\ got' = [got EXCEPT
                          !.listings = Over(Keyed(Title[url], found),
                                                  got.listings),
                          !.inStock = got.inStock \cup InStock(found),
                          !.out = got.out \cup out \cup SearchCode(url, t)]
             /\ shown' = [Witness(page, {url}) EXCEPT
                            !.stands = Witness(page, {url}).stands \cup code]
  BY DEF FetchProduct
<1> DEFINE t == Transform(page)
           w == Witness(page, {url})
           found == IF t.error = "none" THEN t.listings ELSE NoListings
           out == IF t.error = "none" THEN t.out ELSE {}
           keyed == Keyed(Title[url], found)
<1>3. page \in Page BY CrawlAssumption
<1>4. /\ t.out = OutCodes(page)
      /\ \A id \in DOMAIN t.listings :
            t.listings[id] \in {0, 1} /\ id = <<id[1], id[2]>>
      /\ InStock(t.listings) \subseteq
            {r.code : r \in {x \in Rows(page) : x.stock > 0}}
  BY <1>3, Reading
<1>5. /\ Testimony(w)
      /\ w.products = shown.products /\ w.more = shown.more
      /\ w.read = shown.read \cup {url}
      /\ w.in = shown.in \cup {r.code : r \in {x \in Rows(page) : x.stock > 0}}
      /\ w.stands = IF t.error = "none" THEN shown.stands \cup OutCodes(page)
                    ELSE shown.stands
  BY <1>1, <1>3, Witnessed
<1>6. /\ \A id \in DOMAIN found : found[id] \in {0, 1} /\ id = <<id[1], id[2]>>
      /\ InStock(found) \subseteq
            {r.code : r \in {x \in Rows(page) : x.stock > 0}}
  BY <1>4, Blank DEF InStock
<1>7. w.stands = shown.stands \cup out BY <1>4, <1>5
<1>8. SearchCode(url, t) = code BY DEF SearchCode
<1>9. /\ got' = [got EXCEPT !.listings = Over(keyed, got.listings),
                            !.inStock = got.inStock \cup InStock(found),
                            !.out = got.out \cup out \cup code]
      /\ shown' = [w EXCEPT !.stands = w.stands \cup code]
  BY <1>2, <1>8
<1> HIDE DEF t, w, found, out, code
<1>10. \A id \in DOMAIN keyed : keyed[id] \in {0, 1} BY <1>6, KeyedUnits
<1> HIDE DEF keyed
<1>11. /\ got' = [listings |-> Over(keyed, got.listings),
                  inStock |-> got.inStock \cup InStock(found),
                  out |-> got.out \cup out \cup code, empty |-> got.empty]
       /\ shown' = [products |-> shown.products, more |-> shown.more,
                    read |-> shown.read \cup {url}, in |-> w.in, out |-> w.out,
                    stands |-> shown.stands \cup out \cup code,
                    nothing |-> w.nothing]
       /\ Testimony(shown')
  BY <1>1, <1>5, <1>7, <1>9 DEF CrawlTypes, Testimony
<1>12. \A id \in DOMAIN Over(keyed, got.listings) :
          Over(keyed, got.listings)[id] \in {0, 1}
  BY <1>1, <1>10 DEF Over, CrawlTypes
<1>13. products \in Seq(Urls) /\ products # << >> BY <1>1 DEF CrawlTypes, FetchOK
<1>14. /\ products' \in Seq(Urls) /\ ToSet(<< >>) = {}
       /\ ToSet(products) = {url} \cup ToSet(products')
  BY <1>1, <1>13, FirstAndRest
<1> HIDE DEF url
<1>15. CrawlTypes' BY <1>1, <1>5, <1>11, <1>12, <1>14 DEF CrawlTypes
<1>16. OutKnown' BY <1>1, <1>5, <1>6, <1>11 DEF FetchOK, OutKnown
<1>17. shown'.products = shown'.read \cup ToSet(products')
  BY <1>1, <1>11, <1>14 DEF FetchOK
<1>18. ~got'.empty /\ ~shown'.more BY <1>1, <1>11 DEF FetchOK
<1>19. FetchOK' /\ LoadOfAll'
  BY <1>1, <1>14, <1>16, <1>17, <1>18 DEF FetchOK, LoadOfAll
<1> QED BY <1>1, <1>15, <1>19 DEF CrawlInv, FirstOK, SearchOK

(* What a load makes of a row: it was found or inserted, and is zeroed or  *)
(* deactivated as the result says.                                         *)
LoadedRow(id) ==
    LET row == Upserted[id]
    IN  /\ row \in DbRow /\ db'[id] \in DbRow
        /\ db'[id].mine = row.mine
        /\ db'[id].stock = IF Zeroes(row, id[2]) THEN 0 ELSE row.stock
        /\ db'[id].active <=> row.active /\ ~Deactivates(id, row)
        /\ id \in DOMAIN db /\ db[id].active => row.active

LEMMA LoadWrites ==
    ASSUME CrawlTypes, Load
    PROVE  /\ DOMAIN db' = DOMAIN db \cup DOMAIN got.listings
           /\ \A id \in DOMAIN db' : LoadedRow(id)
<1>1. DOMAIN db' = DOMAIN Upserted BY DEF Load
<1>2. DOMAIN Upserted = DOMAIN db \cup DOMAIN got.listings
  BY DEF Upserted, Over
<1>3. ASSUME NEW id \in DOMAIN Upserted
      PROVE  /\ Upserted[id] \in DbRow
             /\ id \in DOMAIN db /\ db[id].active => Upserted[id].active
  BY <1>2 DEF Upserted, Over, CrawlTypes, DbRow
<1>4. ASSUME NEW id \in DOMAIN db' PROVE LoadedRow(id)
  <2> DEFINE row == Upserted[id]
             stock == IF Zeroes(row, id[2]) THEN 0 ELSE row.stock
             active == row.active /\ ~Deactivates(id, row)
  <2>1. db'[id] = [row EXCEPT !.stock = stock, !.active = active]
    BY <1>1 DEF Load
  <2>2. row \in DbRow BY <1>1, <1>3
  <2>3. active \in BOOLEAN /\ stock \in {0, 1} BY <2>2 DEF DbRow
  <2>4. id \in DOMAIN db /\ db[id].active => row.active BY <1>1, <1>3
  <2> HIDE DEF row, stock, active
  <2>5. db'[id] = [mine |-> row.mine, stock |-> stock, active |-> active]
    BY <2>1, <2>2 DEF DbRow
  <2>6. /\ db'[id] \in DbRow /\ db'[id].mine = row.mine
        /\ db'[id].stock = stock /\ db'[id].active = active
    BY <2>2, <2>3, <2>5 DEF DbRow
  <2> QED BY <2>2, <2>4, <2>6 DEF LoadedRow, row, stock, active
<1> QED BY <1>1, <1>2, <1>4

LEMMA LoadKeeps == ASSUME CrawlInv, Load PROVE CrawlInv'
<1>1. /\ CrawlTypes /\ phase' = "idle"
      /\ UNCHANGED <<listed, products, confirmed, got, shown>>
  BY DEF CrawlInv, Load, searching
<1>2. \A id \in DOMAIN db' : db'[id] \in DbRow
  BY <1>1, LoadWrites DEF LoadedRow
<1>3. CrawlTypes' BY <1>1, <1>2 DEF CrawlTypes
<1> QED BY <1>1, <1>3 DEF CrawlInv, FirstOK, SearchOK, FetchOK, LoadOfAll

(* Another card's load gives a row its units and makes it active.          *)
LEMMA OtherRows ==
    ASSUME CrawlTypes, OtherLoad
    PROVE  /\ DOMAIN db' = DOMAIN db
           /\ \A id \in DOMAIN db : /\ db'[id] \in DbRow
                                    /\ db[id].active => db'[id].active
<1>1. PICK id \in DOMAIN db, units \in {0, 1} :
         db' = [db EXCEPT ![id] = [mine |-> FALSE, stock |-> units, active |-> TRUE]]
  BY DEF OtherLoad
<1> QED BY <1>1 DEF CrawlTypes, DbRow

LEMMA CrawlKeeps ==
    ASSUME CrawlInv, [NextCrawl]_crawlVars
    PROVE  CrawlInv'
<1>1. CASE OtherLoad
  <2>1. CrawlTypes BY DEF CrawlInv
  <2>2. UNCHANGED <<phase, listed, products, confirmed, got, shown>>
    BY <1>1 DEF OtherLoad, searching
  <2>3. CrawlTypes' BY <1>1, <2>1, <2>2, OtherRows DEF CrawlTypes
  <2> QED BY <2>2, <2>3
      DEF CrawlInv, FirstOK, SearchOK, FetchOK, LoadOfAll, OutKnown
<1>2. CASE UNCHANGED crawlVars
  <2>1. UNCHANGED <<db, phase, listed, products, confirmed, got, shown>>
    BY <1>2 DEF crawlVars
  <2> QED BY <2>1 DEF CrawlInv, CrawlTypes, FirstOK, SearchOK, FetchOK, LoadOfAll, OutKnown
<1> QED BY <1>1, <1>2, StartKeeps, FailKeeps, FirstIsProductKeeps, FirstIsSearchKeeps,
           ReadSearchPageKeeps, FetchProductKeeps, LoadKeeps DEF NextCrawl

LEMMA CrawlInvariance == SpecCrawl => []CrawlInv
<1>1. InitCrawl => CrawlInv BY CrawlStarts
<1>2. CrawlInv /\ [NextCrawl]_crawlVars => CrawlInv' BY CrawlKeeps
<1> QED BY <1>1, <1>2, PTL DEF SpecCrawl

(* Every variable of a crawl has its type, and page_number never passes    *)
(* the limit, whatever pages the store says come next.                     *)
THEOREM CrawlTyping == SpecCrawl => []TypeOK
<1>1. InitCrawl => TypeOK
  <2> SUFFICES ASSUME InitCrawl PROVE TypeOK OBVIOUS
  <2>1. CrawlTypes BY CrawlStarts DEF CrawlInv
  <2> QED BY <2>1, CrawlAssumption DEF InitCrawl, TypeOK, CrawlTypes, DbRow
<1>2. ASSUME TypeOK, CrawlInv, CrawlInv', [NextCrawl]_crawlVars PROVE TypeOK'
  <2>1. CrawlTypes' BY <1>2 DEF CrawlInv
  <2>2. /\ phase \in {"idle", "first", "search", "products", "load"}
        /\ number \in 1 .. MaxSearchPages /\ current \in Nat /\ seen \subseteq Nat
        /\ error \in {"none", "not_found", "other"}
        /\ MaxSearchPages \in Nat \ {0} /\ FirstPages \subseteq Nat
    BY <1>2, CrawlAssumption DEF TypeOK
  <2> DEFINE Kept == /\ phase \in {"idle", "first", "search", "products", "load"}
                     /\ number \in 1 .. MaxSearchPages
                     /\ current \in Nat /\ seen \subseteq Nat
                     /\ error \in {"none", "not_found", "other"}
  <2>3. ASSUME Start PROVE Kept' BY <2>2, <2>3 DEF Start, Unset
  <2>4. ASSUME Fail PROVE Kept' BY <2>2, <2>4 DEF Fail, Failures, searching
  <2>5. ASSUME FirstIsProduct PROVE Kept' BY <2>2, <2>5 DEF FirstIsProduct, searching
  <2>6. ASSUME FirstIsSearch PROVE Kept' BY <2>2, <2>6 DEF FirstIsSearch
  <2>7. ASSUME ReadSearchPage PROVE Kept'
    <3>1. /\ seen' = seen \cup {current} /\ error' = error
          /\ \/ /\ number' = number + 1 /\ current' = number + 1 /\ phase' = phase
                /\ number < MaxSearchPages
             \/ /\ UNCHANGED <<number, current>> /\ phase' \in {"products", "load"}
      BY <2>7 DEF ReadSearchPage, MayTurn
    <3> QED BY <2>2, <3>1
  <2>8. ASSUME FetchProduct PROVE Kept' BY <2>2, <2>8 DEF FetchProduct
  <2>9. ASSUME Load PROVE Kept' BY <2>2, <2>9 DEF Load, searching
  <2>10. ASSUME OtherLoad PROVE Kept' BY <2>2, <2>10 DEF OtherLoad, searching
  <2>11. ASSUME UNCHANGED crawlVars PROVE Kept' BY <2>2, <2>11 DEF crawlVars
  <2>12. Kept'
    BY <1>2, <2>3, <2>4, <2>5, <2>6, <2>7, <2>8, <2>9, <2>10, <2>11 DEF NextCrawl
  <2> QED BY <2>1, <2>12 DEF TypeOK, CrawlTypes, DbRow
<1> QED BY <1>1, <1>2, CrawlInvariance, PTL DEF SpecCrawl

(* Nothing is loaded from part of a search: it went to its last page, and  *)
(* every product that any of its pages showed was read first, however many *)
(* of both there are.                                                      *)
THEOREM WholeSearch == SpecCrawl => []WholeCrawl
<1>1. CrawlInv => WholeCrawl BY DEF CrawlInv, LoadOfAll, WholeCrawl
<1> QED BY <1>1, CrawlInvariance, PTL

(* After a load no row of the card shows stock for a code that any search  *)
(* row or row of a product page called sold out and no page showed in      *)
(* stock, but for what only Disregarded rows said.                         *)
THEOREM ZeroedIfSoldOut == SpecCrawl => SoldOutIsZeroed
<1>1. ASSUME CrawlInv, [NextCrawl]_crawlVars, phase = "load", phase' = "idle",
             error' = "none", NEW id \in DOMAIN db', db'[id].mine, db'[id].active,
             id[2] \in shown.out \ (shown.in \cup Disregarded)
      PROVE  db'[id].stock = 0
  <2>1. Load
    BY <1>1 DEF NextCrawl, crawlVars, Start, Fail, Failures,
                FirstIsProduct, FirstIsSearch, ReadSearchPage,
                FetchProduct, OtherLoad
  <2>2. CrawlTypes /\ OutKnown BY <1>1 DEF CrawlInv, LoadOfAll
  <2>3. id[2] \in got.out \ got.inStock BY <1>1, <2>2 DEF OutKnown, Disregarded
  <2> DEFINE row == Upserted[id]
  <2>4. /\ db'[id].mine = row.mine
        /\ db'[id].stock = IF Zeroes(row, id[2]) THEN 0 ELSE row.stock
        /\ db'[id].active <=> row.active /\ ~Deactivates(id, row)
    BY <1>1, <2>1, <2>2, LoadWrites DEF LoadedRow
  <2> HIDE DEF row
  <2>5. row.mine /\ row.active BY <1>1, <2>4
  <2>6. Zeroes(row, id[2]) BY <2>3, <2>5 DEF Zeroes
  <2> QED BY <2>4, <2>6
<1>2. CrawlInv /\ [NextCrawl]_crawlVars =>
         [phase = "load" /\ phase' = "idle" /\ error' = "none" =>
            \A id \in DOMAIN db' :
                /\ db'[id].mine /\ db'[id].active
                /\ id[2] \in shown.out \ (shown.in \cup Disregarded)
                => db'[id].stock = 0]_crawlVars
  BY <1>1
<1> QED BY <1>2, CrawlInvariance, PTL DEF SpecCrawl, SoldOutIsZeroed

(* A row is deactivated only by a job that was told there is nothing, and  *)
(* that no search page showed a product to.                                *)
THEOREM OnlyIfTold == SpecCrawl => DeactivatedOnlyIfTold
<1>1. ASSUME CrawlInv, [NextCrawl]_crawlVars, NEW id \in DOMAIN db,
             db[id].active, ~db'[id].active
      PROVE  shown.nothing /\ shown.products = {}
  <2>1. CrawlTypes BY <1>1 DEF CrawlInv
  <2>2. ~OtherLoad BY <1>1, <2>1, OtherRows
  <2>3. Load
    BY <1>1, <2>2 DEF NextCrawl, crawlVars, Start, Fail,
                FirstIsProduct, FirstIsSearch, ReadSearchPage,
                FetchProduct
  <2> DEFINE row == Upserted[id]
  <2>4. /\ db'[id].active <=> row.active /\ ~Deactivates(id, row)
        /\ row.active
    BY <1>1, <2>1, <2>3, LoadWrites DEF LoadedRow
  <2> HIDE DEF row
  <2>5. Deactivates(id, row) BY <1>1, <2>4
  <2>6. got.empty BY <2>5 DEF Deactivates
  <2> QED BY <1>1, <2>3, <2>6 DEF Load, CrawlInv, LoadOfAll
<1>2. CrawlInv /\ [NextCrawl]_crawlVars =>
         [\A id \in DOMAIN db : db[id].active /\ ~db'[id].active =>
             shown.nothing /\ shown.products = {}]_crawlVars
  BY <1>1
<1> QED BY <1>2, CrawlInvariance, PTL DEF SpecCrawl, DeactivatedOnlyIfTold
=============================================================================
