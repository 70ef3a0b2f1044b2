------------------------------ MODULE TunnelProofs ------------------------------
(***************************************************************************)
(* Theorems about Tunnel, for every length of the loops' buffers, number   *)
(* of bytes and room of the session's socket, with failures and without.   *)
(***************************************************************************)
EXTENDS Tunnel, SequenceTheorems, TLAPS

\* The bytes of m are those that follow byte a.
Run(m, a) == \A j \in 1 .. Len(m) : m[j] = a + j

\* Messages none of which is empty, each a run that starts where the one before it
\* ended; the last one ends with byte h.
Chain(c, h) ==
  /\ \A i \in 1 .. Len(c) :
       /\ Len(c[i]) >= 1 /\ c[i][1] + Len(c[i]) <= h + 1
       /\ Run(c[i], c[i][1] - 1)
  /\ \A i \in 1 .. Len(c) - 1 : c[i + 1][1] = c[i][1] + Len(c[i])
  /\ c # <<>> => c[Len(c)][1] + Len(c[Len(c)]) = h + 1

\* They start with the byte that follows a.
StartsAfter(c, a, h) == IF c = <<>> THEN a = h ELSE c[1][1] = a + 1

\* The bytes the out thread of s has sent, and those the other side's in thread has.
Sent(s) == taken[s] - Len(outMsg[s])
Received(s) == Len(got[Other(s)]) + Len(inMsg[Other(s)])

Sending(s) ==
  /\ taken[s] <= written[s] /\ Len(outMsg[s]) <= taken[s]
  /\ Run(outMsg[s], Sent(s))
  /\ outpc[s] = "read" => outMsg[s] = <<>>
  /\ outpc[s] = "send" => Len(outMsg[s]) \in 1 .. BufLen
  /\ Chain(chan[s], Sent(s))

Receiving(s) ==
  LET r == Other(s)
  IN /\ Run(got[r], 0) /\ Len(got[r]) <= Sent(s)
     /\ inpc[r] # "done" =>
          /\ Run(inMsg[r], Len(got[r])) /\ Received(s) <= Sent(s)
          /\ StartsAfter(chan[s], Received(s), Sent(s))
     /\ inpc[r] = "receive" => inMsg[r] = <<>>
     /\ ~appEof[r]

\* Without failures threads end only at the end of their stream.
Ending(s) ==
  /\ chanFin[s] => appFin[s] /\ taken[s] = written[s] /\ outpc[s] = "done"
  /\ ~Faults =>
       /\ outpc[s] = "done" => chanFin[s] /\ outMsg[s] = <<>>
       /\ inpc[Other(s)] = "done" => chanFin[s] /\ Len(got[Other(s)]) = written[s]

\* The direction from s to the other side: its state, and what is always true of it.
OfDirection(s) ==
  LET r == Other(s)
  IN <<written[s], appFin[s], taken[s], outpc[s], outMsg[s], chan[s], chanFin[s],
       inpc[r], inMsg[r], got[r], appEof[r]>>

Direction(s) == Sending(s) /\ Receiving(s) /\ Ending(s)

IInv == TypeOK /\ \A s \in Side : Direction(s)

------------------------------------------------------------------------------
(* Messages and runs.                                                      *)

LEMMA Sides ==
  /\ \A s \in Side : Other(s) \in Side /\ Other(s) # s /\ Other(Other(s)) = s
  /\ \A s, r \in Side : r = s \/ r = Other(s)
BY DEF Side, Other

\* A message read behind the ones that are sent.
LEMMA ChainAppend ==
  ASSUME NEW c \in Seq(Seq(Nat)), NEW m \in Seq(Nat), NEW h \in Nat,
         Chain(c, h), Run(m, h), Len(m) >= 1
  PROVE  /\ Chain(Append(c, m), h + Len(m))
         /\ \A a \in Nat : StartsAfter(c, a, h) => StartsAfter(Append(c, m), a, h + Len(m))
<1> DEFINE d == Append(c, m)
           n == Len(c)
<1>1. /\ n \in Nat /\ Len(d) = n + 1 /\ d # <<>> /\ Len(m) \in Nat
      /\ \A i \in 1 .. n : d[i] = c[i]
      /\ d[n + 1] = m
  BY AppendProperties, LenProperties
<1>2. \A i \in 1 .. n : c[i] \in Seq(Nat)
  BY ElementOfSeq
<1>3. m[1] = h + 1
  BY <1>1 DEF Run
<1> HIDE DEF d, n
<1>4. ASSUME NEW i \in 1 .. Len(d)
      PROVE  /\ Len(d[i]) >= 1 /\ d[i][1] + Len(d[i]) <= h + Len(m) + 1
             /\ Run(d[i], d[i][1] - 1)
  <2>1. CASE i \in 1 .. n
    <3>1. Len(c[i]) \in Nat /\ Len(c[i]) >= 1
      BY <2>1, <1>2, LenProperties DEF Chain, n
    <3>2. c[i][1] + Len(c[i]) <= h + 1 /\ Run(c[i], c[i][1] - 1)
      BY <2>1 DEF Chain, n
    <3>3. c[i][1] \in Nat
      BY <2>1, <3>1, <1>2, ElementOfSeq
    <3>4. c[i][1] + Len(c[i]) <= h + Len(m) + 1
      <4> DEFINE f == c[i][1]
                 l == Len(c[i])
                 k == Len(m)
      <4>1. f \in Nat /\ l \in Nat /\ k \in Nat /\ f + l <= h + 1
        BY <1>1, <3>1, <3>2, <3>3
      <4> HIDE DEF f, l, k
      <4>2. f + l <= h + k + 1
        BY <4>1
      <4> QED
        BY <4>2 DEF f, l, k
    <3>5. d[i] = c[i]
      BY <2>1, <1>1
    <3> QED
      BY <3>1, <3>2, <3>4, <3>5
  <2>2. CASE i = n + 1
    <3>1. d[i] = m /\ m[1] - 1 = h
      BY <2>2, <1>1, <1>3
    <3> QED
      BY <3>1, <1>1, <1>3
  <2> QED
    BY <1>1, <2>1, <2>2
<1>5. ASSUME NEW i \in 1 .. Len(d) - 1 PROVE d[i + 1][1] = d[i][1] + Len(d[i])
  <2>1. CASE i \in 1 .. n - 1
    <3>1. d[i] = c[i] /\ d[i + 1] = c[i + 1]
      BY <2>1, <1>1
    <3> QED
      BY <2>1, <3>1 DEF Chain, n
  <2>2. CASE i = n
    <3>1. c # <<>> /\ n >= 1
      BY <2>2 DEF n
    <3>2. c[n][1] + Len(c[n]) = h + 1
      BY <3>1 DEF Chain, n
    <3> QED
      BY <2>2, <3>1, <3>2, <1>1, <1>3
  <2> QED
    BY <1>1, <2>1, <2>2
<1>6. d[Len(d)][1] + Len(d[Len(d)]) = h + Len(m) + 1
  BY <1>1, <1>3
<1>7. ASSUME NEW a \in Nat, StartsAfter(c, a, h) PROVE StartsAfter(d, a, h + Len(m))
  <2>1. CASE c = <<>>
    <3>1. n = 0 /\ a = h
      BY <2>1, <1>7, EmptySeq DEF n, StartsAfter
    <3> QED
      BY <3>1, <1>1, <1>3 DEF StartsAfter
  <2>2. CASE c # <<>>
    <3>1. 1 \in 1 .. n
      BY <2>2, EmptySeq DEF n
    <3> QED
      BY <2>2, <3>1, <1>1, <1>7 DEF StartsAfter
  <2> QED
    BY <2>1, <2>2
<1> QED
  BY <1>4, <1>5, <1>6, <1>7 DEF Chain, d

\* The first message is taken: the rest starts where it ended.
LEMMA ChainTail ==
  ASSUME NEW c \in Seq(Seq(Nat)), NEW h \in Nat, NEW a \in Nat,
         Chain(c, h), c # <<>>, StartsAfter(c, a, h)
  PROVE  /\ Head(c) \in Seq(Nat) /\ Len(Head(c)) >= 1
         /\ Run(Head(c), a) /\ a + Len(Head(c)) <= h
         /\ Chain(Tail(c), h) /\ StartsAfter(Tail(c), a + Len(Head(c)), h)
<1> DEFINE t == Tail(c)
           n == Len(c)
<1>1. /\ n \in Nat /\ n >= 1 /\ Len(t) = n - 1 /\ Head(c) = c[1]
      /\ \A i \in 1 .. n - 1 : t[i] = c[i + 1]
  BY HeadTailProperties, LenProperties, EmptySeq
<1>2. \A i \in 1 .. n : c[i] \in Seq(Nat)
  BY ElementOfSeq
<1>3. c[1][1] = a + 1
  BY DEF StartsAfter
<1>4. t = <<>> <=> n = 1
  <2>1. t \in Seq(Seq(Nat))
    BY HeadTailProperties
  <2>2. t = <<>> <=> Len(t) = 0
    BY <2>1, EmptySeq
  <2>3. Len(t) = n - 1 /\ n \in Nat
    BY <1>1
  <2> HIDE DEF t, n
  <2> QED
    BY <2>2, <2>3
<1> HIDE DEF t, n
<1> DEFINE l == Len(c[1])
           f == c[1][1]
<1>5. /\ Head(c) \in Seq(Nat) /\ Len(Head(c)) >= 1 /\ Len(Head(c)) \in Nat
      /\ Run(Head(c), a) /\ a + Len(Head(c)) <= h
  <2>1. c[1] \in Seq(Nat) /\ Len(c[1]) >= 1 /\ Run(c[1], c[1][1] - 1) /\ c[1][1] + Len(c[1]) <= h + 1
    BY <1>1, <1>2 DEF Chain, n
  <2>2. Len(c[1]) \in Nat /\ c[1][1] - 1 = a
    BY <2>1, <1>3, LenProperties
  <2>3. a + Len(c[1]) <= h
    <3>1. l \in Nat /\ f = a + 1 /\ f + l <= h + 1
      BY <2>1, <2>2, <1>3
    <3> HIDE DEF l, f
    <3>2. a + l <= h
      BY <3>1
    <3> QED
      BY <3>2 DEF l
  <2>4. Run(c[1], a)
    BY <2>1, <2>2
  <2> QED
    BY <1>1, <2>1, <2>2, <2>3, <2>4
<1>6. Chain(t, h)
  <2>1. ASSUME NEW i \in 1 .. Len(t)
        PROVE  /\ Len(t[i]) >= 1 /\ t[i][1] + Len(t[i]) <= h + 1
               /\ Run(t[i], t[i][1] - 1)
    <3>1. i + 1 \in 1 .. n /\ t[i] = c[i + 1]
      BY <1>1
    <3> QED
      BY <3>1 DEF Chain, n
  <2>2. ASSUME NEW i \in 1 .. Len(t) - 1 PROVE t[i + 1][1] = t[i][1] + Len(t[i])
    <3>1. i + 1 \in 1 .. n - 1 /\ t[i] = c[i + 1] /\ t[i + 1] = c[i + 1 + 1]
      BY <1>1
    <3> QED
      BY <3>1 DEF Chain, n
  <2>3. t # <<>> => t[Len(t)][1] + Len(t[Len(t)]) = h + 1
    <3>1. t # <<>> => n - 1 \in 1 .. n - 1 /\ t[n - 1] = c[n - 1 + 1]
      BY <1>1, <1>4
    <3>2. n - 1 + 1 = n
      BY <1>1
    <3> QED
      BY <1>1, <3>1, <3>2 DEF Chain, n
  <2> QED
    BY <2>1, <2>2, <2>3 DEF Chain
<1>7. StartsAfter(t, a + Len(Head(c)), h)
  <2>1. CASE t = <<>>
    <3>1. c[1][1] + Len(c[1]) = h + 1
      BY <2>1, <1>4 DEF Chain, n
    <3>2. l \in Nat /\ f = a + 1 /\ f + l = h + 1
      BY <3>1, <1>1, <1>3, <1>5
    <3> HIDE DEF l, f
    <3>3. a + l = h
      BY <3>2
    <3> QED
      BY <2>1, <3>3, <1>1 DEF StartsAfter, l
  <2>2. CASE t # <<>>
    <3>1. 1 \in 1 .. n - 1 /\ t[1] = c[1 + 1]
      BY <2>2, <1>1, <1>4
    <3>2. c[1 + 1][1] = c[1][1] + Len(c[1])
      BY <3>1 DEF Chain, n
    <3>3. l \in Nat /\ f = a + 1 /\ t[1][1] = f + l
      BY <3>1, <3>2, <1>1, <1>3, <1>5
    <3> HIDE DEF l, f
    <3>4. t[1][1] = a + l + 1
      BY <3>3
    <3> QED
      BY <2>2, <3>4, <1>1 DEF StartsAfter, l
  <2> QED
    BY <2>1, <2>2
<1> QED
  BY <1>5, <1>6, <1>7 DEF t

\* Bytes written behind those the application has.
LEMMA RunConcat ==
  ASSUME NEW g \in Seq(Nat), NEW m \in Seq(Nat), NEW n \in 0 .. Len(m),
         Run(g, 0), Run(m, Len(g))
  PROVE  /\ Run(g \o SubSeq(m, 1, n), 0)
         /\ g \o SubSeq(m, 1, n) \in Seq(Nat)
         /\ Len(g \o SubSeq(m, 1, n)) = Len(g) + n
<1> DEFINE p == SubSeq(m, 1, n)
<1>1. p \in Seq(Nat) /\ Len(p) = n /\ \A i \in 1 .. n : p[i] = m[i]
  BY SubSeqProperties, LenProperties
<1> HIDE DEF p
<1>2. /\ g \o p \in Seq(Nat) /\ Len(g \o p) = Len(g) + n
      /\ \A i \in 1 .. Len(g) + n : (g \o p)[i] = IF i <= Len(g) THEN g[i] ELSE p[i - Len(g)]
  BY <1>1, ConcatProperties, LenProperties
<1>3. Len(g) \in Nat /\ Len(m) \in Nat /\ n \in Nat /\ n <= Len(m)
  BY LenProperties
<1>4. ASSUME NEW i \in 1 .. Len(g) + n PROVE (g \o p)[i] = i
  <2>1. CASE i <= Len(g)
    <3>1. (g \o p)[i] = g[i] /\ i \in 1 .. Len(g)
      BY <2>1, <1>2, <1>3
    <3>2. g[i] = 0 + i
      BY <3>1 DEF Run
    <3> QED
      BY <3>1, <3>2
  <2>2. CASE ~(i <= Len(g))
    <3>1. i - Len(g) \in 1 .. n /\ i - Len(g) \in 1 .. Len(m)
      BY <2>2, <1>3
    <3>2. (g \o p)[i] = m[i - Len(g)]
      BY <2>2, <3>1, <1>1, <1>2
    <3>3. m[i - Len(g)] = Len(g) + (i - Len(g))
      BY <3>1 DEF Run
    <3> QED
      BY <3>2, <3>3, <1>3
  <2> QED
    BY <2>1, <2>2
<1> QED
  BY <1>2, <1>4 DEF p, Run

------------------------------------------------------------------------------
(* The steps.                                                              *)

LEMMA Typed ==
  ASSUME TypeOK, NEW s \in Side
  PROVE  /\ written[s] \in Nat /\ taken[s] \in Nat
         /\ outMsg[s] \in Seq(Nat) /\ Len(outMsg[s]) \in Nat
         /\ chan[s] \in Seq(Seq(Nat))
         /\ inMsg[s] \in Seq(Nat) /\ Len(inMsg[s]) \in Nat
         /\ got[s] \in Seq(Nat) /\ Len(got[s]) \in Nat
BY LenProperties DEF TypeOK

LEMMA Counts ==
  ASSUME TypeOK, NEW s \in Side
  PROVE  /\ Received(s) \in Nat /\ Sent(s) \in Int
         /\ written[s] + 1 \in Nat /\ \A n \in Nat : taken[s] + n \in Nat
<1> DEFINE g == Len(got[Other(s)])
           i == Len(inMsg[Other(s)])
           o == Len(outMsg[s])
           t == taken[s]
           w == written[s]
<1>1. g \in Nat /\ i \in Nat /\ o \in Nat /\ t \in Nat /\ w \in Nat
  BY Sides, Typed
<1>2. Received(s) = g + i /\ Sent(s) = t - o
  BY DEF Received, Sent
<1> HIDE DEF g, i, o, t, w
<1>3. g + i \in Nat /\ t - o \in Int /\ w + 1 \in Nat /\ \A n \in Nat : t + n \in Nat
  BY <1>1
<1> QED
  BY <1>2, <1>3 DEF t, w

\* What is true of a direction stays true when its state does not change.
LEMMA Frame ==
  ASSUME NEW s \in Side, Direction(s), UNCHANGED OfDirection(s)
  PROVE  Direction(s)'
<1> DEFINE r == Other(s)
<1>1. /\ written'[s] = written[s] /\ appFin'[s] = appFin[s] /\ taken'[s] = taken[s]
      /\ outpc'[s] = outpc[s] /\ outMsg'[s] = outMsg[s] /\ chan'[s] = chan[s]
      /\ chanFin'[s] = chanFin[s] /\ inpc'[r] = inpc[r] /\ inMsg'[r] = inMsg[r]
      /\ got'[r] = got[r] /\ appEof'[r] = appEof[r]
  BY DEF OfDirection
<1>2. Sent(s)' = Sent(s) /\ Received(s)' = Received(s)
  BY <1>1 DEF Sent, Received
<1>3. Sending(s)'
  BY <1>1, <1>2 DEF Sending, Direction
<1>4. Receiving(s)'
  BY <1>1, <1>2 DEF Receiving, Direction
<1>5. Ending(s)'
  BY <1>1 DEF Ending, Direction
<1> QED
  BY <1>3, <1>4, <1>5 DEF Direction

LEMMA AppWriteStep ==
  ASSUME IInv, NEW s \in Side, AppWrite(s)
  PROVE  TypeOK' /\ Direction(s)' /\ UNCHANGED OfDirection(Other(s))
<1> USE Sides, Typed DEF IInv, outVars, inVars
<1>1. TypeOK'
  <2>1. written' \in [Side -> Nat]
    <3>1. written[s] + 1 \in Nat
      BY Counts
    <3>2. written \in [Side -> Nat]
      BY DEF TypeOK
    <3> QED
      BY <3>1, <3>2 DEF AppWrite
  <2> QED
    BY <2>1 DEF AppWrite, TypeOK
<1>2. /\ written'[s] = written[s] + 1 /\ ~appFin[s] /\ ~chanFin[s]
      /\ UNCHANGED <<appFin, taken, outpc, outMsg, chanFin, chan, inpc, inMsg, got, appEof>>
  BY DEF AppWrite, TypeOK, Direction, Ending
<1>3. Sent(s)' = Sent(s) /\ Received(s)' = Received(s)
  BY <1>2 DEF Sent, Received
<1>4. Sending(s)'
  BY <1>2, <1>3 DEF Sending, Direction
<1>5. Receiving(s)'
  BY <1>2, <1>3 DEF Receiving, Direction
<1>6. Ending(s)'
  BY <1>2 DEF Ending, Direction
<1>7. UNCHANGED OfDirection(Other(s))
  BY DEF AppWrite, OfDirection, TypeOK
<1> QED
  BY <1>1, <1>4, <1>5, <1>6, <1>7 DEF Direction

LEMMA AppShutdownStep ==
  ASSUME IInv, NEW s \in Side, AppShutdown(s)
  PROVE  TypeOK' /\ Direction(s)' /\ UNCHANGED OfDirection(Other(s))
<1> USE Sides, Typed DEF IInv, outVars, inVars
<1>1. TypeOK'
  BY DEF AppShutdown, TypeOK
<1>2. /\ appFin'[s] = TRUE
      /\ UNCHANGED <<written, taken, outpc, outMsg, chanFin, chan, inpc, inMsg, got, appEof>>
  BY DEF AppShutdown, TypeOK
<1>3. Sent(s)' = Sent(s) /\ Received(s)' = Received(s)
  BY <1>2 DEF Sent, Received
<1>4. Sending(s)'
  BY <1>2, <1>3 DEF Sending, Direction
<1>5. Receiving(s)'
  BY <1>2, <1>3 DEF Receiving, Direction
<1>6. Ending(s)'
  BY <1>2 DEF Ending, Direction
<1>7. UNCHANGED OfDirection(Other(s))
  BY DEF AppShutdown, OfDirection, TypeOK
<1> QED
  BY <1>1, <1>4, <1>5, <1>6, <1>7 DEF Direction

LEMMA ReadAppStep ==
  ASSUME IInv, NEW s \in Side, ReadApp(s)
  PROVE  TypeOK' /\ Direction(s)' /\ UNCHANGED OfDirection(Other(s))
<1> USE Sides, Typed DEF IInv, outVars, inVars
<1>1. PICK n \in 1 .. BufLen :
        /\ taken[s] + n <= written[s]
        /\ outMsg' = [outMsg EXCEPT ![s] = [i \in 1 .. n |-> taken[s] + i]]
        /\ taken' = [taken EXCEPT ![s] = @ + n]
  BY DEF ReadApp
<1> DEFINE m == [i \in 1 .. n |-> taken[s] + i]
<1>2. n \in Nat /\ n >= 1 /\ n <= BufLen
  BY TunnelAssumption
<1>3. m \in Seq(Nat) /\ Len(m) = n /\ Run(m, taken[s])
  BY <1>2 DEF Run
<1> HIDE DEF m
<1>4. /\ outpc[s] = "read" /\ outpc'[s] = "send" /\ outMsg[s] = <<>>
      /\ outMsg'[s] = m /\ taken'[s] = taken[s] + n
      /\ UNCHANGED <<written, appFin, chanFin, chan, inpc, inMsg, got, appEof>>
  BY <1>1 DEF ReadApp, TypeOK, Direction, Sending, m
<1>5. TypeOK'
  <2>1. outMsg' \in [Side -> Seq(Nat)]
    BY <1>1, <1>3 DEF TypeOK, m
  <2>2. taken' \in [Side -> Nat]
    <3>1. taken[s] + n \in Nat
      BY <1>2, Counts
    <3>2. taken \in [Side -> Nat]
      BY DEF TypeOK
    <3> QED
      BY <1>1, <3>1, <3>2
  <2>3. outpc' \in [Side -> {"read", "send", "done"}]
    BY DEF ReadApp, TypeOK
  <2> QED
    BY <1>4, <2>1, <2>2, <2>3 DEF TypeOK
<1>6. Sent(s) = taken[s] /\ Sent(s)' = taken[s] /\ Received(s)' = Received(s)
  <2>1. Sent(s) = taken[s]
    BY <1>4, EmptySeq DEF Sent
  <2>2. Sent(s)' = taken[s]
    BY <1>2, <1>3, <1>4 DEF Sent
  <2> QED
    BY <1>4, <2>1, <2>2 DEF Received
<1>7. Sending(s)'
  <2>1. taken'[s] <= written'[s] /\ Len(outMsg'[s]) <= taken'[s]
    BY <1>1, <1>2, <1>3, <1>4
  <2>2. Run(outMsg'[s], Sent(s)')
    BY <1>3, <1>4, <1>6
  <2>3. Len(outMsg'[s]) \in 1 .. BufLen
    BY <1>2, <1>3, <1>4
  <2>4. Chain(chan'[s], Sent(s)')
    BY <1>4, <1>6 DEF Direction, Sending
  <2> QED
    BY <1>4, <2>1, <2>2, <2>3, <2>4 DEF Sending
<1>8. Receiving(s)'
  BY <1>4, <1>6 DEF Receiving, Direction
<1>9. Ending(s)'
  <2>1. ~chanFin[s]
    BY <1>4 DEF Ending, Direction
  <2> QED
    BY <1>4, <2>1 DEF Ending, Direction
<1>10. UNCHANGED OfDirection(Other(s))
  BY <1>1 DEF ReadApp, OfDirection, TypeOK
<1> QED
  BY <1>5, <1>7, <1>8, <1>9, <1>10 DEF Direction

LEMMA ReadEofStep ==
  ASSUME IInv, NEW s \in Side, ReadEof(s)
  PROVE  TypeOK' /\ Direction(s)' /\ UNCHANGED OfDirection(Other(s))
<1> USE Sides, Typed DEF IInv, outVars, inVars, OutEnds
<1>1. TypeOK'
  BY DEF ReadEof, TypeOK
<1>2. /\ chanFin'[s] /\ outpc'[s] = "done" /\ outMsg[s] = <<>>
      /\ appFin[s] /\ taken[s] = written[s]
      /\ UNCHANGED <<written, appFin, taken, outMsg, chan, inpc, inMsg, got, appEof>>
  BY DEF ReadEof, TypeOK, Direction, Sending
<1>3. Sent(s)' = Sent(s) /\ Received(s)' = Received(s)
  BY <1>2 DEF Sent, Received
<1>4. Sending(s)'
  BY <1>2, <1>3 DEF Sending, Direction
<1>5. Receiving(s)'
  BY <1>2, <1>3 DEF Receiving, Direction
<1>6. Ending(s)'
  BY <1>2 DEF Ending, Direction
<1>7. UNCHANGED OfDirection(Other(s))
  BY DEF ReadEof, OfDirection, TypeOK
<1> QED
  BY <1>1, <1>4, <1>5, <1>6, <1>7 DEF Direction

LEMMA SendMsgStep ==
  ASSUME IInv, NEW s \in Side, SendMsg(s)
  PROVE  TypeOK' /\ Direction(s)' /\ UNCHANGED OfDirection(Other(s))
<1> USE Sides, Typed DEF IInv, outVars, inVars
<1>1. /\ outpc[s] = "send" /\ outpc'[s] = "read" /\ outMsg'[s] = <<>>
      /\ chan'[s] = Append(chan[s], outMsg[s])
      /\ UNCHANGED <<written, appFin, taken, chanFin, inpc, inMsg, got, appEof>>
  BY DEF SendMsg, TypeOK
<1>2. /\ Len(outMsg[s]) \in 1 .. BufLen /\ Len(outMsg[s]) >= 1
      /\ Len(outMsg[s]) <= taken[s] /\ Sent(s) \in Nat
  <2>1. Len(outMsg[s]) \in 1 .. BufLen /\ Len(outMsg[s]) <= taken[s]
    BY <1>1 DEF Direction, Sending
  <2> QED
    BY <2>1, TunnelAssumption DEF Sent
<1>3. Sent(s)' = Sent(s) + Len(outMsg[s]) /\ Sent(s)' = taken[s] /\ Received(s)' = Received(s)
  <2>1. Sent(s)' = taken[s]
    BY <1>1, EmptySeq DEF Sent
  <2>2. Sent(s) + Len(outMsg[s]) = taken[s]
    BY DEF Sent
  <2> QED
    BY <1>1, <2>1, <2>2 DEF Received
<1>4. /\ Chain(chan'[s], Sent(s)')
      /\ \A a \in Nat : StartsAfter(chan[s], a, Sent(s)) => StartsAfter(chan'[s], a, Sent(s)')
  <2>1. Chain(chan[s], Sent(s)) /\ Run(outMsg[s], Sent(s))
    BY DEF Direction, Sending
  <2>2. chan[s] \in Seq(Seq(Nat)) /\ outMsg[s] \in Seq(Nat)
    OBVIOUS
  <2>3. /\ Chain(Append(chan[s], outMsg[s]), Sent(s) + Len(outMsg[s]))
        /\ \A a \in Nat : StartsAfter(chan[s], a, Sent(s)) =>
             StartsAfter(Append(chan[s], outMsg[s]), a, Sent(s) + Len(outMsg[s]))
    BY <1>2, <2>1, <2>2, ChainAppend
  <2> QED
    BY <1>1, <1>3, <2>3
<1>5. TypeOK'
  <2>1. outMsg' \in [Side -> Seq(Nat)]
    BY EmptySeq DEF SendMsg, TypeOK
  <2>2. /\ Append(chan[s], outMsg[s]) \in Seq(Seq(Nat))
        /\ Len(Append(chan[s], outMsg[s])) = Len(chan[s]) + 1 /\ Len(chan[s]) \in Nat
        /\ \A i \in 1 .. Len(chan[s]) : Append(chan[s], outMsg[s])[i] = chan[s][i]
        /\ Append(chan[s], outMsg[s])[Len(chan[s]) + 1] = outMsg[s]
    BY AppendProperties, LenProperties
  <2>3. chan' \in [Side -> Seq(Seq(Nat))]
    BY <2>2 DEF SendMsg, TypeOK
  <2>4. ASSUME NEW d \in Side, NEW i \in 1 .. Len(chan'[d]) PROVE Len(chan'[d][i]) \in 1 .. BufLen
    <3>1. CASE d = s
      <4>1. i \in 1 .. Len(chan[s]) \/ i = Len(chan[s]) + 1
        BY <1>1, <2>2, <3>1
      <4>2. CASE i \in 1 .. Len(chan[s])
        BY <1>1, <2>2, <3>1, <4>2 DEF TypeOK
      <4>3. CASE i = Len(chan[s]) + 1
        BY <1>1, <1>2, <2>2, <3>1, <4>3
      <4> QED
        BY <4>1, <4>2, <4>3
    <3>2. CASE d # s
      BY <3>2 DEF SendMsg, TypeOK
    <3> QED
      BY <3>1, <3>2
  <2>5. outpc' \in [Side -> {"read", "send", "done"}]
    BY DEF SendMsg, TypeOK
  <2> QED
    BY <1>1, <2>1, <2>3, <2>4, <2>5 DEF TypeOK
<1>6. Sending(s)'
  <2>1. taken'[s] <= written'[s] /\ Len(outMsg'[s]) <= taken'[s]
    BY <1>1, EmptySeq DEF Direction, Sending
  <2>2. Run(outMsg'[s], Sent(s)')
    BY <1>1, EmptySeq DEF Run
  <2> QED
    BY <1>1, <1>4, <2>1, <2>2 DEF Sending
<1>7. Receiving(s)'
  <2>1. Received(s) \in Nat
    BY Counts
  <2>2. Sent(s) <= Sent(s)' /\ Sent(s)' \in Nat
    BY <1>2, <1>3
  <2>3. Len(got'[Other(s)]) <= Sent(s)'
    BY <1>1, <1>2, <2>2 DEF Receiving, Direction
  <2>4. inpc'[Other(s)] # "done" => Received(s)' <= Sent(s)'
    BY <1>1, <1>2, <1>3, <2>1, <2>2 DEF Receiving, Direction
  <2>5. inpc'[Other(s)] # "done" => StartsAfter(chan'[s], Received(s)', Sent(s)')
    BY <1>1, <1>3, <1>4, <2>1 DEF Receiving, Direction
  <2> QED
    BY <1>1, <2>3, <2>4, <2>5 DEF Receiving, Direction
<1>8. Ending(s)'
  BY <1>1 DEF Ending, Direction
<1>9. UNCHANGED OfDirection(Other(s))
  BY DEF SendMsg, OfDirection, TypeOK
<1> QED
  BY <1>5, <1>6, <1>7, <1>8, <1>9 DEF Direction

LEMMA OutFailsStep ==
  ASSUME IInv, NEW s \in Side, OutFails(s)
  PROVE  TypeOK' /\ Direction(s)' /\ UNCHANGED OfDirection(Other(s))
<1> USE Sides, Typed DEF IInv, outVars, inVars, OutEnds
<1>1. TypeOK'
  BY DEF OutFails, TypeOK
<1>2. /\ Faults /\ outpc'[s] = "done"
      /\ UNCHANGED <<written, appFin, taken, outMsg, chanFin, chan, inpc, inMsg, got, appEof>>
  BY DEF OutFails, TypeOK
<1>3. Sent(s)' = Sent(s) /\ Received(s)' = Received(s)
  BY <1>2 DEF Sent, Received
<1>4. Sending(s)'
  BY <1>2, <1>3 DEF Sending, Direction
<1>5. Receiving(s)'
  BY <1>2, <1>3 DEF Receiving, Direction
<1>6. Ending(s)'
  BY <1>2 DEF Ending, Direction
<1>7. UNCHANGED OfDirection(Other(s))
  BY DEF OutFails, OfDirection, TypeOK
<1> QED
  BY <1>1, <1>4, <1>5, <1>6, <1>7 DEF Direction

LEMMA ReceiveMsgStep ==
  ASSUME IInv, NEW s \in Side, ReceiveMsg(Other(s))
  PROVE  TypeOK' /\ Direction(s)' /\ UNCHANGED OfDirection(Other(s))
<1> DEFINE r == Other(s)
           m == Head(chan[s])
<1>1. r \in Side /\ r # s /\ Other(r) = s
  BY Sides
<1>2. /\ chan[s] \in Seq(Seq(Nat)) /\ chan[s] # <<>> /\ inpc[r] = "receive"
      /\ Len(got[r]) \in Nat /\ Len(inMsg[r]) \in Nat
  BY <1>1, Typed DEF IInv, ReceiveMsg
<1>3. inMsg[r] = <<>> /\ Received(s) = Len(got[r]) /\ Received(s) \in Nat
  <2>1. inMsg[r] = <<>>
    BY <1>2 DEF IInv, Direction, Receiving
  <2> QED
    BY <1>2, <2>1, EmptySeq DEF Received
<1>4. Sent(s) \in Nat /\ Chain(chan[s], Sent(s)) /\ StartsAfter(chan[s], Received(s), Sent(s))
  <2>1. Len(outMsg[s]) <= taken[s] /\ Chain(chan[s], Sent(s))
    BY DEF IInv, Direction, Sending
  <2>2. Sent(s) \in Nat
    BY <2>1, Typed DEF IInv, Sent
  <2>3. StartsAfter(chan[s], Received(s), Sent(s))
    BY <1>2 DEF IInv, Direction, Receiving
  <2> QED
    BY <2>1, <2>2, <2>3
<1>5. /\ m \in Seq(Nat) /\ Len(m) >= 1
      /\ Run(m, Received(s)) /\ Received(s) + Len(m) <= Sent(s)
      /\ Chain(Tail(chan[s]), Sent(s))
      /\ StartsAfter(Tail(chan[s]), Received(s) + Len(m), Sent(s))
  BY <1>2, <1>3, <1>4, ChainTail
<1>6. m # <<>> /\ Len(m) \in Nat
  BY <1>5, EmptySeq, LenProperties
<1> USE DEF outVars, inVars
<1> HIDE DEF m, r
<1>7. /\ inMsg' = [inMsg EXCEPT ![r] = m]
      /\ appEof' = [appEof EXCEPT ![r] = appEof[r]]
      /\ inpc' = [inpc EXCEPT ![r] = "write"]
      /\ chan' = [chan EXCEPT ![s] = Tail(chan[s])]
      /\ UNCHANGED <<written, appFin, taken, outpc, outMsg, chanFin, got>>
  <2>1. m = <<>> <=> FALSE
    BY <1>6
  <2>2. chan[Other(r)] = chan[s]
    BY <1>1
  <2>3. inpc' = [inpc EXCEPT ![r] = IF m = <<>> THEN "done" ELSE "write"]
    BY <2>2 DEF ReceiveMsg, m, r
  <2>4. appEof' = [appEof EXCEPT ![r] = appEof[r] \/ m = <<>>]
    BY <2>2 DEF ReceiveMsg, m, r
  <2>5. /\ inMsg' = [inMsg EXCEPT ![r] = m]
        /\ UNCHANGED <<written, appFin, taken, outpc, outMsg, chanFin, got>>
    BY <2>2 DEF ReceiveMsg, m, r
  <2>6. chan' = [chan EXCEPT ![s] = Tail(chan[s])]
    BY <1>1 DEF ReceiveMsg, r
  <2>7. (appEof[r] \/ m = <<>>) = appEof[r]
    BY <1>1, <2>1 DEF IInv, TypeOK
  <2> QED
    BY <2>1, <2>3, <2>4, <2>5, <2>6, <2>7
<1>8. /\ inMsg'[r] = m /\ appEof'[r] = appEof[r] /\ inpc'[r] = "write"
      /\ chan'[s] = Tail(chan[s]) /\ got'[r] = got[r]
  BY <1>1, <1>7 DEF IInv, TypeOK
<1>9. TypeOK'
  <2>1. /\ Tail(chan[s]) \in Seq(Seq(Nat)) /\ Len(Tail(chan[s])) = Len(chan[s]) - 1
        /\ \A i \in 1 .. Len(Tail(chan[s])) : Tail(chan[s])[i] = chan[s][i + 1]
        /\ Len(chan[s]) \in Nat
    BY <1>2, HeadTailProperties, LenProperties
  <2>2. chan' \in [Side -> Seq(Seq(Nat))]
    BY <1>7, <2>1 DEF IInv, TypeOK
  <2>3. ASSUME NEW d \in Side, NEW i \in 1 .. Len(chan'[d]) PROVE Len(chan'[d][i]) \in 1 .. BufLen
    <3>1. CASE d = s
      <4>1. i \in 1 .. Len(Tail(chan[s])) /\ chan'[d][i] = Tail(chan[s])[i]
        BY <1>8, <3>1
      <4>2. i + 1 \in 1 .. Len(chan[s]) /\ chan'[d][i] = chan[s][i + 1]
        BY <2>1, <4>1
      <4> QED
        BY <4>2 DEF IInv, TypeOK
    <3>2. CASE d # s
      BY <1>7, <3>2 DEF IInv, TypeOK
    <3> QED
      BY <3>1, <3>2
  <2>4. /\ inMsg' \in [Side -> Seq(Nat)] /\ appEof' \in [Side -> BOOLEAN]
        /\ inpc' \in [Side -> {"receive", "write", "done"}]
    BY <1>1, <1>5, <1>7 DEF IInv, TypeOK
  <2> QED
    BY <1>7, <2>2, <2>3, <2>4 DEF IInv, TypeOK
<1>10. Sent(s)' = Sent(s) /\ Received(s)' = Received(s) + Len(m)
  <2>1. Received(s)' = Len(got'[r]) + Len(inMsg'[r])
    BY DEF Received, r
  <2> QED
    BY <1>3, <1>7, <1>8, <2>1 DEF Sent
<1>11. Sending(s)'
  BY <1>5, <1>7, <1>8, <1>10 DEF IInv, Direction, Sending
<1>12. Receiving(s)'
  <2>1. Run(got'[r], 0) /\ Len(got'[r]) <= Sent(s)' /\ ~appEof'[r]
    BY <1>8, <1>10 DEF IInv, Direction, Receiving, r
  <2>2. Run(inMsg'[r], Len(got'[r])) /\ Received(s)' <= Sent(s)'
    BY <1>3, <1>5, <1>8, <1>10
  <2>3. StartsAfter(chan'[s], Received(s)', Sent(s)')
    BY <1>5, <1>8, <1>10
  <2> QED
    BY <1>8, <2>1, <2>2, <2>3 DEF Receiving, r
<1>13. Ending(s)'
  BY <1>7, <1>8 DEF IInv, Direction, Ending, r
<1>14. UNCHANGED OfDirection(Other(s))
  BY <1>1, <1>7 DEF OfDirection, IInv, TypeOK, r
<1> QED
  BY <1>9, <1>11, <1>12, <1>13, <1>14 DEF Direction

LEMMA ReceiveEndStep ==
  ASSUME IInv, NEW s \in Side, ReceiveEnd(Other(s))
  PROVE  TypeOK' /\ Direction(s)' /\ UNCHANGED OfDirection(Other(s))
<1> USE Sides, Typed DEF IInv, outVars, inVars, InEnds
<1>1. TypeOK'
  BY DEF ReceiveEnd, TypeOK
<1>2. /\ inpc[Other(s)] = "receive" /\ chan[s] = <<>> /\ ChanEnds(s)
      /\ inpc'[Other(s)] = "done"
      /\ UNCHANGED <<written, appFin, taken, outpc, outMsg, chanFin, chan, inMsg, got, appEof>>
  BY DEF ReceiveEnd, TypeOK
<1>3. Sent(s)' = Sent(s) /\ Received(s)' = Received(s)
  BY <1>2 DEF Sent, Received
<1>4. Sending(s)'
  BY <1>2, <1>3 DEF Sending, Direction
<1>5. Receiving(s)'
  BY <1>2, <1>3 DEF Receiving, Direction
<1>6. Ending(s)'
  <2>1. ASSUME ~Faults PROVE chanFin[s] /\ Len(got[Other(s)]) = written[s]
    <3>1. outpc[s] = "done" => chanFin[s] /\ outMsg[s] = <<>>
      BY <2>1 DEF Direction, Ending
    <3>2. chanFin[s] /\ outMsg[s] = <<>> /\ taken[s] = written[s]
      BY <1>2, <3>1 DEF ChanEnds, Closed, Direction, Ending
    <3>3. Sent(s) = written[s]
      BY <3>2, EmptySeq DEF Sent
    <3>4. inMsg[Other(s)] = <<>> /\ StartsAfter(chan[s], Received(s), Sent(s))
      BY <1>2 DEF Direction, Receiving
    <3>5. Received(s) = Len(got[Other(s)])
      BY <3>4, EmptySeq DEF Received
    <3> QED
      BY <1>2, <3>2, <3>3, <3>4, <3>5 DEF StartsAfter
  <2> QED
    BY <1>2, <2>1 DEF Ending, Direction
<1>7. UNCHANGED OfDirection(Other(s))
  BY DEF ReceiveEnd, OfDirection, TypeOK
<1> QED
  BY <1>1, <1>4, <1>5, <1>6, <1>7 DEF Direction

\* All of a message, or the first n bytes of it, goes to the application.
LEMMA Delivery ==
  ASSUME IInv, NEW s \in Side, inpc[Other(s)] # "done", NEW n \in 0 .. Len(inMsg[Other(s)])
  PROVE  LET g == got[Other(s)] \o SubSeq(inMsg[Other(s)], 1, n)
         IN /\ g \in Seq(Nat) /\ Run(g, 0)
            /\ Len(g) = Len(got[Other(s)]) + n /\ Len(g) <= Sent(s)
<1> DEFINE r == Other(s)
           g == got[r] \o SubSeq(inMsg[r], 1, n)
<1>1. /\ got[r] \in Seq(Nat) /\ inMsg[r] \in Seq(Nat)
      /\ Len(got[r]) \in Nat /\ Len(inMsg[r]) \in Nat
  BY Sides, Typed DEF IInv
<1>2. Run(got[r], 0) /\ Run(inMsg[r], Len(got[r])) /\ Received(s) <= Sent(s)
  BY DEF IInv, Direction, Receiving
<1>3. g \in Seq(Nat) /\ Run(g, 0) /\ Len(g) = Len(got[r]) + n
  BY <1>1, <1>2, RunConcat
<1>4. Len(g) <= Sent(s)
  <2> DEFINE a == Len(got[r])
             b == Len(inMsg[r])
             l == Len(g)
             k == Sent(s)
  <2>1. k \in Int /\ a \in Nat /\ b \in Nat /\ n \in 0 .. b /\ l = a + n /\ a + b <= k
    BY <1>1, <1>2, <1>3, Counts DEF Received, IInv
  <2> HIDE DEF a, b, l, k, r, g
  <2>2. l <= k
    BY <2>1
  <2> QED
    BY <2>2 DEF l, k
<1> QED
  BY <1>3, <1>4

LEMMA WriteAllStep ==
  ASSUME IInv, NEW s \in Side, WriteAll(Other(s))
  PROVE  TypeOK' /\ Direction(s)' /\ UNCHANGED OfDirection(Other(s))
<1> DEFINE r == Other(s)
           g == got[r] \o inMsg[r]
<1> USE DEF outVars, inVars
<1>1. r \in Side /\ r # s /\ Other(r) = s
  BY Sides
<1>2. /\ got[r] \in Seq(Nat) /\ inMsg[r] \in Seq(Nat)
      /\ Len(got[r]) \in Nat /\ Len(inMsg[r]) \in Nat
  BY <1>1, Typed DEF IInv
<1>3. inpc[r] = "write"
  BY DEF WriteAll
<1>4. g \in Seq(Nat) /\ Run(g, 0) /\ Len(g) = Received(s) /\ Len(g) <= Sent(s)
  <2>1. SubSeq(inMsg[r], 1, Len(inMsg[r])) = inMsg[r]
    BY <1>2, SubSeqFull
  <2>2. Len(inMsg[r]) \in 0 .. Len(inMsg[r]) /\ inpc[r] # "done"
    BY <1>2, <1>3
  <2> QED
    BY <2>1, <2>2, Delivery DEF Received
<1> HIDE DEF r, g
<1>5. /\ got' = [got EXCEPT ![r] = g] /\ inMsg' = [inMsg EXCEPT ![r] = <<>>]
      /\ inpc' = [inpc EXCEPT ![r] = "receive"]
      /\ UNCHANGED <<written, appFin, taken, outpc, outMsg, chanFin, chan, appEof>>
  BY DEF WriteAll, r, g
<1>6. got'[r] = g /\ inMsg'[r] = <<>> /\ inpc'[r] = "receive"
  BY <1>1, <1>5 DEF IInv, TypeOK
<1>7. TypeOK'
  <2>1. got' \in [Side -> Seq(Nat)] /\ inMsg' \in [Side -> Seq(Nat)]
    BY <1>1, <1>4, <1>5, EmptySeq DEF IInv, TypeOK
  <2>2. inpc' \in [Side -> {"receive", "write", "done"}]
    BY <1>5 DEF IInv, TypeOK
  <2> QED
    BY <1>5, <2>1, <2>2 DEF IInv, TypeOK
<1>8. Sent(s)' = Sent(s) /\ Received(s)' = Received(s)
  <2>1. Received(s)' = Len(got'[r]) + Len(inMsg'[r])
    BY DEF Received, r
  <2>2. Len(<<>>) = 0 /\ Len(g) \in Nat
    BY <1>4, LenProperties
  <2> QED
    BY <1>4, <1>5, <1>6, <2>1, <2>2 DEF Sent
<1>9. Sending(s)'
  BY <1>5, <1>8 DEF IInv, Direction, Sending
<1>10. Receiving(s)'
  <2>1. Run(got'[r], 0) /\ Len(got'[r]) <= Sent(s)' /\ ~appEof'[r]
    BY <1>4, <1>5, <1>6, <1>8 DEF IInv, Direction, Receiving, r
  <2>2. Run(inMsg'[r], Len(got'[r]))
    BY <1>6, EmptySeq DEF Run
  <2>3. Received(s)' <= Sent(s)' /\ StartsAfter(chan'[s], Received(s)', Sent(s)')
    BY <1>3, <1>5, <1>8 DEF IInv, Direction, Receiving, r
  <2> QED
    BY <1>6, <2>1, <2>2, <2>3 DEF Receiving, r
<1>11. Ending(s)'
  BY <1>5, <1>6 DEF IInv, Direction, Ending, r
<1>12. UNCHANGED OfDirection(Other(s))
  BY <1>1, <1>5 DEF OfDirection, IInv, TypeOK, r
<1> QED
  BY <1>7, <1>9, <1>10, <1>11, <1>12 DEF Direction

LEMMA InFailsStep ==
  ASSUME IInv, NEW s \in Side, InFails(Other(s))
  PROVE  TypeOK' /\ Direction(s)' /\ UNCHANGED OfDirection(Other(s))
<1> DEFINE r == Other(s)
<1> USE DEF outVars, inVars
<1>1. r \in Side /\ r # s /\ Other(r) = s
  BY Sides
<1>2. inpc[r] # "done" /\ Faults
  BY DEF InFails
<1>3. PICK n \in 0 .. Len(inMsg[r]) : got' = [got EXCEPT ![r] = @ \o SubSeq(inMsg[r], 1, n)]
  BY DEF InFails
<1> DEFINE g == got[r] \o SubSeq(inMsg[r], 1, n)
<1>4. g \in Seq(Nat) /\ Run(g, 0) /\ Len(g) <= Sent(s)
  BY <1>2, Delivery
<1> HIDE DEF r, g
<1>5. /\ got' = [got EXCEPT ![r] = g]
      /\ inpc' = [inpc EXCEPT ![r] = "done"]
      /\ UNCHANGED <<written, appFin, taken, outpc, outMsg, chanFin, chan, inMsg, appEof>>
  BY <1>3 DEF InFails, InEnds, r, g
<1>6. got'[r] = g /\ inpc'[r] = "done"
  BY <1>1, <1>5 DEF IInv, TypeOK
<1>7. TypeOK'
  <2>1. got' \in [Side -> Seq(Nat)]
    BY <1>1, <1>4, <1>5 DEF IInv, TypeOK
  <2>2. inpc' \in [Side -> {"receive", "write", "done"}]
    BY <1>5 DEF IInv, TypeOK
  <2> QED
    BY <1>5, <2>1, <2>2 DEF IInv, TypeOK
<1>8. Sent(s)' = Sent(s)
  BY <1>5 DEF Sent
<1>9. Sending(s)'
  BY <1>5, <1>8 DEF IInv, Direction, Sending
<1>10. Receiving(s)'
  BY <1>4, <1>5, <1>6, <1>8 DEF IInv, Direction, Receiving, r
<1>11. Ending(s)'
  BY <1>2, <1>5 DEF IInv, Direction, Ending
<1>12. UNCHANGED OfDirection(Other(s))
  BY <1>1, <1>5 DEF OfDirection, IInv, TypeOK, r
<1> QED
  BY <1>7, <1>9, <1>10, <1>11, <1>12 DEF Direction

------------------------------------------------------------------------------
(* The theorems.                                                           *)

LEMMA Initially ==
  ASSUME Init
  PROVE  IInv
<1>1. TypeOK
  BY EmptySeq DEF Init, TypeOK
<1>2. ASSUME NEW s \in Side PROVE Direction(s)
  <2>1. /\ written[s] = 0 /\ taken[s] = 0 /\ outMsg[s] = <<>> /\ chan[s] = <<>>
        /\ outpc[s] = "read" /\ ~chanFin[s]
        /\ inpc[Other(s)] = "receive" /\ inMsg[Other(s)] = <<>> /\ got[Other(s)] = <<>>
        /\ ~appEof[Other(s)]
    BY Sides DEF Init
  <2>2. Len(<<>>) = 0 /\ \A a \in Nat : Run(<<>>, a)
    BY EmptySeq DEF Run
  <2>3. Sent(s) = 0 - 0 /\ Received(s) = 0 + 0
    <3>1. Len(outMsg[s]) = 0 /\ Len(inMsg[Other(s)]) = 0 /\ Len(got[Other(s)]) = 0
      BY <2>1, <2>2
    <3> QED
      BY <2>1, <3>1 DEF Sent, Received
  <2>4. Chain(<<>>, 0) /\ StartsAfter(<<>>, 0, 0)
    BY <2>2 DEF Chain, StartsAfter
  <2> QED
    BY <2>1, <2>2, <2>3, <2>4 DEF Direction, Sending, Receiving, Ending
<1> QED
  BY <1>1, <1>2 DEF IInv

LEMMA NextStep ==
  ASSUME IInv, Next
  PROVE  IInv'
<1>1. PICK s \in Side :
        \/ AppWrite(s) \/ AppShutdown(s)
        \/ Out(s) \/ OutFails(s) \/ In(s) \/ InFails(s)
  BY DEF Next
<1>2. ASSUME NEW d \in Side, TypeOK', Direction(d)', UNCHANGED OfDirection(Other(d))
      PROVE  IInv'
  <2>1. Direction(Other(d))'
    BY <1>2, Sides, Frame DEF IInv
  <2> QED
    BY <1>2, <2>1, Sides DEF IInv
<1>3. CASE AppWrite(s) \/ AppShutdown(s)
  BY <1>2, <1>3, AppWriteStep, AppShutdownStep
<1>4. CASE Out(s) \/ OutFails(s)
  BY <1>2, <1>4, ReadAppStep, ReadEofStep, SendMsgStep, OutFailsStep DEF Out
<1>5. CASE In(s) \/ InFails(s)
  <2>1. Other(s) \in Side /\ Other(Other(s)) = s
    BY Sides
  <2>2. \/ ReceiveMsg(Other(Other(s))) \/ ReceiveEnd(Other(Other(s)))
        \/ WriteAll(Other(Other(s))) \/ InFails(Other(Other(s)))
    BY <1>5, <2>1, Zenon DEF In
  <2> QED
    BY <1>2, <2>1, <2>2, ReceiveMsgStep, ReceiveEndStep, WriteAllStep, InFailsStep
<1> QED
  BY <1>1, <1>3, <1>4, <1>5

\* The inductive invariant, for every buffer length, number of bytes and socket.
THEOREM TunnelInvariance == Spec => []IInv
<1>1. IInv /\ UNCHANGED vars => IInv'
  <2> SUFFICES ASSUME IInv, UNCHANGED vars PROVE IInv'
    OBVIOUS
  <2>1. TypeOK'
    BY DEF IInv, TypeOK, vars, outVars, inVars
  <2>2. ASSUME NEW s \in Side PROVE Direction(s)'
    <3>1. UNCHANGED OfDirection(s)
      BY DEF vars, outVars, inVars, OfDirection
    <3> QED
      BY <3>1, Frame DEF IInv
  <2> QED
    BY <2>1, <2>2 DEF IInv
<1> QED
  BY <1>1, Initially, NextStep, PTL DEF Spec

\* The types of the tunnel's state; among them, that no message is empty.
THEOREM TunnelTypeCorrect == Spec => []TypeOK
<1>1. IInv => TypeOK
  BY DEF IInv
<1> QED
  BY <1>1, TunnelInvariance, PTL

\* An application gets the bytes the other one wrote, from the first one on, without
\* a gap, a repetition or a swap, also when connections fail.
THEOREM TunnelKeepsOrder == Spec => []Integrity
<1>1. IInv => Integrity
  <2> SUFFICES ASSUME IInv, NEW s \in Side
               PROVE  /\ Len(got[s]) <= written[Other(s)]
                      /\ \A i \in 1 .. Len(got[s]) : got[s][i] = i
    BY DEF Integrity
  <2> DEFINE o == Other(s)
  <2>1. o \in Side /\ Other(o) = s
    BY Sides
  <2>2. Run(got[s], 0) /\ Len(got[s]) <= Sent(o)
    BY <2>1 DEF IInv, Direction, Receiving
  <2>3. /\ taken[o] <= written[o] /\ taken[o] \in Nat /\ written[o] \in Nat
        /\ Len(outMsg[o]) \in Nat /\ Len(got[s]) \in Nat
    BY <2>1, Typed DEF IInv, Direction, Sending
  <2>4. Len(got[s]) <= written[o]
    BY <2>2, <2>3 DEF Sent
  <2>5. \A i \in 1 .. Len(got[s]) : got[s][i] = i
    BY <2>2 DEF Run
  <2> QED
    BY <2>4, <2>5
<1> QED
  BY <1>1, TunnelInvariance, PTL

\* Without failures an application reads end-of-file only when the other one has
\* ended its stream and every byte of it has been delivered.
THEOREM EofIsLast == Spec => []NoEarlyEof
<1>1. IInv => NoEarlyEof
  <2> SUFFICES ASSUME IInv, NEW s \in Side, ~Faults, AppSeesEof(s)
               PROVE  appFin[Other(s)] /\ Len(got[s]) = written[Other(s)]
    BY DEF NoEarlyEof
  <2>1. Other(s) \in Side /\ Other(Other(s)) = s
    BY Sides
  <2>2. ~appEof[s]
    BY <2>1 DEF IInv, Direction, Receiving
  <2>3. inpc[s] = "done"
    BY <2>2 DEF AppSeesEof, Closed
  <2>4. chanFin[Other(s)] /\ Len(got[s]) = written[Other(s)]
    BY <2>1, <2>3 DEF IInv, Direction, Ending
  <2> QED
    BY <2>1, <2>4 DEF IInv, Direction, Ending
<1> QED
  BY <1>1, TunnelInvariance, PTL
===============================================================================
