------------------------- MODULE UploadFrame_proofs -------------------------
(***************************************************************************)
(* createUploadData() decrypts what it encrypted unless another thread     *)
(* disturbs it, for any number of threads, any text, any number of rounds, *)
(* any width of a word and any round function.                             *)
(*                                                                         *)
(* The invariant keeps, for every thread, that a history of its encryption *)
(* exists: the arrays h[r][p] before step p of round r.  Decryption walks  *)
(* back along it.                                                          *)
(***************************************************************************)
EXTENDS UploadFrame, TLAPS

History == [1..Rounds -> [0..N -> Array]]

\* h is a history of the encryption of x up to step p0 of round r0.
Chain(h, x, k, r0, p0) ==
  /\ h[1][0] = x
  /\ \A r \in 1..Rounds, p \in Place :
       r < r0 \/ (r = r0 /\ p < p0) => h[r][p + 1] = EncryptStep(h[r][p], r, p, k)
  /\ \A r \in 1..Rounds : r < r0 => h[r + 1][0] = h[r][N]

CipherOk(t) ==
  LET x == text[t]
      k == EncryptKey(number[t]) IN
  /\ pc[t] = "store" => data[t] = x
  /\ pc[t] = "encrypt" => \E h \in History :
       Chain(h, x, k, round[t], word[t]) /\ data[t] = h[round[t]][word[t]]
  /\ pc[t] \in {"load", "key"} => \E h \in History :
       Chain(h, x, k, Rounds, N) /\ data[t] = h[Rounds][N]
  /\ pc[t] = "decrypt" /\ ~disturbed[t] => \E h \in History :
       Chain(h, x, k, Rounds, N) /\ data[t] = h[round[t]][word[t] + 1]
  /\ pc[t] = "strip" /\ ~disturbed[t] => data[t] = x

\* Element i was read by thread t.
HasTaken(t, i) ==
  \/ pc[t] = "load" /\ i < cell[t]
  \/ pc[t] \in {"key", "decrypt", "strip"}

\* Until another thread disturbs it, a thread finds its own channel id.
ChannelOk(t) ==
  /\ ~disturbed[t] => \A i \in Cell :
       /\ Holds(t, i) => channelIdArray[i] = ChannelId(number[t])[i]
       /\ HasTaken(t, i) => taken[t][i] = ChannelId(number[t])[i]
  /\ pc[t] = "encrypt" => cell[t] = 0

IInv ==
  /\ TypeOK
  /\ \A t \in Uploader : CipherOk(t) /\ ChannelOk(t)
  /\ ThrowNeedsOther

-----------------------------------------------------------------------------
(* The cipher and the keys *)

\* Words wrap around: what was added can be taken away again.
\* (+= and -= on long in TEAEncrypt() and TEADecrypt())
LEMMA WordUndone ==
  ASSUME NEW a \in Word, NEW m \in Word
  PROVE  Plus(a, m) \in Word /\ Minus(a, m) \in Word /\ Minus(Plus(a, m), m) = a
BY SizeAssumption DEF Word, Plus, Minus

\* A step works on arrays of words and reads only the words beside its own.
\* (the bodies of the loops in TEAEncrypt() and TEADecrypt())
LEMMA TermType ==
  ASSUME NEW d \in Array, NEW r \in 1..Rounds, NEW p \in Place, NEW k \in Word
  PROVE  /\ Term(d, r, p, k) \in Word
         /\ \A a : Term([d EXCEPT ![p] = a], r, p, k) = Term(d, r, p, k)
<1>1. /\ Before(p) \in Place /\ Before(p) # p
      /\ After(p) \in Place /\ After(p) # p
  BY SizeAssumption DEF Before, After, Place
<1>2. d[Before(p)] \in Word /\ d[After(p)] \in Word
  BY <1>1 DEF Array
<1>3. Term(d, r, p, k) \in Word
  BY <1>2, MXAssumption DEF Term
<1>4. ASSUME NEW a PROVE Term([d EXCEPT ![p] = a], r, p, k) = Term(d, r, p, k)
  BY <1>1 DEF Term, Array
<1> QED BY <1>3, <1>4

LEMMA StepType ==
  ASSUME NEW d \in Array, NEW r \in 1..Rounds, NEW p \in Place, NEW k \in Word
  PROVE  EncryptStep(d, r, p, k) \in Array /\ DecryptStep(d, r, p, k) \in Array
<1>1. d[p] \in Word /\ Term(d, r, p, k) \in Word
  BY TermType DEF Array
<1>2. /\ Plus(d[p], Term(d, r, p, k)) \in Word
      /\ Minus(d[p], Term(d, r, p, k)) \in Word
  BY <1>1, WordUndone
<1> QED BY <1>2 DEF EncryptStep, DecryptStep, Array

\* Each step of the decryption undoes one of the encryption.
\* (TEAEncrypt() and TEADecrypt())
LEMMA StepUndone ==
  ASSUME NEW d \in Array, NEW r \in 1..Rounds, NEW p \in Place, NEW k \in Word
  PROVE  DecryptStep(EncryptStep(d, r, p, k), r, p, k) = d
<1> DEFINE m == Term(d, r, p, k)
           e == EncryptStep(d, r, p, k)
<1>1. d[p] \in Word /\ m \in Word
  BY TermType DEF Array
<1>2. e = [d EXCEPT ![p] = Plus(d[p], m)]
  BY DEF EncryptStep
<1>3. Term(e, r, p, k) = m
  <2>1. Term([d EXCEPT ![p] = Plus(d[p], m)], r, p, k) = Term(d, r, p, k)
    BY TermType
  <2> QED BY <1>2, <2>1
<1>4. e[p] = Plus(d[p], m)
  BY <1>2 DEF Array
<1>5. DecryptStep(e, r, p, k) = [e EXCEPT ![p] = d[p]]
  BY <1>1, <1>3, <1>4, WordUndone DEF DecryptStep
<1> HIDE DEF m, e
<1> QED BY <1>2, <1>5 DEF Array, e

\* Two bytes of the channel id make a number that can have been drawn.
\* (creatDEncryptKey())
LEMMA TwoBytes ==
  ASSUME NEW a \in Byte, NEW b \in Byte
  PROVE  a * 100 + b \in RandNumber
BY DEF Byte, RandNumber

\* A number is its quotient by 100 and its remainder, and its last digit gives
\* the ends of the key.
\* (creatEncryptKey())
LEMMA NumberParts ==
  ASSUME NEW n \in RandNumber
  PROVE  /\ n \div 100 \in Byte /\ n % 100 \in Byte /\ n % 10 \in Byte
         /\ (n % 10) + 6 \in Byte /\ n % 10 <= (n % 10) + 6
         /\ (n \div 100) * 100 + (n % 100) = n
BY DEF Byte, RandNumber

\* The channel id of a number names its key.
\* (creatEncryptKey() and creatDEncryptKey())
LEMMA ChannelNamesKey ==
  ASSUME NEW n \in Number
  PROVE  /\ ChannelId(n) \in [Cell -> Byte]
         /\ DecryptKey(ChannelId(n)) = EncryptKey(n)
         /\ EncryptKey(n) \in Word
         /\ ChannelId(n)[2] <= ChannelId(n)[3]
<1>1. n \in RandNumber
  BY NumberAssumption
<1>2. /\ ChannelId(n)[0] = n \div 100
      /\ ChannelId(n)[1] = n % 100
      /\ ChannelId(n)[2] = n % 10
      /\ ChannelId(n)[3] = (n % 10) + 6
  BY DEF ChannelId, Cell
<1>3. ChannelId(n) \in [Cell -> Byte]
  BY <1>1, NumberParts DEF ChannelId, Cell
<1>4. DecryptKey(ChannelId(n)) = EncryptKey(n)
  BY <1>1, <1>2, NumberParts DEF DecryptKey, EncryptKey
<1>5. EncryptKey(n) \in Word
  BY <1>1, NumberParts, DigestAssumption, Zenon DEF EncryptKey
<1>6. ChannelId(n)[2] <= ChannelId(n)[3]
  BY <1>1, <1>2, NumberParts
<1> QED BY <1>3, <1>4, <1>5, <1>6

LEMMA DecryptKeyType ==
  ASSUME NEW id \in [Cell -> Byte]
  PROVE  DecryptKey(id) \in Word
<1>1. id[0] \in Byte /\ id[1] \in Byte /\ id[2] \in Byte /\ id[3] \in Byte
  BY DEF Cell
<1>2. id[0] * 100 + id[1] \in RandNumber
  BY <1>1, TwoBytes, Zenon
<1> QED BY <1>1, <1>2, DigestAssumption, Zenon DEF DecryptKey

-----------------------------------------------------------------------------
(* Preservation *)

\* A step of one thread leaves the locals of another alone, and can only add to
\* what is disturbed.
\* (the methods share nothing but channelIdArray)
LEMMA OthersKeep ==
  ASSUME TypeOK, NEW t \in Uploader, NEW u \in Uploader, u # t,
         Begin(t) \/ Works(t)
  PROVE  /\ pc'[u] = pc[u] /\ number'[u] = number[u] /\ text'[u] = text[u]
         /\ data'[u] = data[u] /\ round'[u] = round[u] /\ word'[u] = word[u]
         /\ cell'[u] = cell[u] /\ taken'[u] = taken[u]
         /\ disturbed[u] => disturbed'[u]
<1> USE DEF TypeOK
<1>1. CASE Begin(t)
  BY <1>1 DEF Begin
<1>2. CASE Store(t)
  BY <1>2 DEF Store, Advances
<1>3. CASE EncryptWord(t)
  BY <1>3 DEF EncryptWord, NextUp
<1>4. CASE Load(t)
  BY <1>4 DEF Load, Advances, cipherVars
<1>5. CASE MakeKey(t)
  BY <1>5 DEF MakeKey
<1>6. CASE KeyThrows(t) \/ StripThrows(t)
  BY <1>6 DEF KeyThrows, StripThrows, cipherVars
<1>7. CASE DecryptWord(t)
  BY <1>7 DEF DecryptWord, NextDown
<1>8. CASE Returns(t)
  BY <1>8 DEF Returns
<1> QED BY <1>1, <1>2, <1>3, <1>4, <1>5, <1>6, <1>7, <1>8 DEF Works

\* The next part of a method, element, word and round are of their types.
\* (the loops of the cipher and the order of the assignments)
LEMMA AdvancesType ==
  ASSUME TypeOK, NEW t \in Uploader, NEW next \in Stage, Advances(t, next)
  PROVE  cell' \in [Uploader -> Cell] /\ pc' \in [Uploader -> Stage]
<1> USE DEF TypeOK
<1>1. CASE cell[t] < 3
  <2>1. cell[t] + 1 \in Cell
    BY <1>1 DEF Cell
  <2> QED BY <1>1, <2>1 DEF Advances
<1>2. CASE ~(cell[t] < 3)
  BY <1>2 DEF Advances, Cell
<1> QED BY <1>1, <1>2

LEMMA NextType ==
  ASSUME TypeOK, NEW t \in Uploader, NextUp(t) \/ NextDown(t)
  PROVE  /\ round' \in [Uploader -> 1..Rounds] /\ word' \in [Uploader -> Place]
         /\ pc' \in [Uploader -> Stage]
<1> USE DEF TypeOK
<1>1. round[t] \in 1..Rounds /\ word[t] \in Place
  OBVIOUS
<1>2. 0 \in Place /\ N - 1 \in Place
  BY SizeAssumption DEF Place
<1>3. word[t] < N - 1 => word[t] + 1 \in Place
  BY <1>1, SizeAssumption DEF Place
<1>4. word[t] > 0 => word[t] - 1 \in Place
  BY <1>1, SizeAssumption DEF Place
<1>5. /\ round[t] < Rounds => round[t] + 1 \in 1..Rounds
      /\ round[t] > 1 => round[t] - 1 \in 1..Rounds
  BY <1>1, RoundsAssumption
<1>6. "load" \in Stage /\ "strip" \in Stage
  BY DEF Stage
<1>7. CASE NextUp(t)
  BY <1>2, <1>3, <1>5, <1>6, <1>7 DEF NextUp
<1>8. CASE NextDown(t)
  BY <1>2, <1>4, <1>5, <1>6, <1>8 DEF NextDown
<1> QED BY <1>7, <1>8

\* Every step keeps the variables in their types.
\* (createUploadData())
LEMMA StepTypeOK == TypeOK /\ Next => TypeOK'
<1> SUFFICES ASSUME TypeOK, NEW t \in Uploader, Begin(t) \/ Works(t)
             PROVE  TypeOK'
  BY DEF Next
<1> USE DEF TypeOK, Stage
<1>0. Text \subseteq Array
  BY TextAssumption
<1>1. CASE Begin(t)
  <2>1. PICK n \in Number, x \in Text :
          /\ number' = [number EXCEPT ![t] = n]
          /\ text' = [text EXCEPT ![t] = x]
          /\ data' = [data EXCEPT ![t] = x]
    BY <1>1 DEF Begin
  <2>2. x \in Array
    BY <1>0
  <2>3. pc' = [pc EXCEPT ![t] = "store"] /\ cell' = [cell EXCEPT ![t] = 0]
    BY <1>1 DEF Begin
  <2> QED BY <1>1, <2>1, <2>2, <2>3 DEF Begin, Cell
<1>2. CASE Store(t)
  <2>1. ChannelId(number[t])[cell[t]] \in Byte
    BY ChannelNamesKey
  <2>2. channelIdArray' \in [Cell -> Byte]
    BY <1>2, <2>1 DEF Store
  <2>3. cell' \in [Uploader -> Cell] /\ pc' \in [Uploader -> Stage]
    BY <1>2, AdvancesType DEF Store, Stage
  <2>4. round' \in [Uploader -> 1..Rounds] /\ word' \in [Uploader -> Place]
    BY <1>2, SizeAssumption, RoundsAssumption DEF Store, Place
  <2>5. disturbed' \in [Uploader -> BOOLEAN]
    <3>1. \A u \in Uploader :
            (disturbed[u] \/ (u # t /\ Holds(u, cell[t]))) \in BOOLEAN
      BY DEF Holds
    <3> QED BY <1>2, <3>1 DEF Store
  <2> QED BY <1>2, <2>2, <2>3, <2>4, <2>5 DEF Store
<1>3. CASE EncryptWord(t)
  <2>1. EncryptStep(data[t], round[t], word[t], EncryptKey(number[t])) \in Array
    BY StepType, ChannelNamesKey
  <2>2. data' \in [Uploader -> Array]
    BY <1>3, <2>1 DEF EncryptWord
  <2>3. /\ round' \in [Uploader -> 1..Rounds] /\ word' \in [Uploader -> Place]
        /\ pc' \in [Uploader -> Stage]
    BY <1>3, NextType DEF EncryptWord
  <2> QED BY <1>3, <2>2, <2>3 DEF EncryptWord
<1>4. CASE Load(t)
  <2>1. taken' \in [Uploader -> [Cell -> Byte]]
    BY <1>4 DEF Load
  <2>2. cell' \in [Uploader -> Cell] /\ pc' \in [Uploader -> Stage]
    BY <1>4, AdvancesType DEF Load, Stage
  <2> QED BY <1>4, <2>1, <2>2 DEF Load, cipherVars
<1>5. CASE MakeKey(t)
  BY <1>5, SizeAssumption, RoundsAssumption DEF MakeKey, Place
<1>6. CASE KeyThrows(t) \/ StripThrows(t)
  BY <1>6 DEF KeyThrows, StripThrows, cipherVars
<1>7. CASE DecryptWord(t)
  <2>1. DecryptStep(data[t], round[t], word[t], DecryptKey(taken[t])) \in Array
    BY StepType, DecryptKeyType
  <2>2. data' \in [Uploader -> Array]
    BY <1>7, <2>1 DEF DecryptWord
  <2>3. /\ round' \in [Uploader -> 1..Rounds] /\ word' \in [Uploader -> Place]
        /\ pc' \in [Uploader -> Stage]
    BY <1>7, NextType DEF DecryptWord
  <2> QED BY <1>7, <2>2, <2>3 DEF DecryptWord
<1>8. CASE Returns(t)
  <2>1. text[t] \in Array /\ [i \in Cell |-> 0] \in [Cell -> Byte]
    BY <1>0 DEF Byte
  <2> QED BY <1>8, <2>1 DEF Returns
<1> QED BY <1>1, <1>2, <1>3, <1>4, <1>5, <1>6, <1>7, <1>8 DEF Works

\* A step keeps what a thread knows of its own elements of the static array,
\* as long as it is not disturbed.
\* (channelIdArray in creatEncryptKey() and creatDEncryptKey())
LEMMA StepChannel ==
  ASSUME TypeOK, NEW t \in Uploader, Begin(t) \/ Works(t),
         NEW u \in Uploader, ChannelOk(u)
  PROVE  ChannelOk(u)'
<1> USE DEF TypeOK
<1>1. CASE u # t
  <2>1. /\ pc'[u] = pc[u] /\ number'[u] = number[u] /\ cell'[u] = cell[u]
        /\ taken'[u] = taken[u] /\ (disturbed[u] => disturbed'[u])
    BY <1>1, OthersKeep
  <2>2. ASSUME ~disturbed'[u], NEW i \in Cell, Holds(u, i)
        PROVE  channelIdArray'[i] = channelIdArray[i]
    <3>1. CASE Store(t)
      <4>1. ~Holds(u, cell[t])
        BY <1>1, <2>2, <3>1 DEF Store
      <4>2. i # cell[t]
        BY <2>2, <4>1
      <4> QED BY <3>1, <4>2 DEF Store
    <3>2. CASE ~Store(t)
      BY <3>2 DEF Begin, Works, EncryptWord, Load, MakeKey, KeyThrows, DecryptWord,
                  StripThrows, Returns
    <3> QED BY <3>1, <3>2
  <2> QED BY <2>1, <2>2 DEF ChannelOk, Holds, HasTaken
<1>2. CASE u = t
  <2>1. CASE Begin(t)
    BY <1>2, <2>1 DEF Begin, ChannelOk, Holds, HasTaken, Cell
  <2>2. CASE Store(t)
    <3>1. /\ channelIdArray'[cell[t]] = ChannelId(number[t])[cell[t]]
          /\ \A i \in Cell : i # cell[t] => channelIdArray'[i] = channelIdArray[i]
      BY <2>2 DEF Store
    <3>2. disturbed'[t] = disturbed[t] /\ number'[t] = number[t] /\ pc[t] = "store"
      BY <2>2 DEF Store
    <3>3. CASE cell[t] < 3
      <4>1. pc'[t] = "store" /\ cell'[t] = cell[t] + 1
        BY <2>2, <3>2, <3>3 DEF Store, Advances
      <4> QED BY <1>2, <3>1, <3>2, <4>1 DEF ChannelOk, Holds, HasTaken, Cell
    <3>4. CASE cell[t] = 3
      <4>1. pc'[t] = "encrypt" /\ cell'[t] = 0
        BY <2>2, <3>4 DEF Store, Advances
      <4> QED BY <1>2, <3>1, <3>2, <3>4, <4>1 DEF ChannelOk, Holds, HasTaken, Cell
    <3> QED BY <3>3, <3>4 DEF Cell
  <2>3. CASE EncryptWord(t)
    <3>1. pc[t] = "encrypt" /\ UNCHANGED <<channelIdArray, number, cell, taken, disturbed>>
      BY <2>3 DEF EncryptWord
    <3>2. pc'[t] \in {"encrypt", "load"}
      BY <2>3, <3>1 DEF EncryptWord, NextUp
    <3>3. cell[t] = 0
      BY <1>2, <3>1 DEF ChannelOk
    <3> QED BY <1>2, <3>1, <3>2, <3>3 DEF ChannelOk, Holds, HasTaken, Cell
  <2>4. CASE Load(t)
    <3>1. /\ taken'[t][cell[t]] = channelIdArray[cell[t]]
          /\ \A i \in Cell : i # cell[t] => taken'[t][i] = taken[t][i]
      BY <2>4 DEF Load
    <3>2. pc[t] = "load" /\ UNCHANGED <<channelIdArray, number, disturbed>>
      BY <2>4 DEF Load
    <3>3. CASE cell[t] < 3
      <4>1. pc'[t] = "load" /\ cell'[t] = cell[t] + 1
        BY <2>4, <3>2, <3>3 DEF Load, Advances
      <4> QED BY <1>2, <3>1, <3>2, <4>1 DEF ChannelOk, Holds, HasTaken, Cell
    <3>4. CASE cell[t] = 3
      <4>1. pc'[t] = "key" /\ cell'[t] = 0
        BY <2>4, <3>4 DEF Load, Advances
      <4> QED BY <1>2, <3>1, <3>2, <3>4, <4>1 DEF ChannelOk, Holds, HasTaken, Cell
    <3> QED BY <3>3, <3>4 DEF Cell
  <2>5. CASE MakeKey(t)
    BY <1>2, <2>5 DEF MakeKey, ChannelOk, Holds, HasTaken
  <2>6. CASE KeyThrows(t) \/ StripThrows(t)
    BY <1>2, <2>6 DEF KeyThrows, StripThrows, ChannelOk, Holds, HasTaken
  <2>7. CASE DecryptWord(t)
    <3>1. /\ pc[t] = "decrypt" /\ pc'[t] \in {"decrypt", "strip"}
          /\ UNCHANGED <<channelIdArray, number, taken, disturbed>>
      BY <2>7 DEF DecryptWord, NextDown
    <3> QED BY <1>2, <3>1 DEF ChannelOk, Holds, HasTaken
  <2>8. CASE Returns(t)
    BY <1>2, <2>8 DEF Returns, ChannelOk, Holds, HasTaken
  <2> QED BY <2>1, <2>2, <2>3, <2>4, <2>5, <2>6, <2>7, <2>8 DEF Works
<1> QED BY <1>1, <1>2

\* A history up to a step of the encryption is extended by that step.
\* (the loops of TEAEncrypt())
LEMMA ChainGrows ==
  ASSUME NEW h \in History, NEW x \in Array, NEW k \in Word,
         NEW r \in 1..Rounds, NEW p \in Place, Chain(h, x, k, r, p)
  PROVE  LET e == EncryptStep(h[r][p], r, p, k)
             g == [h EXCEPT ![r][p + 1] = e] IN
         /\ g \in History /\ g[r][p + 1] = e
         /\ Chain(g, x, k, r, p + 1)
<1> DEFINE e == EncryptStep(h[r][p], r, p, k)
           g == [h EXCEPT ![r][p + 1] = e]
<1>1. p \in 0..N /\ p + 1 \in 0..N /\ \A q \in Place : q \in 0..N /\ q + 1 \in 0..N
  BY SizeAssumption DEF Place
<1>2. e \in Array
  BY <1>1, StepType DEF History
<1> HIDE DEF e
<1>3. g \in History /\ g[r][p + 1] = e
  BY <1>1, <1>2 DEF History
<1>4. \A s \in 1..Rounds, q \in 0..N : s # r \/ q # p + 1 => g[s][q] = h[s][q]
  BY <1>1 DEF History
<1>5. g[r][p + 1] = EncryptStep(g[r][p], r, p, k)
  BY <1>1, <1>3, <1>4 DEF e, Place
<1> HIDE DEF g
<1>6. g[1][0] = x
  <2>1. 1 \in 1..Rounds /\ 0 \in 0..N /\ 0 # p + 1
    BY SizeAssumption, RoundsAssumption DEF Place
  <2> QED BY <1>4, <2>1 DEF Chain
<1>7. ASSUME NEW s \in 1..Rounds, NEW q \in Place, s < r \/ (s = r /\ q < p + 1)
      PROVE  g[s][q + 1] = EncryptStep(g[s][q], s, q, k)
  <2>1. CASE s = r /\ q = p
    BY <1>5, <2>1
  <2>2. CASE s < r \/ (s = r /\ q < p)
    <3>1. h[s][q + 1] = EncryptStep(h[s][q], s, q, k)
      BY <2>2 DEF Chain
    <3>2. g[s][q + 1] = h[s][q + 1] /\ g[s][q] = h[s][q]
      BY <1>1, <1>4, <2>2 DEF Place
    <3> QED BY <3>1, <3>2
  <2>3. (s = r /\ q = p) \/ s < r \/ (s = r /\ q < p)
    BY <1>7, SizeAssumption DEF Place
  <2> QED BY <2>1, <2>2, <2>3
<1>8. ASSUME NEW s \in 1..Rounds, s < r
      PROVE  g[s + 1][0] = g[s][N]
  <2>1. h[s + 1][0] = h[s][N]
    BY <1>8 DEF Chain
  <2>2. s + 1 \in 1..Rounds /\ 0 \in 0..N /\ N \in 0..N /\ 0 # p + 1
    BY <1>8, SizeAssumption, RoundsAssumption DEF Place
  <2> QED BY <1>4, <1>8, <2>1, <2>2
<1>9. Chain(g, x, k, r, p + 1)
  BY <1>6, <1>7, <1>8 DEF Chain
<1> QED BY <1>3, <1>9 DEF e, g

\* After the last word of a round the history goes on with the next round.
\* (the loop on sum in TEAEncrypt())
LEMMA ChainTurns ==
  ASSUME NEW h \in History, NEW x, NEW k,
         NEW r \in 1..Rounds, r < Rounds, Chain(h, x, k, r, N)
  PROVE  LET g == [h EXCEPT ![r + 1][0] = h[r][N]] IN
         /\ g \in History /\ g[r + 1][0] = h[r][N]
         /\ Chain(g, x, k, r + 1, 0)
<1> DEFINE g == [h EXCEPT ![r + 1][0] = h[r][N]]
<1>1. /\ r + 1 \in 1..Rounds /\ 0 \in 0..N /\ N \in 0..N
      /\ \A q \in Place : q \in 0..N /\ q + 1 \in 0..N /\ q + 1 # 0
  BY SizeAssumption, RoundsAssumption DEF Place
<1>2. h[r][N] \in Array
  BY <1>1 DEF History
<1>3. g \in History /\ g[r + 1][0] = h[r][N]
  BY <1>1, <1>2 DEF History
<1>4. \A s \in 1..Rounds, q \in 0..N : s # r + 1 \/ q # 0 => g[s][q] = h[s][q]
  BY <1>1 DEF History
<1> HIDE DEF g
<1>5. g[1][0] = x
  BY <1>1, <1>4, RoundsAssumption DEF Chain
<1>6. ASSUME NEW s \in 1..Rounds, NEW q \in Place, s < r + 1 \/ (s = r + 1 /\ q < 0)
      PROVE  g[s][q + 1] = EncryptStep(g[s][q], s, q, k)
  <2>1. s < r \/ (s = r /\ q < N)
    BY <1>6, SizeAssumption DEF Place
  <2>2. h[s][q + 1] = EncryptStep(h[s][q], s, q, k)
    BY <2>1 DEF Chain
  <2>3. g[s][q + 1] = h[s][q + 1] /\ g[s][q] = h[s][q]
    BY <1>1, <1>4, <2>1
  <2> QED BY <2>2, <2>3
<1>7. ASSUME NEW s \in 1..Rounds, s < r + 1
      PROVE  g[s + 1][0] = g[s][N]
  <2>1. g[s][N] = h[s][N]
    BY <1>1, <1>4, <1>7
  <2>2. CASE s = r
    BY <1>3, <2>1, <2>2
  <2>3. CASE s < r
    <3>1. h[s + 1][0] = h[s][N]
      BY <2>3 DEF Chain
    <3>2. s + 1 \in 1..Rounds /\ s + 1 # r + 1
      BY <2>3, RoundsAssumption
    <3> QED BY <1>1, <1>4, <2>1, <3>1, <3>2
  <2> QED BY <1>7, <2>2, <2>3
<1>8. Chain(g, x, k, r + 1, 0)
  BY <1>5, <1>6, <1>7 DEF Chain
<1> QED BY <1>3, <1>8 DEF g

\* A pass of the encryption extends the history of its thread.
\* (TEAEncrypt())
LEMMA EncryptKeepsHistory ==
  ASSUME TypeOK, NEW t \in Uploader, EncryptWord(t), CipherOk(t)
  PROVE  CipherOk(t)'
<1> DEFINE x == text[t]
           k == EncryptKey(number[t])
           r == round[t]
           p == word[t]
<1> USE DEF TypeOK
<1>1. /\ pc[t] = "encrypt" /\ r \in 1..Rounds /\ p \in Place /\ k \in Word
      /\ x \in Array /\ data[t] \in Array
  BY ChannelNamesKey, TextAssumption DEF EncryptWord
<1>2. PICK h \in History : Chain(h, x, k, r, p) /\ data[t] = h[r][p]
  BY <1>1 DEF CipherOk
<1>3. PICK g \in History : /\ g[r][p + 1] = EncryptStep(h[r][p], r, p, k)
                           /\ Chain(g, x, k, r, p + 1)
  BY <1>1, <1>2, ChainGrows
<1>4. data'[t] = g[r][p + 1]
  BY <1>2, <1>3 DEF EncryptWord
<1>5. UNCHANGED <<text[t], k>>
  BY DEF EncryptWord
<1> HIDE DEF x, k, r, p
<1>6. CASE p < N - 1
  <2>1. pc'[t] = "encrypt" /\ round'[t] = r /\ word'[t] = p + 1
    BY <1>1, <1>6, SizeAssumption DEF EncryptWord, NextUp, p, r
  <2> QED BY <1>3, <1>4, <1>5, <2>1 DEF CipherOk, x, k
<1>7. CASE p = N - 1 /\ r < Rounds
  <2>1. pc'[t] = "encrypt" /\ round'[t] = r + 1 /\ word'[t] = 0
    BY <1>1, <1>7, SizeAssumption, RoundsAssumption DEF EncryptWord, NextUp, p, r
  <2>2. p + 1 = N
    BY <1>7, SizeAssumption
  <2>3. Chain(g, x, k, r, N) /\ r < Rounds
    BY <1>3, <1>7, <2>2
  <2>4. PICK f \in History : f[r + 1][0] = g[r][N] /\ Chain(f, x, k, r + 1, 0)
    BY <1>1, <2>3, ChainTurns
  <2> QED BY <1>4, <1>5, <2>1, <2>2, <2>4 DEF CipherOk, x, k
<1>8. CASE p = N - 1 /\ r = Rounds
  <2>1. pc'[t] = "load"
    BY <1>1, <1>8, SizeAssumption, RoundsAssumption DEF EncryptWord, NextUp, p, r
  <2>2. p + 1 = N
    BY <1>8, SizeAssumption
  <2> QED BY <1>3, <1>4, <1>5, <1>8, <2>1, <2>2 DEF CipherOk, x, k
<1>9. p < N - 1 \/ p = N - 1
  BY <1>1, SizeAssumption DEF Place
<1>10. r < Rounds \/ r = Rounds
  BY <1>1, RoundsAssumption
<1> QED BY <1>6, <1>7, <1>8, <1>9, <1>10

\* A pass of the decryption walks back along the history, if the key is its
\* thread's own.
\* (TEADecrypt())
LEMMA DecryptWalksBack ==
  ASSUME TypeOK, NEW t \in Uploader, DecryptWord(t), CipherOk(t), ChannelOk(t)
  PROVE  CipherOk(t)'
<1> DEFINE x == text[t]
           k == EncryptKey(number[t])
           r == round[t]
           p == word[t]
<1> USE DEF TypeOK
<1>1. /\ pc[t] = "decrypt" /\ r \in 1..Rounds /\ p \in Place /\ k \in Word
  BY ChannelNamesKey DEF DecryptWord
<1>2. UNCHANGED <<text[t], k, disturbed[t]>> /\ pc'[t] \in {"decrypt", "strip"}
  BY <1>1 DEF DecryptWord, NextDown
<1>3. CASE disturbed[t]
  BY <1>2, <1>3 DEF CipherOk
<1>4. CASE ~disturbed[t]
  <2>1. taken[t] = ChannelId(number[t])
    <3>1. \A i \in Cell : taken[t][i] = ChannelId(number[t])[i]
      BY <1>1, <1>4 DEF ChannelOk, HasTaken
    <3>2. ChannelId(number[t]) \in [Cell -> Byte] /\ taken[t] \in [Cell -> Byte]
      BY ChannelNamesKey
    <3> QED BY <3>1, <3>2
  <2>2. DecryptKey(taken[t]) = k
    BY <2>1, ChannelNamesKey
  <2>3. PICK h \in History : Chain(h, x, k, Rounds, N) /\ data[t] = h[r][p + 1]
    BY <1>1, <1>4 DEF CipherOk
  <2>4. /\ p \in 0..N /\ 0 \in 0..N /\ N \in 0..N
        /\ h[r][p] \in Array
    BY <1>1, SizeAssumption DEF History, Place
  <2>5. h[r][p + 1] = EncryptStep(h[r][p], r, p, k)
    <3>1. r < Rounds \/ (r = Rounds /\ p < N)
      <4> HIDE DEF r, p
      <4> QED BY <1>1, SizeAssumption, RoundsAssumption DEF Place
    <3> QED BY <1>1, <2>3, <3>1 DEF Chain
  <2>6. DecryptStep(data[t], r, p, k) = h[r][p]
    BY <1>1, <2>3, <2>4, <2>5, StepUndone
  <2>7. data'[t] = h[r][p]
    BY <2>2, <2>6 DEF DecryptWord
  <2> HIDE DEF x, k, r, p
  <2>8. CASE p > 0
    <3>1. pc'[t] = "decrypt" /\ round'[t] = r /\ word'[t] = p - 1
      BY <1>1, <2>8 DEF DecryptWord, NextDown, p, r, Place
    <3>2. (p - 1) + 1 = p
      BY <1>1, SizeAssumption DEF Place
    <3> QED BY <1>2, <2>3, <2>7, <3>1, <3>2 DEF CipherOk, x, k
  <2>9. CASE p = 0 /\ r > 1
    <3>1. pc'[t] = "decrypt" /\ round'[t] = r - 1 /\ word'[t] = N - 1
      BY <1>1, <2>9 DEF DecryptWord, NextDown, p, r
    <3>2. r - 1 \in 1..Rounds /\ r - 1 < Rounds /\ (r - 1) + 1 = r /\ (N - 1) + 1 = N
      BY <1>1, <2>9, SizeAssumption, RoundsAssumption
    <3>3. h[(r - 1) + 1][0] = h[r - 1][N]
      BY <2>3, <3>2 DEF Chain
    <3>4. data'[t] = h[round'[t]][word'[t] + 1]
      BY <2>7, <2>9, <3>1, <3>2, <3>3
    <3> QED BY <1>2, <2>3, <3>1, <3>4 DEF CipherOk, x, k
  <2>10. CASE p = 0 /\ r = 1
    <3>1. pc'[t] = "strip"
      BY <1>1, <2>10 DEF DecryptWord, NextDown, p, r
    <3>2. data'[t] = x
      BY <2>3, <2>7, <2>10 DEF Chain
    <3> QED BY <1>2, <3>1, <3>2 DEF CipherOk, x
  <2>11. p > 0 \/ p = 0
    BY <1>1, SizeAssumption DEF Place
  <2>12. r > 1 \/ r = 1
    BY <1>1, RoundsAssumption
  <2> QED BY <2>8, <2>9, <2>10, <2>11, <2>12
<1> QED BY <1>3, <1>4

\* A step keeps the history of every thread.
\* (createUploadData())
LEMMA StepCipher ==
  ASSUME TypeOK, NEW t \in Uploader, Begin(t) \/ Works(t),
         NEW u \in Uploader, CipherOk(u), ChannelOk(u)
  PROVE  CipherOk(u)'
<1> USE DEF TypeOK
<1>1. CASE u # t
  <2>1. /\ pc'[u] = pc[u] /\ number'[u] = number[u] /\ text'[u] = text[u]
        /\ data'[u] = data[u] /\ round'[u] = round[u] /\ word'[u] = word[u]
        /\ disturbed[u] => disturbed'[u]
    BY <1>1, OthersKeep
  <2> QED BY <2>1 DEF CipherOk
<1>2. CASE u = t
  <2>1. CASE Begin(t)
    <3>1. pc'[t] = "store" /\ data'[t] = text'[t]
      BY <2>1 DEF Begin
    <3> QED BY <1>2, <3>1 DEF CipherOk
  <2>2. CASE Store(t)
    <3>1. /\ pc[t] = "store" /\ pc'[t] \in {"store", "encrypt"}
          /\ round'[t] = 1 /\ word'[t] = 0 /\ UNCHANGED <<number, text, data>>
      BY <2>2 DEF Store, Advances
    <3>2. data[t] = text[t] /\ text[t] \in Array
      BY <1>2, <3>1, TextAssumption DEF CipherOk
    <3>3. PICK h \in History : h[1][0] = text[t]
      <4>1. [r \in 1..Rounds |-> [p \in 0..N |-> text[t]]] \in History
        BY <3>2 DEF History
      <4>2. 1 \in 1..Rounds /\ 0 \in 0..N
        BY SizeAssumption, RoundsAssumption
      <4> QED BY <4>1, <4>2
    <3>4. Chain(h, text[t], EncryptKey(number[t]), 1, 0)
      BY <3>3, SizeAssumption, RoundsAssumption DEF Chain, Place
    <3> QED BY <1>2, <3>1, <3>2, <3>3, <3>4 DEF CipherOk
  <2>3. CASE EncryptWord(t)
    BY <1>2, <2>3, EncryptKeepsHistory
  <2>4. CASE Load(t)
    <3>1. /\ pc[t] = "load" /\ pc'[t] \in {"load", "key"}
          /\ UNCHANGED <<number, text, data>>
      BY <2>4 DEF Load, Advances, cipherVars
    <3> QED BY <1>2, <3>1 DEF CipherOk
  <2>5. CASE MakeKey(t)
    <3>1. /\ pc[t] = "key" /\ pc'[t] = "decrypt" /\ round'[t] = Rounds
          /\ word'[t] = N - 1 /\ UNCHANGED <<number, text, data>>
      BY <2>5 DEF MakeKey
    <3>2. (N - 1) + 1 = N
      BY SizeAssumption
    <3> QED BY <1>2, <3>1, <3>2 DEF CipherOk
  <2>6. CASE KeyThrows(t) \/ StripThrows(t)
    <3>1. pc'[t] = "threw"
      BY <2>6 DEF KeyThrows, StripThrows
    <3> QED BY <1>2, <3>1 DEF CipherOk
  <2>7. CASE DecryptWord(t)
    BY <1>2, <2>7, DecryptWalksBack
  <2>8. CASE Returns(t)
    <3>1. pc'[t] = "idle"
      BY <2>8 DEF Returns
    <3> QED BY <1>2, <3>1 DEF CipherOk
  <2> QED BY <2>1, <2>2, <2>3, <2>4, <2>5, <2>6, <2>7, <2>8 DEF Works
<1> QED BY <1>1, <1>2

\* Only a disturbed thread throws: its own ends of the key are in order, and its
\* own text is not blank.
\* (substring() in creatDEncryptKey(), ToByteArray() of XXTEA)
LEMMA StepThrows == IInv /\ Next => ThrowNeedsOther'
<1> SUFFICES ASSUME IInv, NEW t \in Uploader, Begin(t) \/ Works(t),
                    NEW u \in Uploader, pc'[u] = "threw"
             PROVE  disturbed'[u]
  BY DEF Next, ThrowNeedsOther
<1> USE DEF TypeOK, IInv
<1>1. CASE pc[u] = "threw"
  <2>1. disturbed[u]
    BY <1>1 DEF ThrowNeedsOther
  <2>2. u # t
    BY <1>1 DEF Begin, Works, Store, EncryptWord, Load, MakeKey, KeyThrows,
                DecryptWord, StripThrows, Returns
  <2> QED BY <2>1, <2>2, OthersKeep
<1>2. CASE pc[u] # "threw" /\ KeyThrows(u)
  <2>1. pc[u] = "key" /\ taken[u][3] < taken[u][2] /\ UNCHANGED disturbed
    BY <1>2 DEF KeyThrows
  <2>2. 2 \in Cell /\ 3 \in Cell
    BY DEF Cell
  <2>3. taken[u][2] \in 0..99 /\ taken[u][3] \in 0..99
    BY <2>2 DEF Byte
  <2>4. ASSUME ~disturbed[u] PROVE FALSE
    <3>1. /\ taken[u][2] = ChannelId(number[u])[2]
          /\ taken[u][3] = ChannelId(number[u])[3]
      BY <2>1, <2>2, <2>4 DEF ChannelOk, HasTaken
    <3>2. taken[u][2] <= taken[u][3]
      BY <3>1, ChannelNamesKey
    <3>3. \A a, b \in 0..99 : ~(a < b /\ b <= a)
      OBVIOUS
    <3> QED BY <2>1, <2>3, <3>2, <3>3, Zenon
  <2> QED BY <2>1, <2>4
<1>3. CASE pc[u] # "threw" /\ StripThrows(u)
  <2>1. pc[u] = "strip" /\ Blank(u) /\ UNCHANGED disturbed
    BY <1>3 DEF StripThrows
  <2>2. ~disturbed[u] => data[u] = text[u]
    BY <2>1 DEF CipherOk
  <2>3. \E i \in Place : text[u][i] # 0
    BY TextAssumption
  <2> QED BY <2>1, <2>2, <2>3 DEF Blank
<1>4. CASE pc[u] # "threw" /\ ~KeyThrows(u) /\ ~StripThrows(u)
  <2>1. u = t
    BY <1>4, OthersKeep
  <2>2. CASE Begin(t)
    BY <2>1, <2>2 DEF Begin
  <2>3. CASE Store(t) \/ Load(t)
    BY <1>4, <2>1, <2>3 DEF Store, Load, Advances
  <2>4. CASE EncryptWord(t)
    BY <1>4, <2>1, <2>4 DEF EncryptWord, NextUp
  <2>5. CASE DecryptWord(t)
    BY <1>4, <2>1, <2>5 DEF DecryptWord, NextDown
  <2>6. CASE MakeKey(t) \/ Returns(t)
    BY <2>1, <2>6 DEF MakeKey, Returns
  <2> QED BY <1>4, <2>1, <2>2, <2>3, <2>4, <2>5, <2>6 DEF Works
<1>5. KeyThrows(u) \/ StripThrows(u) \/ (~KeyThrows(u) /\ ~StripThrows(u))
  OBVIOUS
<1> QED BY <1>1, <1>2, <1>3, <1>4, <1>5

-----------------------------------------------------------------------------
(* The theorems *)

LEMMA InitIInv == Init => IInv
<1> SUFFICES ASSUME Init PROVE IInv
  OBVIOUS
<1>1. TypeOK
  <2>1. 1 \in 1..Rounds /\ 0 \in Place /\ 0 \in Cell /\ 0 \in Byte /\ "idle" \in Stage
    BY SizeAssumption, RoundsAssumption DEF Place, Cell, Byte, Stage
  <2>2. data \in [Uploader -> Array]
    BY TextAssumption DEF Init
  <2> QED BY <2>1, <2>2 DEF Init, TypeOK
<1>2. \A t \in Uploader : CipherOk(t) /\ ChannelOk(t)
  BY DEF Init, CipherOk, ChannelOk, Holds, HasTaken
<1>3. ThrowNeedsOther
  BY DEF Init, ThrowNeedsOther
<1> QED BY <1>1, <1>2, <1>3 DEF IInv

LEMMA StepIInv == IInv /\ [Next]_vars => IInv'
<1> SUFFICES ASSUME IInv, [Next]_vars PROVE IInv'
  OBVIOUS
<1>1. CASE Next
  <2>1. PICK t \in Uploader : Begin(t) \/ Works(t)
    BY <1>1 DEF Next
  <2>2. TypeOK'
    BY <1>1, StepTypeOK DEF IInv
  <2>3. \A u \in Uploader : (CipherOk(u) /\ ChannelOk(u))'
    BY <2>1, StepChannel, StepCipher DEF IInv
  <2>4. ThrowNeedsOther'
    BY <1>1, StepThrows
  <2> QED BY <2>2, <2>3, <2>4 DEF IInv
<1>2. CASE UNCHANGED vars
  BY <1>2 DEF IInv, TypeOK, CipherOk, ChannelOk, Holds, HasTaken, ThrowNeedsOther,
              vars, cipherVars
<1> QED BY <1>1, <1>2

LEMMA IInvHolds == Spec => []IInv
<1> QED BY InitIInv, StepIInv, PTL DEF Spec

\* The variables keep their types.
\* (createUploadData())
THEOREM TypeCorrect == Spec => []TypeOK
<1>1. IInv => TypeOK
  BY DEF IInv
<1> QED BY <1>1, IInvHolds, PTL

\* An upload that no other thread disturbed decrypts to the text it was given.
\* (TEAEncrypt(), TEADecrypt(), creatEncryptKey(), creatDEncryptKey())
THEOREM DecryptsOwnTextHolds == Spec => []DecryptsOwnText
<1>1. IInv => DecryptsOwnText
  BY DEF IInv, CipherOk, DecryptsOwnText
<1> QED BY <1>1, IInvHolds, PTL

\* An upload throws only if another thread stored its channel id during it.
\* (substring() in creatDEncryptKey(), ToByteArray() of XXTEA)
THEOREM ThrowNeedsOtherHolds == Spec => []ThrowNeedsOther
<1>1. IInv => ThrowNeedsOther
  BY DEF IInv
<1> QED BY <1>1, IInvHolds, PTL
=============================================================================
