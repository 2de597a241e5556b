----------------------------- MODULE UploadFrame -----------------------------
(***************************************************************************)
(* createUploadData() of CreateUploadDataUtil.java, which every upload of  *)
(* the tracker goes through: a random number gives a key, its channel id   *)
(* goes into a static array, XXTEA.java encrypts the text, and before the  *)
(* frame is returned the text is decrypted again for the log, with the key *)
(* that the static array gives by then.  The main thread and the wifi      *)
(* check upload with no lock.                                              *)
(*                                                                         *)
(* The cipher is kept to what makes it invertible: a word is a number with *)
(* wrap-around, each step adds to one word what the round function MX      *)
(* makes of the words beside it.  `round' is sum in multiples of DELTA     *)
(* (58 times DELTA is far below 2^63, sum does not overflow).  The frame   *)
(* itself has no channel id left: its type and length overwrite it, and    *)
(* its bytes are the subject of ServerLink.                                *)
(***************************************************************************)
EXTENDS Naturals

CONSTANTS
  Uploader,             \* the threads that upload
  Main,                 \* the UI thread
  Number,               \* random numbers that occur
  Text,                 \* texts to upload, as arrays of words
  N,                    \* words of a text: ToLongArray() makes at least four
  Rounds,               \* rounds of the cipher: q = 6 + 52 / n in Java
  Modulus,              \* number of values of a word: 2^64 in Java
  Digest(_, _, _),      \* MD5 of a number, from start to end: word 0 of the key
  MX(_, _, _, _, _)     \* round function: round, word, left, right, key

Word == 0..(Modulus - 1)
Place == 0..(N - 1)
Array == [Place -> Word]
RandNumber == 0..9999    \* createRandNumber()
Cell == 0..3
Byte == 0..99            \* what an element of the channel id can be

ASSUME SizeAssumption == N \in Nat \ {0, 1} /\ Modulus \in Nat \ {0}
ASSUME RoundsAssumption == Rounds \in Nat \ {0}
ASSUME MainAssumption == Main \in Uploader
ASSUME NumberAssumption == Number \subseteq RandNumber
ASSUME TextAssumption ==
  Text \subseteq Array /\ \A x \in Text : \E i \in Place : x[i] # 0
ASSUME DigestAssumption ==
  \A n \in RandNumber, start \in Byte, end \in Byte : Digest(n, start, end) \in Word
ASSUME MXAssumption ==
  \A r \in 1..Rounds, p \in Place, z \in Word, y \in Word, k \in Word :
    MX(r, p, z, y, k) \in Word

VARIABLES
  channelIdArray,  \* the static array
  pc,              \* where each thread is in createUploadData()
  number,          \* its random number
  text,            \* the text it was given
  data,            \* the array its cipher works on
  round, word,     \* the loop variables sum and p of the cipher
  cell,            \* the next element of channelIdArray it stores or reads
  taken,           \* the elements it has read
  disturbed        \* another thread stored over an element it was still to read

cipherVars == <<text, data, round, word>>
vars == <<channelIdArray, pc, number, cipherVars, cell, taken, disturbed>>

Stage == {"idle", "store", "encrypt", "load", "key", "decrypt", "strip", "threw"}

TypeOK ==
  /\ channelIdArray \in [Cell -> Byte]
  /\ pc \in [Uploader -> Stage]
  /\ number \in [Uploader -> Number]
  /\ text \in [Uploader -> Text]
  /\ data \in [Uploader -> Array]
  /\ round \in [Uploader -> 1..Rounds]
  /\ word \in [Uploader -> Place]
  /\ cell \in [Uploader -> Cell]
  /\ taken \in [Uploader -> [Cell -> Byte]]
  /\ disturbed \in [Uploader -> BOOLEAN]

Init ==
  /\ channelIdArray = [i \in Cell |-> 0]
  /\ pc = [t \in Uploader |-> "idle"]
  /\ number \in [Uploader -> Number]
  /\ text \in [Uploader -> Text]
  /\ data = text
  /\ round = [t \in Uploader |-> 1]
  /\ word = [t \in Uploader |-> 0]
  /\ cell = [t \in Uploader |-> 0]
  /\ taken = [t \in Uploader |-> [i \in Cell |-> 0]]
  /\ disturbed = [t \in Uploader |-> FALSE]

-----------------------------------------------------------------------------
(* Words, keys and one step of the cipher *)

Plus(a, b) == IF a + b < Modulus THEN a + b ELSE a + b - Modulus
Minus(a, b) == IF b <= a THEN a - b ELSE a + Modulus - b

After(p) == IF p = N - 1 THEN 0 ELSE p + 1
Before(p) == IF p = 0 THEN N - 1 ELSE p - 1

\* What the step on word p adds: it reads only the words beside p.
Term(d, r, p, k) == MX(r, p, d[Before(p)], d[After(p)], k)

EncryptStep(d, r, p, k) == [d EXCEPT ![p] = Plus(d[p], Term(d, r, p, k))]
DecryptStep(d, r, p, k) == [d EXCEPT ![p] = Minus(d[p], Term(d, r, p, k))]

\* creatEncryptKey(): the key, and the channel id that names it
EncryptKey(n) == Digest(n, n % 10, (n % 10) + 6)
\* Mutant: the ends of the key are swapped.
ChannelId_swapped(n) ==
  [i \in Cell |-> CASE i = 0 -> n \div 100
                     [] i = 1 -> n % 100
                     [] i = 2 -> (n % 10) + 6
                     [] i = 3 -> n % 10]
ChannelId(n) == [i \in Cell |-> CASE i = 0 -> n \div 100
                                  [] i = 1 -> n % 100
                                  [] i = 2 -> n % 10
                                  [] i = 3 -> (n % 10) + 6]

\* creatDEncryptKey()
DecryptKey(id) == Digest(id[0] * 100 + id[1], id[2], id[3])

-----------------------------------------------------------------------------
(* createUploadData() *)

Begin(t) ==
  /\ pc[t] = "idle"
  /\ \E n \in Number : number' = [number EXCEPT ![t] = n]
  /\ \E x \in Text : text' = [text EXCEPT ![t] = x] /\ data' = [data EXCEPT ![t] = x]
  /\ pc' = [pc EXCEPT ![t] = "store"]
  /\ cell' = [cell EXCEPT ![t] = 0]
  /\ UNCHANGED <<channelIdArray, round, word, taken, disturbed>>

\* Element i is stored by thread t and not yet read again by it.
Holds(t, i) ==
  \/ pc[t] = "store" /\ i < cell[t]
  \/ pc[t] = "encrypt"
  \/ pc[t] = "load" /\ cell[t] <= i

\* The next element, or the next part of the method
Advances(t, next) ==
  IF cell[t] < 3
  THEN cell' = [cell EXCEPT ![t] = @ + 1] /\ pc' = pc
  ELSE cell' = [cell EXCEPT ![t] = 0] /\ pc' = [pc EXCEPT ![t] = next]

Store(t) ==
  /\ pc[t] = "store"
  /\ channelIdArray' = [channelIdArray EXCEPT ![cell[t]] = ChannelId(number[t])[cell[t]]]
  /\ disturbed' = [u \in Uploader |-> disturbed[u] \/ (u # t /\ Holds(u, cell[t]))]
  /\ Advances(t, "encrypt")
  /\ round' = [round EXCEPT ![t] = 1]
  /\ word' = [word EXCEPT ![t] = 0]
  /\ UNCHANGED <<number, text, data, taken>>

\* TEAEncrypt(): the next word, the next round, or the end
NextUp(t) ==
  \/ word[t] < N - 1
     /\ word' = [word EXCEPT ![t] = @ + 1]
     /\ UNCHANGED <<round, pc>>
  \/ word[t] = N - 1 /\ round[t] < Rounds
     /\ word' = [word EXCEPT ![t] = 0]
     /\ round' = [round EXCEPT ![t] = @ + 1]
     /\ UNCHANGED pc
  \/ word[t] = N - 1 /\ round[t] = Rounds
     /\ pc' = [pc EXCEPT ![t] = "load"]
     /\ UNCHANGED <<round, word>>

\* One pass of its inner loop
EncryptWord(t) ==
  /\ pc[t] = "encrypt"
  /\ data' = [data EXCEPT ![t] =
                EncryptStep(@, round[t], word[t], EncryptKey(number[t]))]
  /\ NextUp(t)
  /\ UNCHANGED <<channelIdArray, number, text, cell, taken, disturbed>>

Load(t) ==
  /\ pc[t] = "load"
  /\ taken' = [taken EXCEPT ![t][cell[t]] = channelIdArray[cell[t]]]
  /\ Advances(t, "key")
  /\ UNCHANGED <<channelIdArray, number, cipherVars, disturbed>>

\* md5String.substring(start, end)
MakeKey_from(t, r, p) ==
  /\ pc[t] = "key"
  /\ taken[t][2] <= taken[t][3]
  /\ pc' = [pc EXCEPT ![t] = "decrypt"]
  /\ round' = [round EXCEPT ![t] = r]
  /\ word' = [word EXCEPT ![t] = p]
  /\ UNCHANGED <<channelIdArray, number, text, data, cell, taken, disturbed>>
\* Mutants: sum starts a round short, p past the last word.
MakeKey_roundShort(t) == MakeKey_from(t, Rounds - 1, N - 1)
MakeKey_wordPast(t) == MakeKey_from(t, Rounds, N)
MakeKey(t) ==
  /\ pc[t] = "key"
  /\ taken[t][2] <= taken[t][3]
  /\ pc' = [pc EXCEPT ![t] = "decrypt"]
  /\ round' = [round EXCEPT ![t] = Rounds]
  /\ word' = [word EXCEPT ![t] = N - 1]
  /\ UNCHANGED <<channelIdArray, number, text, data, cell, taken, disturbed>>

KeyThrows(t) ==
  /\ pc[t] = "key"
  /\ taken[t][3] < taken[t][2]
  /\ pc' = [pc EXCEPT ![t] = "threw"]
  /\ UNCHANGED <<channelIdArray, number, cipherVars, cell, taken, disturbed>>

\* TEADecrypt(): the next word down, the next round down, or the end, which is
\* when sum is 0
NextDown(t) ==
  \/ word[t] > 0
     /\ word' = [word EXCEPT ![t] = @ - 1]
     /\ UNCHANGED <<round, pc>>
  \/ word[t] = 0 /\ round[t] > 1
     /\ word' = [word EXCEPT ![t] = N - 1]
     /\ round' = [round EXCEPT ![t] = @ - 1]
     /\ UNCHANGED pc
  \/ word[t] = 0 /\ round[t] = 1
     /\ pc' = [pc EXCEPT ![t] = "strip"]
     /\ UNCHANGED <<round, word>>

\* One pass of its inner loop
DecryptWord(t) ==
  /\ pc[t] = "decrypt"
  /\ data' = [data EXCEPT ![t] =
                DecryptStep(@, round[t], word[t], DecryptKey(taken[t]))]
  /\ NextDown(t)
  /\ UNCHANGED <<channelIdArray, number, text, cell, taken, disturbed>>

\* ToByteArray() takes the zeros off the end; of nothing but zeros it takes one
\* too many.
Blank(t) == \A i \in Place : data[t][i] = 0

StripThrows(t) ==
  /\ pc[t] = "strip"
  /\ Blank(t)
  /\ pc' = [pc EXCEPT ![t] = "threw"]
  /\ UNCHANGED <<channelIdArray, number, cipherVars, cell, taken, disturbed>>

\* The frame is returned; what the locals held is forgotten.
Returns(t) ==
  /\ pc[t] = "strip"
  /\ ~Blank(t)
  /\ pc' = [pc EXCEPT ![t] = "idle"]
  /\ data' = [data EXCEPT ![t] = text[t]]
  /\ taken' = [taken EXCEPT ![t] = [i \in Cell |-> 0]]
  /\ disturbed' = [disturbed EXCEPT ![t] = FALSE]
  /\ UNCHANGED <<channelIdArray, number, text, round, word, cell>>

-----------------------------------------------------------------------------
Works(t) ==
  \/ Store(t)
  \/ EncryptWord(t)
  \/ Load(t)
  \/ MakeKey(t)
  \/ KeyThrows(t)
  \/ DecryptWord(t)
  \/ StripThrows(t)
  \/ Returns(t)

\* An exception on the UI thread ends the process, elsewhere the thread's task.
Alive == pc[Main] # "threw"

Next == Alive /\ \E t \in Uploader : Begin(t) \/ Works(t)

Spec == Init /\ [][Next]_vars

-----------------------------------------------------------------------------
(* Properties *)

\* The text decrypted for the log is the text to upload, unless another thread
\* stored its channel id in between: decryption undoes every step of encryption
\* under the key that the channel id names.
\* (createUploadData(), TEAEncrypt() and TEADecrypt())
DecryptsOwnText ==
  \A t \in Uploader : pc[t] = "strip" /\ ~disturbed[t] => data[t] = text[t]

\* An upload is lost to an exception only if another thread stored its channel
\* id while the upload was under way.
\* (substring() in creatDEncryptKey(), ToByteArray() of XXTEA)
ThrowNeedsOther == \A t \in Uploader : pc[t] = "threw" => disturbed[t]
=============================================================================
