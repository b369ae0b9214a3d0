------------------------- MODULE SystemCallsProofs -------------------------
(***************************************************************************)
(* Machine-checked proofs about SystemCalls, for every word size, every    *)
(* program and every answer of OS/2.  They rest on one inductive           *)
(* invariant, IInv: what is on the stack, from the caller's part upwards,  *)
(* at every step of every handler, and how far a writev has come.          *)
(***************************************************************************)
EXTENDS SystemCalls, SequenceTheorems, TLAPS

Numbers == {"number"} \X (0 .. W - 1)

-----------------------------------------------------------------------------
(* The inductive invariant *)

\* The stack of the caller, with the arguments; on entry; with bp saved.
CallersStack == found.stack \o Passed(call)
Entered == CallersStack \o ReturnAddress(call)
Framed == Entered \o <<Word("bp", found.bp)>>

\* The registers a handler saves before it works.
SavedRegs ==
  CASE handler \in {"write", "read"} -> <<found.reg["si"], found.reg["di"]>>
    [] handler = "writev" ->
         <<found.reg["si"], found.reg["di"], found.reg["bx"], found.reg["cx"]>>
    [] handler = "printnum" -> <<found.reg["bx"], found.reg["si"], found.reg["di"]>>
    [] OTHER -> <<>>

Working == Framed \o SavedRegs

\* What writev has in dx, cx and si after n buffers.
LoopWords(n, dx) ==
  <<dx, Number(Len(call.list) - n), Word(call.args[2][1][1], (8 * n) % W)>>

\* Which handler serves which call, and what the call then passes.
HandlerInv ==
  step \notin {"user", "enter"} =>
    /\ handler = "printnum" <=> call.entry = -1
    /\ handler \notin {"none", "printnum"} =>
         handler = HandlerOf(call.nr) /\ handler \in Dispatched(call.entry)

FoundInv ==
  /\ found \in [reg : [Regs -> Words], bp : Nat, stack : Seq(Words)]
  /\ step # "user" => call \in Calls

\* A handler leaves the registers it does not save alone.
RegsInv ==
  /\ step \in {"enter", "handle"} => reg = found.reg
  /\ step \in {"dos", "back"} /\ handler \in {"write", "read"} => reg["bx"] = found.reg["bx"]
  /\ step \in {"dos", "back"} /\ handler \in {"close", "exit"} =>
       \A r \in {"bx", "si", "di"} : reg[r] = found.reg[r]
  /\ step = "return" => \A r \in {"bx", "si", "di"} : reg[r] = found.reg[r]

\* The stack, but for what a writev puts on it.
StackInv ==
  /\ step = "enter" => stack = Entered /\ bp = found.bp
  /\ step = "handle" => stack = Framed /\ bp = Len(Framed)
  /\ step = "loop" => handler = "writev" /\ stack = Working
  /\ step = "dos" /\ handler \notin {"writev", "read"} => stack = Working \o Request
  /\ step = "dos" /\ handler = "read" =>
       LET n == Len(stack) - 6
       IN /\ Len(stack) = Len(Working) + 6
          /\ SubSeq(stack, 1, n) = Working
  /\ step = "back" /\ handler # "writev" => stack = Working
  /\ step = "return" => stack = CallersStack /\ bp = found.bp
  /\ step \in {"dos", "back"} => handler \notin {"none", "ioctl", "getpid"}

\* A writev after n buffers: dx and the total's high word count what was written.
Counted(n, dx, bytes) ==
  /\ Value(cell["totalHi"]) <= n
  /\ ~served.failed => Value(dx) + W * Value(cell["totalHi"]) = bytes

WritevInv ==
  handler = "writev" =>
    /\ step \in {"handle", "loop", "dos", "back"} => served.answers <= Len(call.list)
    /\ step = "loop" =>
         /\ <<reg["dx"], reg["cx"], reg["si"]>> = LoopWords(served.answers, reg["dx"])
         /\ reg["bx"] = call.args[1][1]
         /\ reg["dx"] \in Numbers /\ Counted(served.answers, reg["dx"], served.bytes)
    /\ step = "dos" => \E dx \in Numbers :
         /\ served.answers < Len(call.list)
         /\ stack = Working \o LoopWords(served.answers, dx) \o Request
         /\ reg["bx"] = call.args[1][1]
         /\ Counted(served.answers, dx, served.bytes)
    /\ step = "back" => \E dx \in Numbers :
         /\ served.answers >= 1
         /\ stack = Working \o LoopWords(served.answers - 1, dx)
         /\ reg["bx"] = call.args[1][1]
         /\ Counted(served.answers - 1, dx, served.bytes - Value(cell["wlen"]))

\* The answers of OS/2, and what is made of them.
AnswersInv ==
  /\ step \in {"enter", "handle"} => served = Unserved
  /\ handler = "write" /\ step = "dos" => served = Unserved
  /\ handler = "write" /\ step = "back" =>
       /\ served.answers = 1
       /\ ~served.failed => served.bytes = Value(cell["wlen"])
  /\ ResultsRight

IInv == /\ SyscallTypeOK /\ FoundInv /\ HandlerInv /\ RegsInv
        /\ StackInv /\ WritevInv /\ AnswersInv
-----------------------------------------------------------------------------
(* Lemmas about sequences of words *)

\* What was put on a stack is at its top, and what was there is below.
LEMMA Concatenated ==
  ASSUME NEW s \in Seq(Words), NEW t \in Seq(Words)
  PROVE  /\ s \o t \in Seq(Words)
         /\ Len(s \o t) = Len(s) + Len(t)
         /\ \A k \in 0 .. Len(t) - 1 : (s \o t)[Len(s \o t) - k] = t[Len(t) - k]
         /\ \A i \in 1 .. Len(s) : (s \o t)[i] = s[i]
<1>1. Len(s) \in Nat /\ Len(t) \in Nat
  BY LenProperties
<1>2. /\ s \o t \in Seq(Words)
      /\ Len(s \o t) = Len(s) + Len(t)
      /\ \A i \in 1 .. Len(s) + Len(t) : (s \o t)[i] =
                     IF i <= Len(s) THEN s[i] ELSE t[i - Len(s)]
  BY ConcatProperties
<1>3. ASSUME NEW k \in 0 .. Len(t) - 1
      PROVE  (s \o t)[Len(s \o t) - k] = t[Len(t) - k]
  <2>1. /\ Len(s) + Len(t) - k \in 1 .. Len(s) + Len(t)
        /\ ~(Len(s) + Len(t) - k <= Len(s))
        /\ Len(s) + Len(t) - k - Len(s) = Len(t) - k
    BY <1>1
  <2>2. QED
    BY <1>2, <2>1
<1>4. ASSUME NEW i \in 1 .. Len(s) PROVE (s \o t)[i] = s[i]
  BY <1>1, <1>2
<1>5. QED
  BY <1>2, <1>3, <1>4

\* Taking off what was put on leaves what was there.
LEMMA PutAndTaken ==
  ASSUME NEW s \in Seq(Words), NEW t \in Seq(Words)
  PROVE  SubSeq(s \o t, 1, Len(s \o t) - Len(t)) = s
<1> DEFINE u == SubSeq(s \o t, 1, Len(s))
<1>1. Len(s) \in Nat /\ Len(t) \in Nat
  BY LenProperties
<1>2. /\ \A i \in 1 .. Len(s) : (s \o t)[i] = s[i] /\ s[i] \in Words
      /\ Len(s \o t) - Len(t) = Len(s)
  BY <1>1, Concatenated, ElementOfSeq
<1>3. /\ u \in Seq(Words) /\ Len(u) = IF 1 <= Len(s) THEN Len(s) - 1 + 1 ELSE 0
      /\ \A i \in 1 .. Len(s) - 1 + 1 : u[i] = (s \o t)[1 + i - 1]
  BY ONLY <1>1, <1>2, SubSeqProperties
<1>4. Len(u) = Len(s) /\ \A i \in 1 .. Len(s) : u[i] = s[i]
  BY <1>1, <1>2, <1>3
<1>5. u = s
  BY <1>3, <1>4, SeqEqual
<1>6. QED
  BY <1>2, <1>5

\* And what was put on is what the top consists of.
LEMMA Slice ==
  ASSUME NEW q \in Seq(Words), NEW t \in Seq(Words), NEW m \in Int, NEW n \in Int,
         m >= 1, n = Len(q), n - m + 1 = Len(t),
         \A i \in 1 .. Len(t) : q[m + i - 1] = t[i]
  PROVE  SubSeq(q, m, n) = t
<1>1. Len(t) \in Nat
  BY LenProperties
<1>2. \A i \in m .. n : q[i] \in Words
  BY ElementOfSeq
<1>3. /\ SubSeq(q, m, n) \in Seq(Words)
      /\ Len(SubSeq(q, m, n)) = IF m <= n THEN n - m + 1 ELSE 0
      /\ \A i \in 1 .. n - m + 1 : SubSeq(q, m, n)[i] = q[m + i - 1]
  BY <1>2, SubSeqProperties
<1>4. Len(SubSeq(q, m, n)) = Len(t)
  BY ONLY <1>1, <1>3, m \in Int, n \in Int, n - m + 1 = Len(t)
<1>5. \A i \in 1 .. Len(SubSeq(q, m, n)) : SubSeq(q, m, n)[i] = t[i]
  BY <1>3, <1>4, Zenon
<1>6. QED
  BY <1>3, <1>4, <1>5, SeqEqual, Zenon

LEMMA TopOfStack ==
  ASSUME NEW s \in Seq(Words), NEW t \in Seq(Words)
  PROVE  SubSeq(s \o t, Len(s \o t) - Len(t) + 1, Len(s \o t)) = t
<1>1. Len(s) \in Nat /\ Len(t) \in Nat
  BY LenProperties
<1>2. s \o t \in Seq(Words) /\ Len(s \o t) = Len(s) + Len(t)
  BY Concatenated, Zenon
<1>3. ASSUME NEW i \in 1 .. Len(t)
      PROVE  (s \o t)[Len(s \o t) - Len(t) + 1 + i - 1] = t[i]
  <2>1. /\ Len(t) - i \in 0 .. Len(t) - 1
        /\ Len(s \o t) - Len(t) + 1 + i - 1 = Len(s \o t) - (Len(t) - i)
        /\ Len(t) - (Len(t) - i) = i
    BY <1>1, <1>2
  <2>2. QED
    BY <2>1, Concatenated
<1>4. /\ Len(s \o t) \in Int /\ Len(s \o t) - Len(t) + 1 \in Int
      /\ Len(s \o t) - Len(t) + 1 >= 1
      /\ Len(s \o t) - (Len(s \o t) - Len(t) + 1) + 1 = Len(t)
  BY <1>1, <1>2
<1>5. QED
  BY <1>2, <1>3, <1>4, Slice
LEMMA Reassociated ==
  ASSUME NEW s \in Seq(Words), NEW t \in Seq(Words), NEW u \in Seq(Words)
  PROVE  (s \o t) \o u = s \o (t \o u)
BY ConcatAssociative

\* Four words and two are six.
LEMMA SixWords ==
  ASSUME NEW a, NEW b, NEW c, NEW d, NEW e, NEW f
  PROVE  <<a, b, c, d>> \o <<e, f>> = <<a, b, c, d, e, f>>
<1> DEFINE S == {a, b, c, d, e, f}
           s == <<a, b, c, d>>
           t == <<e, f>>
           u == <<a, b, c, d, e, f>>
<1>1. s \in Seq(S) /\ Len(s) = 4 /\ t \in Seq(S) /\ Len(t) = 2 /\ u \in Seq(S) /\ Len(u) = 6
  OBVIOUS
<1>2. /\ s \o t \in Seq(S) /\ Len(s \o t) = 6
      /\ \A i \in 1 .. 6 : (s \o t)[i] = IF i <= 4 THEN s[i] ELSE t[i - 4]
  BY <1>1, ConcatProperties
<1>3. \A i \in 1 .. 6 : (s \o t)[i] = u[i]
  BY <1>2
<1>4. QED
  BY <1>1, <1>2, <1>3, SeqEqual

-----------------------------------------------------------------------------
(* Lemmas about words and calls *)

\* Numbers are words of the kind "number"; any other kind comes with any number.
LEMMA WordFacts ==
  /\ W \in Nat /\ W >= 76
  /\ Numbers \subseteq Words
  /\ \A n \in Int : Number(n) \in Numbers /\ (n \in 0 .. W - 1 => Number(n) = <<"number", n>>)
  /\ \A n \in Int : /\ Word("cs", n) \in Words /\ Word("ip", n) \in Words
                    /\ Word("nr", n) \in Words /\ Word("bp", n) \in Words
                    /\ Word("ds", n) \in Words /\ Word("error", n) \in Words
                    /\ Word("itoa", n) \in Words
                    /\ \A r \in Regs \cup Cells : Word(r, n) \in Words
  /\ \A w \in Words : w[1] \in Kinds /\ w[2] \in Int
  /\ \A w \in Words, n \in Int : Word(w[1], n % W) \in Words
<1>1. W \in Nat /\ W >= 76
  BY WordAssumption
<1>2. Numbers \subseteq Words
  <2>1. ASSUME NEW n \in 0 .. W - 1 PROVE <<"number", n>> \in Words
    BY <2>1 DEF Words, Kinds
  <2>2. QED
    BY <2>1 DEF Numbers
<1>3. ASSUME NEW n \in Int PROVE n % W \in 0 .. W - 1 /\ (n \in 0 .. W - 1 => n % W = n)
  BY <1>1
<1>4. ASSUME NEW kind \in Kinds \ {"number"}, NEW n \in Int PROVE Word(kind, n) \in Words
  BY DEF Word, Words
<1>8. /\ "cs" \in Kinds /\ "ip" \in Kinds /\ "nr" \in Kinds /\ "bp" \in Kinds
      /\ "ds" \in Kinds /\ "error" \in Kinds /\ "itoa" \in Kinds
      /\ \A r \in Regs \cup Cells : r \in Kinds \ {"number"}
  BY DEF Kinds, Regs, Cells
<1>9. ASSUME NEW n \in Int
      PROVE  /\ Word("cs", n) \in Words /\ Word("ip", n) \in Words
             /\ Word("nr", n) \in Words /\ Word("bp", n) \in Words
             /\ Word("ds", n) \in Words /\ Word("error", n) \in Words
             /\ Word("itoa", n) \in Words
             /\ \A r \in Regs \cup Cells : Word(r, n) \in Words
  BY <1>4, <1>8
<1>5. \A w \in Words : w[1] \in Kinds /\ w[2] \in Int
  BY DEF Words
<1>6. ASSUME NEW w \in Words, NEW n \in Int PROVE Word(w[1], n % W) \in Words
  BY <1>3, <1>5 DEF Word, Words
<1>7. QED
  BY <1>1, <1>2, <1>3, <1>5, <1>6, <1>9 DEF Number, Numbers, Word

\* Longs pushed: two words each, argument k in the words 2k and 2k + 1 from the top.
LEMMA PushedLongs ==
  ASSUME NEW longs \in Seq(Words \X Words)
  PROVE  /\ Pushed(longs) \in Seq(Words)
         /\ Len(Pushed(longs)) = 2 * Len(longs)
         /\ \A k \in 1 .. Len(longs) :
              /\ Pushed(longs)[2 * (Len(longs) - k) + 2] = longs[k][1]
              /\ Pushed(longs)[2 * (Len(longs) - k) + 1] = longs[k][2]
<1> DEFINE L == Len(longs)
<1>1. L \in Nat
  BY LenProperties
<1>2. \A k \in 1 .. L : longs[k] \in Words \X Words
  BY ElementOfSeq
<1> HIDE DEF L
<1>3. ASSUME NEW i \in 1 .. 2 * L
      PROVE  longs[L - (i - 1) \div 2][IF i % 2 = 1 THEN 2 ELSE 1] \in Words
  <2>1. L - (i - 1) \div 2 \in 1 .. L
    BY <1>1
  <2>2. longs[L - (i - 1) \div 2] \in Words \X Words
    BY <1>2, <2>1
  <2>3. QED
    BY <2>2
<1>4. Pushed(longs) =
        [i \in 1 .. 2 * L |-> longs[L - (i - 1) \div 2][IF i % 2 = 1 THEN 2 ELSE 1]]
  BY DEF Pushed, L
<1>5. Pushed(longs) \in [1 .. 2 * L -> Words]
  BY <1>3, <1>4
<1>6. Pushed(longs) \in Seq(Words) /\ Len(Pushed(longs)) = 2 * L
  BY <1>1, <1>5
<1>7. ASSUME NEW k \in 1 .. L, NEW i \in Int, i = 2 * (L - k) + 2
      PROVE  Pushed(longs)[i] = longs[k][1]
  <2>1. i \in 1 .. 2 * L /\ i % 2 = 0 /\ L - (i - 1) \div 2 = k
    BY <1>1, <1>7
  <2>2. Pushed(longs)[i] = longs[L - (i - 1) \div 2][IF i % 2 = 1 THEN 2 ELSE 1]
    BY <1>4, <2>1
  <2>3. QED
    BY <2>1, <2>2
<1>8. ASSUME NEW k \in 1 .. L, NEW i \in Int, i = 2 * (L - k) + 1
      PROVE  Pushed(longs)[i] = longs[k][2]
  <2>1. i \in 1 .. 2 * L /\ i % 2 = 1 /\ L - (i - 1) \div 2 = k
    BY <1>1, <1>8
  <2>2. Pushed(longs)[i] = longs[L - (i - 1) \div 2][IF i % 2 = 1 THEN 2 ELSE 1]
    BY <1>4, <2>1
  <2>3. QED
    BY <2>1, <2>2
<1>9. QED
  BY <1>1, <1>6, <1>7, <1>8 DEF L

\* What a call is, and the words it puts on the stack.
LEMMA CallFacts ==
  ASSUME NEW c \in Calls
  PROVE  /\ c \in CallRecords /\ SystemCall(c)
         /\ Len(c.args) \in Nat /\ \A k \in 1 .. Len(c.args) : c.args[k] \in Words \X Words
         /\ Passed(c) \in Seq(Words)
         /\ Len(Passed(c)) = 2 * Len(c.args) + IF c.entry = -1 THEN 0 ELSE 2
         /\ ReturnAddress(c) \in Seq(Words)
         /\ Len(ReturnAddress(c)) = IF c.entry = -1 THEN 1 ELSE 2
         /\ c.entry # -1 => \A k \in 1 .. Len(c.args) :
              /\ Passed(c)[Len(Passed(c)) - 2 * k] = c.args[k][1]
              /\ Passed(c)[Len(Passed(c)) - 2 * k - 1] = c.args[k][2]
<1>1. c \in CallRecords /\ SystemCall(c)
  BY CallsAssumption DEF SystemCall
<1>2. c.args \in Seq(Words \X Words) /\ c.nr \in Nat
  BY <1>1 DEF CallRecords
<1>3. Len(c.args) \in Nat /\ \A k \in 1 .. Len(c.args) : c.args[k] \in Words \X Words
  BY <1>2, LenProperties, ElementOfSeq
<1>4. /\ ReturnAddress(c) \in Seq(Words)
      /\ Len(ReturnAddress(c)) = IF c.entry = -1 THEN 1 ELSE 2
  <2>1. Word("ip", 0) \in Words /\ Word("cs", 0) \in Words
    BY WordFacts
  <2>2. QED
    BY <2>1 DEF ReturnAddress
<1>5. CASE c.entry = -1
  <2>1. Passed(c) = Pushed(c.args)
    BY <1>5 DEF Passed
  <2>2. QED
    BY <1>1, <1>2, <1>3, <1>4, <1>5, <2>1, PushedLongs
<1>6. CASE c.entry # -1
  <2> DEFINE nr == <<Word("nr", c.nr), Zero>>
             longs == <<nr>> \o c.args
  <2>1. <<nr>> \in Seq(Words \X Words) /\ Len(<<nr>>) = 1
    <3>1. Word("nr", c.nr) \in Words
      <4>1. c.nr \in Int
        BY <1>2
      <4>2. QED
        BY ONLY <4>1, WordFacts
    <3>3. Zero \in Words
      BY WordFacts DEF Zero
    <3>2. QED
      BY <3>1, <3>3
  <2>2. Passed(c) = Pushed(longs)
    BY <1>6 DEF Passed
  <2> HIDE DEF nr
  <2>3. /\ longs \in Seq(Words \X Words) /\ Len(longs) = Len(c.args) + 1
        /\ \A k \in 1 .. Len(c.args) : longs[k + 1] = c.args[k]
    BY <1>2, <1>3, <2>1, ConcatProperties
  <2> HIDE DEF longs
  <2>7. /\ Pushed(longs) \in Seq(Words)
        /\ Len(Pushed(longs)) = 2 * Len(longs)
        /\ \A k \in 1 .. Len(longs) :
              /\ Pushed(longs)[2 * (Len(longs) - k) + 2] = longs[k][1]
              /\ Pushed(longs)[2 * (Len(longs) - k) + 1] = longs[k][2]
    BY <2>3, PushedLongs, Zenon
  <2>4. /\ Passed(c) \in Seq(Words)
        /\ Len(Passed(c)) = 2 * Len(longs)
        /\ \A k \in 1 .. Len(longs) :
              /\ Passed(c)[2 * (Len(longs) - k) + 2] = longs[k][1]
              /\ Passed(c)[2 * (Len(longs) - k) + 1] = longs[k][2]
    BY ONLY <2>2, <2>7, Zenon
  <2>5. ASSUME NEW k \in 1 .. Len(c.args)
        PROVE  /\ Passed(c)[Len(Passed(c)) - 2 * k] = c.args[k][1]
               /\ Passed(c)[Len(Passed(c)) - 2 * k - 1] = c.args[k][2]
    <3>1. /\ k + 1 \in 1 .. Len(longs)
          /\ 2 * (Len(longs) - (k + 1)) + 2 = Len(Passed(c)) - 2 * k
          /\ 2 * (Len(longs) - (k + 1)) + 1 = Len(Passed(c)) - 2 * k - 1
      <4>1. Len(longs) \in Nat /\ k + 1 \in 1 .. Len(longs)
        BY <1>3, <2>3
      <4>2. QED
        BY ONLY <2>4, <4>1, k \in 1 .. Len(c.args)
    <3>2. /\ Passed(c)[2 * (Len(longs) - (k + 1)) + 2] = longs[k + 1][1]
          /\ Passed(c)[2 * (Len(longs) - (k + 1)) + 1] = longs[k + 1][2]
      BY ONLY <2>4, <3>1
    <3>3. QED
      BY <2>3, <3>1, <3>2
  <2>6. QED
    <3>1. Len(Passed(c)) = 2 * Len(c.args) + 2
      BY <1>3, <2>3, <2>4
    <3>2. QED
      BY <1>1, <1>3, <1>4, <1>6, <2>4, <2>5, <3>1
<1>7. QED
  BY <1>5, <1>6
-----------------------------------------------------------------------------
(* Lemmas about the stack of a call *)

\* The caller's part of the stack and what the entry adds are words.
LEMMA Frames ==
  ASSUME FoundInv, step # "user"
  PROVE  /\ call \in Calls
         /\ found.stack \in Seq(Words) /\ found.bp \in Nat /\ found.reg \in [Regs -> Words]
         /\ CallersStack \in Seq(Words)
         /\ Len(CallersStack) = Len(found.stack) + Len(Passed(call))
         /\ Entered \in Seq(Words)
         /\ Len(Entered) = Len(CallersStack) + Len(ReturnAddress(call))
         /\ <<Word("bp", found.bp)>> \in Seq(Words)
         /\ Framed \in Seq(Words)
         /\ Len(Framed) = Len(Entered) + 1
         /\ Framed[Len(Framed)] = Word("bp", found.bp)
<1>1. call \in Calls
  BY DEF FoundInv
<1>2. found.stack \in Seq(Words) /\ found.bp \in Nat /\ found.reg \in [Regs -> Words]
  BY DEF FoundInv
<1>3. CallersStack \in Seq(Words) /\ Len(CallersStack) = Len(found.stack) + Len(Passed(call))
  BY <1>1, <1>2, CallFacts, Concatenated DEF CallersStack
<1>4. Entered \in Seq(Words) /\ Len(Entered) = Len(CallersStack) + Len(ReturnAddress(call))
  BY <1>1, <1>3, CallFacts, Concatenated DEF Entered
<1>5. Word("bp", found.bp) \in Words
  <2>1. found.bp \in Int
    BY <1>2
  <2>2. QED
    BY ONLY <2>1, WordFacts
<1>6. <<Word("bp", found.bp)>> \in Seq(Words) /\ Len(<<Word("bp", found.bp)>>) = 1
  BY <1>5
<1>7. /\ Framed \in Seq(Words)
      /\ Len(Framed) = Len(Entered) + 1
      /\ Framed[Len(Framed)] = Word("bp", found.bp)
  <2> DEFINE t == <<Word("bp", found.bp)>>
  <2>5. t \in Seq(Words) /\ Len(t) = 1 /\ t[1 - 0] = Word("bp", found.bp) /\ Framed = Entered \o t
    BY <1>6 DEF Framed
  <2> HIDE DEF t
  <2>1. /\ Entered \o t \in Seq(Words) /\ Len(Entered \o t) = Len(Entered) + Len(t)
        /\ \A k \in 0 .. Len(t) - 1 : (Entered \o t)[Len(Entered \o t) - k] = t[Len(t) - k]
    BY <1>4, <2>5, Concatenated
  <2>2. Len(Framed) \in Nat
    BY <2>1, <2>5, LenProperties
  <2>3. Framed[Len(Framed) - 0] = t[1 - 0]
    BY <2>1, <2>5
  <2>4. QED
    BY <2>1, <2>2, <2>3, <2>5
<1>8. QED
  BY <1>1, <1>2, <1>3, <1>4, <1>6, <1>7

\* A handler finds the arguments of its call where Low and High say.
LEMMA Arguments ==
  ASSUME FoundInv, step # "user", stack = Framed, bp = Len(Framed),
         call.entry # -1, NEW k \in 1 .. Len(call.args)
  PROVE  Low(k) = call.args[k][1] /\ High(k) = call.args[k][2]
<1> DEFINE p == Passed(call)
           ra == ReturnAddress(call)
<1>1. /\ call \in Calls /\ found.stack \in Seq(Words)
      /\ CallersStack \in Seq(Words) /\ Entered \in Seq(Words)
      /\ <<Word("bp", found.bp)>> \in Seq(Words)
      /\ Len(Framed) = Len(CallersStack) + Len(ra) + 1
      /\ Len(CallersStack) = Len(found.stack) + Len(p)
      /\ Len(Entered) = Len(CallersStack) + Len(ra)
  BY Frames
<1>2. /\ p \in Seq(Words) /\ ra \in Seq(Words) /\ Len(ra) = 2
      /\ Len(call.args) \in Nat
      /\ Len(p) = 2 * Len(call.args) + 2
      /\ p[Len(p) - 2 * k] = call.args[k][1]
      /\ p[Len(p) - 2 * k - 1] = call.args[k][2]
  BY <1>1, CallFacts
<1> HIDE DEF p, ra
<1>3. ASSUME NEW j \in 0 .. Len(p) - 1
      PROVE  Framed[Len(Framed) - 3 - j] = p[Len(p) - j]
  <2>1. /\ Len(found.stack) \in Nat /\ Len(p) \in Nat
        /\ Len(CallersStack) \in Nat
    BY <1>1, <1>2, LenProperties
  <2>2. CallersStack[Len(CallersStack) - j] = p[Len(p) - j]
    BY <1>1, <1>2, Concatenated, ZenonT(40) DEF CallersStack, p
  <2>3. \A i \in 1 .. Len(CallersStack) : Entered[i] = CallersStack[i]
    BY <1>1, <1>2, Concatenated DEF Entered, ra
  <2>4. \A i \in 1 .. Len(Entered) : Framed[i] = Entered[i]
    BY <1>1, Concatenated DEF Framed
  <2>5. /\ Len(Framed) - 3 - j = Len(CallersStack) - j
        /\ Len(CallersStack) - j \in 1 .. Len(CallersStack)
        /\ Len(CallersStack) - j \in 1 .. Len(Entered)
    <3>1. /\ Len(Framed) = Len(CallersStack) + 2 + 1
          /\ Len(Entered) = Len(CallersStack) + 2
          /\ Len(CallersStack) = Len(found.stack) + Len(p)
      BY <1>1, <1>2
    <3>2. j \in Int /\ 0 <= j /\ j <= Len(p) - 1
      BY <2>1
    <3>3. QED
      BY ONLY <2>1, <3>1, <3>2
  <2>6. QED
    BY ONLY <2>2, <2>3, <2>4, <2>5
<1>4. /\ 2 * k \in 0 .. Len(p) - 1 /\ 2 * k + 1 \in 0 .. Len(p) - 1
      /\ Len(p) - (2 * k + 1) = Len(p) - 2 * k - 1
      /\ Len(Framed) - 3 - (2 * k + 1) = Len(Framed) - 4 - 2 * k
  BY <1>1, <1>2, LenProperties
<1>5. QED
  BY <1>2, <1>3, <1>4 DEF Low, High

\* Whatever registers a handler saved, it leaves with the caller's stack and frame,
\* and with the registers it names in the opposite order.
LEMMA Leaves ==
  ASSUME FoundInv, step # "user", reg \in [Regs -> Words],
         NEW names \in Seq(Regs), NEW saved \in Seq(Words), Len(names) = Len(saved),
         \A i, j \in 1 .. Len(names) : names[i] = names[j] => i = j,
         NEW lo \in Words, NEW hi \in Words,
         stack = Framed \o saved, LeaveWith(names, lo, hi),
         handler = "printnum" <=> call.entry = -1
  PROVE  /\ stack' = CallersStack /\ bp' = found.bp /\ step' = "return"
         /\ reg' \in [Regs -> Words]
         /\ \A i \in 1 .. Len(names) : reg'[names[i]] = saved[Len(saved) - (i - 1)]
         /\ \A r \in Regs : (\A i \in 1 .. Len(names) : names[i] # r) =>
              reg'[r] = IF r = "ax" THEN lo ELSE IF r = "dx" THEN hi ELSE reg[r]
<1> DEFINE ra == ReturnAddress(call)
           b == <<Word("bp", found.bp)>>
           t == ra \o (b \o saved)
<1>1. /\ call \in Calls /\ CallersStack \in Seq(Words) /\ Entered \in Seq(Words)
      /\ b \in Seq(Words) /\ Framed \in Seq(Words)
      /\ Framed[Len(Framed)] = Word("bp", found.bp) /\ found.bp \in Nat
      /\ Len(Framed) = Len(Entered) + 1
  BY Frames
<1>2. /\ ra \in Seq(Words) /\ Len(ra) = IF call.entry = -1 THEN 1 ELSE 2
  BY <1>1, CallFacts
<1>3. Len(b) = 1 /\ Entered = CallersStack \o ra /\ Framed = Entered \o b
  BY DEF Entered, Framed
<1> HIDE DEF ra, b
<1>4. stack = CallersStack \o t
  <2>1. b \o saved \in Seq(Words)
    BY <1>1, Concatenated, Zenon
  <2>2. (Entered \o b) \o saved = Entered \o (b \o saved)
    BY <1>1, Reassociated, ZenonT(40)
  <2>3. (CallersStack \o ra) \o (b \o saved) = CallersStack \o (ra \o (b \o saved))
    <3> DEFINE q == b \o saved
    <3>1. q \in Seq(Words)
      BY <2>1
    <3> HIDE DEF q
    <3>2. (CallersStack \o ra) \o q = CallersStack \o (ra \o q)
      <4>1. CallersStack \in Seq(Words) /\ ra \in Seq(Words)
        BY <1>1, <1>2
      <4>2. QED
        BY ONLY <3>1, <4>1, Reassociated
    <3>3. QED
      BY <3>2 DEF q
  <2>4. QED
    BY ONLY <1>3, <2>2, <2>3, stack = Framed \o saved, Zenon
<1>5. t \in Seq(Words) /\ Len(t) = Len(saved) + IF handler = "printnum" THEN 2 ELSE 3
  <2>1. b \o saved \in Seq(Words) /\ Len(b \o saved) = 1 + Len(saved)
    BY <1>1, <1>3, Concatenated
  <2>2. t \in Seq(Words) /\ Len(t) = Len(ra) + Len(b \o saved)
    BY <1>2, <2>1, Concatenated, Zenon
  <2>3. Len(saved) \in Nat
    BY LenProperties
  <2>4. QED
    BY <1>2, <2>1, <2>2, <2>3
<1> HIDE DEF t
<1>6. stack' = CallersStack /\ step' = "return"
  <2>1. stack' = SubSeq(stack, 1, Len(stack) - Len(t)) /\ step' = "return"
    BY <1>5 DEF LeaveWith, Popped
  <2>2. SubSeq(CallersStack \o t, 1, Len(CallersStack \o t) - Len(t)) = CallersStack
    BY <1>1, <1>5, PutAndTaken, Zenon
  <2>3. QED
    BY <1>4, <2>1, <2>2
<1>7. /\ Len(stack) = Len(Framed) + Len(saved)
      /\ \A k \in 0 .. Len(saved) - 1 : stack[Len(stack) - k] = saved[Len(saved) - k]
      /\ \A i \in 1 .. Len(Framed) : stack[i] = Framed[i]
  BY <1>1, Concatenated, ZenonT(40)
<1>8. bp' = found.bp
  <2>1. Len(Entered) \in Nat /\ Len(saved) \in Nat
    BY <1>1, LenProperties
  <2>2. Len(stack) - Len(saved) = Len(Framed) /\ Len(Framed) \in 1 .. Len(Framed)
    BY <1>1, <1>7, <2>1
  <2>3. Top(Len(names)) = Word("bp", found.bp)
    BY <1>1, <1>7, <2>2 DEF Top
  <2>4. bp' = Word("bp", found.bp)[2]
    BY <2>3 DEF LeaveWith, Value
  <2>5. QED
    BY <2>4 DEF Word
<1>9. DOMAIN names = 1 .. Len(names) /\ \A i \in 1 .. Len(names) : names[i] \in Regs
  BY LenProperties, ElementOfSeq
<1> DEFINE At(r) == CHOOSE i \in DOMAIN names : names[i] = r
           New(r) == IF \E i \in DOMAIN names : names[i] = r THEN Top(At(r) - 1)
                     ELSE IF r = "ax" THEN lo ELSE IF r = "dx" THEN hi ELSE reg[r]
<1>10. reg' = [r \in Regs |-> New(r)]
  BY DEF LeaveWith
<1>11. ASSUME NEW i \in 1 .. Len(names)
       PROVE  New(names[i]) = saved[Len(saved) - (i - 1)] /\ New(names[i]) \in Words
  <2>1. At(names[i]) = i
    BY <1>9
  <2>2. New(names[i]) = Top(i - 1)
    BY <1>9, <2>1
  <2>3. i - 1 \in 0 .. Len(saved) - 1 /\ Len(saved) - (i - 1) \in 1 .. Len(saved)
    BY LenProperties
  <2>4. Top(i - 1) = saved[Len(saved) - (i - 1)]
    BY <1>7, <2>3 DEF Top
  <2>5. saved[Len(saved) - (i - 1)] \in Words
    BY <2>3, ElementOfSeq
  <2>6. QED
    BY <2>2, <2>4, <2>5
<1>12. ASSUME NEW r \in Regs, \A i \in 1 .. Len(names) : names[i] # r
       PROVE  New(r) = IF r = "ax" THEN lo ELSE IF r = "dx" THEN hi ELSE reg[r]
  BY <1>9, <1>12
<1> HIDE DEF New
<1>13. ASSUME NEW r \in Regs PROVE New(r) \in Words
  <2>1. CASE \E i \in 1 .. Len(names) : names[i] = r
    BY <1>11, <2>1
  <2>2. CASE \A i \in 1 .. Len(names) : names[i] # r
    BY <1>12, <2>2
  <2>3. QED
    BY <2>1, <2>2
<1>14. QED
  BY <1>6, <1>8, <1>9, <1>10, <1>11, <1>12, <1>13

-----------------------------------------------------------------------------
(* Lemmas about the handlers *)

\* What a call of a handler passes, by the numbers its entry lets through.
LEMMA HandlerFacts ==
  ASSUME FoundInv, HandlerInv, step \notin {"user", "enter"}
  PROVE  /\ handler \in {"none", "read", "write", "close", "exit", "getpid", "ioctl",
                         "writev", "printnum"}
         /\ handler = "printnum" <=> call.entry = -1
         /\ handler \in {"write", "read", "writev"} =>
              1 \in 1 .. Len(call.args) /\ 2 \in 1 .. Len(call.args) /\ 3 \in 1 .. Len(call.args)
         /\ handler \in {"close", "exit"} => 1 \in 1 .. Len(call.args)
         /\ handler = "writev" =>
              /\ 8 * Len(call.list) <= W /\ Value(call.args[2][1]) = 0
              /\ call.args[3][1] = Number(Len(call.list))
              /\ call.list \in Seq(Iovecs)
<1>1. /\ call \in Calls /\ SystemCall(call) /\ call \in CallRecords /\ Len(call.args) \in Nat
  BY CallFacts DEF FoundInv
<1>2. call.entry \in -1 .. 6 /\ call.list \in Seq(Iovecs)
  BY <1>1 DEF CallRecords
<1>3. handler = "printnum" <=> call.entry = -1
  BY DEF HandlerInv
<1>4. handler \notin {"none", "printnum"} =>
        handler = HandlerOf(call.nr) /\ handler \in Dispatched(call.entry)
  BY DEF HandlerInv
<1>5. call.entry # -1 => Len(call.args) = call.entry
  BY <1>1 DEF SystemCall
<1>6. HandlerOf(call.nr) \in {"none", "read", "write", "close", "exit", "getpid", "ioctl", "writev"}
  BY DEF HandlerOf
<1>7. handler \in {"write", "read", "writev"} => call.entry >= 3
  BY <1>2, <1>3, <1>4 DEF Dispatched
<1>8. handler = "close" => call.entry >= 2
  BY <1>2, <1>3, <1>4 DEF Dispatched
<1>9. handler = "exit" => call.nr = 6 /\ call.entry >= 0
  BY <1>2, <1>3, <1>4 DEF HandlerOf
<1>10. handler = "writev" => call.nr = 999
  BY <1>4 DEF HandlerOf
<1>11. handler \in {"close", "exit"} => 1 \in 1 .. Len(call.args)
  <2>1. handler = "exit" => call.entry >= 1
    BY <1>1, <1>2, <1>9 DEF SystemCall
  <2>2. QED
    BY <1>2, <1>5, <1>8, <2>1
<1>12. handler \in {"write", "read", "writev"} =>
         1 \in 1 .. Len(call.args) /\ 2 \in 1 .. Len(call.args) /\ 3 \in 1 .. Len(call.args)
  BY <1>2, <1>5, <1>7
<1>13. handler = "writev" =>
         /\ 8 * Len(call.list) <= W /\ Value(call.args[2][1]) = 0
         /\ call.args[3][1] = Number(Len(call.list))
  BY <1>1, <1>7, <1>10 DEF SystemCall
<1>14. QED
  BY <1>2, <1>3, <1>4, <1>6, <1>11, <1>12, <1>13

\* The registers saved are words, whatever the handler.
LEMMA SavedFacts ==
  ASSUME FoundInv, step # "user"
  PROVE  /\ SavedRegs \in Seq(Words) /\ Working \in Seq(Words)
         /\ handler \in {"none", "close", "exit", "getpid", "ioctl"} => Working = Framed
<1>1. found.reg \in [Regs -> Words] /\ Framed \in Seq(Words)
  BY Frames
<1>2. found.reg["si"] \in Words /\ found.reg["di"] \in Words
      /\ found.reg["bx"] \in Words /\ found.reg["cx"] \in Words
  BY <1>1 DEF Regs
<1>3. SavedRegs \in Seq(Words)
  BY <1>2 DEF SavedRegs
<1>4. Working \in Seq(Words)
  BY <1>1, <1>3, Concatenated DEF Working
<1>5. handler \in {"none", "close", "exit", "getpid", "ioctl"} => Working = Framed
  <2>1. handler \in {"none", "close", "exit", "getpid", "ioctl"} => SavedRegs = <<>>
    BY DEF SavedRegs
  <2>2. Framed \o <<>> = Framed
    BY <1>1, ConcatEmptySeq
  <2>3. QED
    BY <2>1, <2>2 DEF Working
<1>6. QED
  BY <1>3, <1>4, <1>5

\* The parts of the stack belong to the call and its handler.
LEMMA SameFrame ==
  ASSUME UNCHANGED <<found, call, handler>>
  PROVE  /\ CallersStack' = CallersStack /\ Entered' = Entered /\ Framed' = Framed
         /\ SavedRegs' = SavedRegs /\ Working' = Working
<1>1. CallersStack' = CallersStack
  BY DEF CallersStack
<1>2. Entered' = Entered
  BY <1>1 DEF Entered
<1>3. Framed' = Framed
  BY <1>2 DEF Framed
<1>4. SavedRegs' = SavedRegs
  BY DEF SavedRegs
<1>5. QED
  BY <1>1, <1>2, <1>3, <1>4 DEF Working

-----------------------------------------------------------------------------
(* Every action preserves the invariant *)

LEMMA InitIInv == Init => IInv
<1> SUFFICES ASSUME Init PROVE IInv
  OBVIOUS
<1> USE DEF Init
<1>1. reg \in [Regs -> Words]
  BY WordFacts
<1>2. Zero \in Numbers /\ Zero \in Words
  BY WordFacts DEF Zero
<1>3. SyscallTypeOK
  BY <1>1, <1>2, MaxCallsAssumption DEF SyscallTypeOK, Steps, Unserved, Numbers, Cells
<1>4. FoundInv
  BY <1>1 DEF FoundInv
<1>5. HandlerInv /\ RegsInv /\ StackInv /\ WritevInv
  BY DEF HandlerInv, RegsInv, StackInv, WritevInv
<1>6. AnswersInv
  BY DEF AnswersInv, ResultsRight
<1>7. QED
  BY <1>3, <1>4, <1>5, <1>6 DEF IInv

LEMMA CallStep == ASSUME IInv, NEW c \in Calls, Call(c) PROVE IInv'
<1> USE DEF Call
<1>1. /\ stack \in Seq(Words) /\ reg \in [Regs -> Words] /\ bp \in Nat
  BY DEF IInv, SyscallTypeOK
<1>2. stack' \in Seq(Words)
  <2>1. Passed(c) \in Seq(Words) /\ ReturnAddress(c) \in Seq(Words)
    BY CallFacts
  <2>2. QED
    BY <1>1, <2>1, Concatenated
<1>3. SyscallTypeOK'
  BY <1>2, MaxCallsAssumption DEF IInv, SyscallTypeOK, Steps, Unserved
<1>4. FoundInv'
  BY <1>1 DEF FoundInv
<1>5. HandlerInv' /\ RegsInv' /\ WritevInv'
  BY DEF HandlerInv, RegsInv, WritevInv
<1>6. StackInv'
  BY DEF StackInv, Entered, CallersStack
<1>7. AnswersInv'
  BY DEF AnswersInv, ResultsRight
<1>8. QED
  BY <1>3, <1>4, <1>5, <1>6, <1>7 DEF IInv

LEMMA DispatchStep == ASSUME IInv, Dispatch PROVE IInv'
<1> USE DEF Dispatch
<1>1. /\ stack = Entered /\ bp = found.bp /\ step = "enter" /\ FoundInv
      /\ reg = found.reg /\ served = Unserved
  BY DEF IInv, StackInv, RegsInv, AnswersInv
<1>2. /\ Entered \in Seq(Words) /\ <<Word("bp", found.bp)>> \in Seq(Words)
      /\ Framed \in Seq(Words)
  BY <1>1, Frames
<1>3. CallersStack' = CallersStack /\ Entered' = Entered /\ Framed' = Framed
  BY DEF CallersStack, Entered, Framed
<1>4. stack' = Framed
  BY <1>1, <1>2 DEF Framed
<1>5. Len(stack') \in Nat
  BY <1>2, <1>4, LenProperties
<1>6. SyscallTypeOK'
  BY <1>2, <1>4, <1>5 DEF IInv, SyscallTypeOK, Steps
<1>7. FoundInv' /\ RegsInv' /\ AnswersInv'
  BY <1>1 DEF FoundInv, RegsInv, AnswersInv, ResultsRight
<1>8. HandlerInv'
  <2>1. HandlerOf(call.nr) # "printnum"
    BY DEF HandlerOf
  <2>2. QED
    BY <2>1 DEF HandlerInv
<1>9. StackInv'
  BY <1>3, <1>4 DEF StackInv
<1>10. WritevInv'
  <2>1. Len(call.list) \in Nat
    BY <1>1, CallFacts, LenProperties DEF FoundInv, CallRecords
  <2>2. QED
    BY <1>1, <2>1 DEF WritevInv, Unserved
<1>11. QED
  BY <1>6, <1>7, <1>8, <1>9, <1>10 DEF IInv

\* A handler that leaves with everything in its place.
LEMMA ReturnStep ==
  ASSUME IInv, step \notin {"user", "enter"},
         stack' = CallersStack, bp' = found.bp, step' = "return", reg' \in [Regs -> Words],
         \A r \in {"bx", "si", "di"} : reg'[r] = found.reg[r],
         UNCHANGED <<cell, handler, call, found, served, made>>,
         ResultsRight'
  PROVE  IInv'
<1>1. FoundInv /\ HandlerInv /\ SyscallTypeOK
  BY DEF IInv
<1>2. CallersStack \in Seq(Words) /\ found.bp \in Nat
  BY <1>1, Frames
<1>3. SyscallTypeOK'
  BY <1>1, <1>2 DEF SyscallTypeOK, Steps
<1>4. FoundInv' /\ RegsInv'
  BY <1>1 DEF FoundInv, RegsInv
<1>5. HandlerInv'
  BY <1>1 DEF HandlerInv
<1>6. StackInv' /\ WritevInv'
  BY SameFrame DEF StackInv, WritevInv
<1>7. AnswersInv'
  BY DEF AnswersInv
<1>8. QED
  BY <1>3, <1>4, <1>5, <1>6, <1>7 DEF IInv

LEMMA AnswerStep == ASSUME IInv, Answer PROVE IInv'
<1> DEFINE ax == IF handler = "none" THEN Number(-38) ELSE Zero
<1>1. /\ step = "handle" /\ handler \in {"none", "ioctl", "getpid"}
      /\ LeaveWith(<<>>, ax, SignOf(ax))
  BY DEF Answer
<1>2. FoundInv /\ HandlerInv /\ SyscallTypeOK /\ reg \in [Regs -> Words]
  BY DEF IInv, SyscallTypeOK
<1>3. stack = Framed /\ reg = found.reg
  BY <1>1 DEF IInv, StackInv, RegsInv
<1>4. stack = Framed \o <<>>
  BY <1>1, <1>2, <1>3, Frames, ConcatEmptySeq
<1>5. ax \in Words /\ SignOf(ax) \in Words
  <2>1. \A n \in Int : Number(n) \in Words
    BY WordFacts
  <2>2. QED
    BY <2>1 DEF SignOf, Zero
<1> HIDE DEF ax
<1>6. handler = "printnum" <=> call.entry = -1
  BY <1>1, <1>2, HandlerFacts
<1>7. /\ <<>> \in Seq(Regs) /\ <<>> \in Seq(Words) /\ Len(<<>>) = 0
      /\ \A i \in 1 .. Len(<<>>) : FALSE
  OBVIOUS
<1>8. /\ stack' = CallersStack /\ bp' = found.bp /\ step' = "return"
      /\ reg' \in [Regs -> Words]
      /\ \A r \in Regs : reg'[r] = IF r = "ax" THEN ax ELSE IF r = "dx" THEN SignOf(ax) ELSE reg[r]
  <2>1. step # "user"
    BY <1>1
  <2>2. \A i, j \in 1 .. Len(<<>>) : <<>>[i] = <<>>[j] => i = j
    BY <1>7
  <2>3. /\ stack' = CallersStack /\ bp' = found.bp /\ step' = "return"
        /\ reg' \in [Regs -> Words]
        /\ \A r \in Regs : (\A i \in 1 .. Len(<<>>) : <<>>[i] # r) =>
             reg'[r] = IF r = "ax" THEN ax ELSE IF r = "dx" THEN SignOf(ax) ELSE reg[r]
    BY ONLY <1>1, <1>2, <1>4, <1>5, <1>6, <1>7, <2>1, <2>2, Leaves, ZenonT(60)
  <2>4. QED
    BY <1>7, <2>3
<1>9. \A r \in {"bx", "si", "di"} : reg'[r] = found.reg[r]
  BY <1>3, <1>8 DEF Regs
<1>10. UNCHANGED <<cell, handler, call, found, served, made>>
  BY <1>1 DEF LeaveWith
<1>11. ResultsRight'
  BY <1>1, <1>10 DEF ResultsRight
<1>12. QED
  BY <1>1, <1>8, <1>9, <1>10, <1>11, ReturnStep

\* The caller takes off exactly its arguments.
LEMMA Resumed ==
  ASSUME IInv, Resume
  PROVE  stack' = found.stack /\ step = "return"
<1>1. FoundInv /\ step = "return" /\ stack = CallersStack
  BY DEF IInv, StackInv, Resume
<1>2. /\ found.stack \in Seq(Words) /\ Passed(call) \in Seq(Words)
      /\ Len(Passed(call)) = 2 * Len(call.args) + IF call.entry = -1 THEN 0 ELSE 2
  BY <1>1, Frames, CallFacts
<1>3. stack' = SubSeq(stack, 1, Len(stack) - Len(Passed(call)))
  BY <1>2 DEF Resume, Popped
<1>4. QED
  BY <1>1, <1>2, <1>3, PutAndTaken DEF CallersStack

LEMMA ResumeStep == ASSUME IInv, Resume PROVE IInv'
<1> USE DEF Resume
<1>1. stack' = found.stack /\ step = "return" /\ FoundInv
  BY Resumed DEF IInv
<1>2. found.stack \in Seq(Words)
  BY <1>1, Frames
<1>3. SyscallTypeOK'
  BY <1>1, <1>2 DEF IInv, SyscallTypeOK, Steps
<1>4. FoundInv'
  BY <1>1 DEF FoundInv
<1>5. HandlerInv' /\ RegsInv' /\ StackInv' /\ WritevInv' /\ AnswersInv'
  BY DEF HandlerInv, RegsInv, StackInv, WritevInv, AnswersInv, ResultsRight
<1>6. QED
  BY <1>3, <1>4, <1>5 DEF IInv

-----------------------------------------------------------------------------
(* OS/2 *)

\* A request is words, and ends with where the number of bytes goes.
LEMMA RequestFacts ==
  ASSUME SyscallTypeOK, FoundInv, HandlerInv, step = "dos",
         handler = "writev" => served.answers < Len(call.list)
  PROVE  /\ handler \in {"write", "writev", "printnum", "close", "exit"} => Request \in Seq(Words)
         /\ handler \in {"write", "writev", "printnum"} =>
              /\ Len(Request) = 6
              /\ Request[5] = Ds
              /\ Request[6] = Word(IF handler = "printnum" THEN "pnWlen" ELSE "wlen", 0)
         /\ handler = "close" => Len(Request) = 1
<1>1. /\ Ds \in Words /\ Word("wlen", 0) \in Words /\ Word("pnWlen", 0) \in Words
      /\ Number(1) \in Words
  BY WordFacts DEF Ds, Cells
<1>2. /\ Places["wlen"] = <<Ds, Word("wlen", 0)>> /\ Places["pnWlen"] = <<Ds, Word("pnWlen", 0)>>
  BY DEF Places
<1>3. call \in Calls /\ \A k \in 1 .. Len(call.args) : call.args[k] \in Words \X Words
  BY Frames, CallFacts
<1>4. \A k \in 1 .. Len(call.args) : call.args[k][1] \in Words /\ call.args[k][2] \in Words
  BY <1>3
<1>5. CASE handler = "write"
  <2>1. Request = <<call.args[1][1], call.args[2][2], call.args[2][1], call.args[3][1],
                    Ds, Word("wlen", 0)>>
    <3>1. Request = <<call.args[1][1], call.args[2][2], call.args[2][1], call.args[3][1]>>
                      \o <<Ds, Word("wlen", 0)>>
      BY <1>2, <1>5 DEF Request
    <3>2. QED
      BY ONLY <3>1, SixWords
  <2>2. /\ call.args[1][1] \in Words /\ call.args[2][2] \in Words
        /\ call.args[2][1] \in Words /\ call.args[3][1] \in Words
    BY <1>4, <1>5, HandlerFacts
  <2>3. QED
    BY <1>1, <1>5, <2>1, <2>2
<1>6. CASE handler = "writev"
  <2> DEFINE iovec == call.list[served.answers + 1]
  <2>1. iovec \in Iovecs
    <3>1. call.list \in Seq(Iovecs) /\ served.answers \in Nat
      BY <1>6, HandlerFacts DEF SyscallTypeOK
    <3>2. served.answers + 1 \in 1 .. Len(call.list)
      BY <1>6, <3>1, LenProperties
    <3>3. QED
      BY <3>1, <3>2, ElementOfSeq
  <2>2. iovec.off \in Words /\ iovec.sel \in Words /\ iovec.len \in Words
    BY <2>1, WordFacts DEF Iovecs, Numbers
  <2>3. Request = <<call.args[1][1], iovec.sel, iovec.off, iovec.len, Ds, Word("wlen", 0)>>
    <3>1. Request = <<call.args[1][1], iovec.sel, iovec.off, iovec.len>> \o <<Ds, Word("wlen", 0)>>
      BY <1>2, <1>6 DEF Request
    <3>2. QED
      BY ONLY <3>1, SixWords
  <2>4. call.args[1][1] \in Words
    BY <1>4, <1>6, HandlerFacts
  <2> HIDE DEF iovec
  <2>5. QED
    BY <1>1, <1>6, <2>2, <2>3, <2>4
<1>7. CASE handler = "printnum"
  <2>1. Request = <<Number(1), Ds, cell["start"], cell["len"], Ds, Word("pnWlen", 0)>>
    <3>1. Request = <<Number(1), Ds, cell["start"], cell["len"]>> \o <<Ds, Word("pnWlen", 0)>>
      BY <1>2, <1>7 DEF Request
    <3>2. QED
      BY ONLY <3>1, SixWords
  <2>2. cell["start"] \in Words /\ cell["len"] \in Words
    BY DEF SyscallTypeOK, Cells
  <2>3. QED
    BY <1>1, <1>7, <2>1, <2>2
<1>8. CASE handler \in {"close", "exit"}
  <2>1. Request = IF handler = "close" THEN <<call.args[1][1]>> ELSE <<Number(1), call.args[1][1]>>
    BY <1>8 DEF Request
  <2>2. call.args[1][1] \in Words
    BY <1>4, <1>8, HandlerFacts
  <2>3. QED
    BY <1>1, <1>8, <2>1, <2>2
<1>9. QED
  BY <1>5, <1>6, <1>7, <1>8

\* OS/2 takes off what it was asked with.
LEMMA Answers ==
  ASSUME SyscallTypeOK, NEW below \in Seq(Words), NEW asked \in Seq(Words),
         stack = below \o asked, NEW answer \in Words, DosReturns(Len(asked), answer)
  PROVE  /\ stack' = below /\ step' = "back"
         /\ reg' \in [Regs -> Words]
         /\ \A r \in Regs \ {"ax"} : reg'[r] = reg[r]
         /\ UNCHANGED <<bp, handler, call, found, made>>
<1>1. stack' = SubSeq(stack, 1, Len(stack) - Len(asked))
  BY DEF DosReturns, Popped
<1>2. stack' = below
  BY <1>1, PutAndTaken
<1>3. QED
  BY <1>2 DEF DosReturns, SyscallTypeOK

\* Control is back in a handler that is not writev.
LEMMA BackStep ==
  ASSUME IInv, step = "dos", handler # "writev",
         stack' = Working, step' = "back", reg' \in [Regs -> Words],
         \A r \in Regs \ {"ax"} : reg'[r] = reg[r],
         UNCHANGED <<bp, handler, call, found, made>>,
         cell' \in [Cells -> Words], cell'["wlen"] \in Numbers, cell'["totalHi"] \in Numbers,
         served' \in [answers : Nat, bytes : Nat, failed : BOOLEAN],
         handler = "write" =>
           served'.answers = 1 /\ (~served'.failed => served'.bytes = Value(cell'["wlen"]))
  PROVE  IInv'
<1>1. FoundInv /\ HandlerInv /\ SyscallTypeOK /\ RegsInv
  BY DEF IInv
<1>2. Working \in Seq(Words)
  BY <1>1, SavedFacts
<1>3. SyscallTypeOK'
  BY <1>1, <1>2 DEF SyscallTypeOK, Steps, Numbers
<1>4. FoundInv' /\ HandlerInv'
  BY <1>1 DEF FoundInv, HandlerInv
<1>5. RegsInv'
  BY <1>1 DEF RegsInv, Regs
<1>6. StackInv'
  <2>1. handler \notin {"none", "ioctl", "getpid"}
    BY DEF IInv, StackInv
  <2>2. QED
    BY <2>1, SameFrame DEF StackInv
<1>7. WritevInv'
  BY DEF WritevInv
<1>8. AnswersInv'
  BY DEF AnswersInv, ResultsRight
<1>9. QED
  BY <1>3, <1>4, <1>5, <1>6, <1>7, <1>8 DEF IInv

LEMMA DosReadStep == ASSUME IInv, DosRead PROVE IInv'
<1>1. /\ step = "dos" /\ handler = "read" /\ DosReturns(6, Error) /\ UNCHANGED cell
      /\ Record(0, TRUE)
  BY DEF DosRead
<1>2. SyscallTypeOK /\ FoundInv /\ Len(stack) - 6 = Len(Working) /\ SubSeq(stack, 1, Len(stack) - 6) = Working
  <2>1. Len(Working) \in Nat
    BY <1>1, SavedFacts, LenProperties DEF IInv
  <2>2. QED
    BY <1>1, <2>1 DEF IInv, StackInv
<1>3. Error \in Words
  BY WordFacts DEF Error
<1>4. /\ stack' = Working /\ step' = "back" /\ reg' \in [Regs -> Words]
      /\ \A r \in Regs \ {"ax"} : reg'[r] = reg[r]
      /\ UNCHANGED <<bp, handler, call, found, made>>
  BY <1>1, <1>2, <1>3 DEF DosReturns, Popped, SyscallTypeOK
<1>5. /\ cell' \in [Cells -> Words] /\ cell'["wlen"] \in Numbers /\ cell'["totalHi"] \in Numbers
      /\ served' \in [answers : Nat, bytes : Nat, failed : BOOLEAN]
  BY <1>1, <1>2 DEF SyscallTypeOK, Numbers, Record
<1>6. QED
  BY <1>1, <1>4, <1>5, BackStep

LEMMA DosCloseStep == ASSUME IInv, DosClose PROVE IInv'
<1>1. PICK answer \in {Zero, Number(6)} : DosReturns(1, answer)
  BY DEF DosClose
<1>2. /\ step = "dos" /\ handler = "close" /\ UNCHANGED <<cell, served>>
  BY DEF DosClose
<1>3. SyscallTypeOK /\ FoundInv /\ HandlerInv /\ stack = Working \o Request
  BY <1>2 DEF IInv, StackInv
<1>4. Working \in Seq(Words) /\ Request \in Seq(Words) /\ Len(Request) = 1
  BY <1>2, <1>3, SavedFacts, RequestFacts
<1>5. answer \in Words
  BY WordFacts DEF Zero
<1>6. /\ stack' = Working /\ step' = "back" /\ reg' \in [Regs -> Words]
      /\ \A r \in Regs \ {"ax"} : reg'[r] = reg[r]
      /\ UNCHANGED <<bp, handler, call, found, made>>
  BY <1>1, <1>3, <1>4, <1>5, Answers
<1>7. /\ cell' \in [Cells -> Words] /\ cell'["wlen"] \in Numbers /\ cell'["totalHi"] \in Numbers
      /\ served' \in [answers : Nat, bytes : Nat, failed : BOOLEAN]
  BY <1>2, <1>3 DEF SyscallTypeOK, Numbers
<1>8. QED
  BY <1>2, <1>6, <1>7, BackStep

LEMMA DosExitStep == ASSUME IInv, DosExit PROVE IInv'
<1> USE DEF DosExit
<1>1. SyscallTypeOK'
  BY DEF IInv, SyscallTypeOK, Steps
<1>2. FoundInv' /\ HandlerInv'
  BY DEF IInv, FoundInv, HandlerInv
<1>3. RegsInv' /\ StackInv' /\ WritevInv' /\ AnswersInv'
  BY DEF RegsInv, StackInv, WritevInv, AnswersInv, ResultsRight
<1>4. QED
  BY <1>1, <1>2, <1>3 DEF IInv

\* What a write does, whoever made it: the bytes go where the request says.
LEMMA Written ==
  ASSUME SyscallTypeOK, FoundInv, HandlerInv, DosWrite, NEW below \in Seq(Words),
         handler = "writev" => served.answers < Len(call.list),
         stack = below \o Request
  PROVE  /\ step = "dos" /\ handler \in {"write", "writev", "printnum"}
         /\ stack' = below /\ step' = "back" /\ reg' \in [Regs -> Words]
         /\ \A r \in Regs \ {"ax"} : reg'[r] = reg[r]
         /\ UNCHANGED <<bp, handler, call, found, made>>
         /\ cell' \in [Cells -> Words] /\ cell'["wlen"] \in Numbers
         /\ cell'["totalHi"] = cell["totalHi"]
         /\ \/ \E n \in 0 .. W - 1 :
                 /\ Record(n, FALSE)
                 /\ handler # "printnum" => cell'["wlen"] = <<"number", n>>
            \/ Record(0, TRUE)
<1>1. step = "dos" /\ handler \in {"write", "writev", "printnum"}
  BY DEF DosWrite
<1>2. /\ Request \in Seq(Words) /\ Len(Request) = 6 /\ Request[5] = Ds
      /\ Request[6] = Word(IF handler = "printnum" THEN "pnWlen" ELSE "wlen", 0)
  BY <1>1, RequestFacts
<1>3. Zero \in Words /\ Error \in Words
  <2>1. Zero \in Words
    BY WordFacts DEF Zero
  <2>2. Error \in Words
    BY WordFacts DEF Error
  <2>3. QED
    BY <2>1, <2>2
<1>4. PICK answer \in {Zero, Error} : DosReturns(6, answer)
  BY DEF DosWrite
<1>5. /\ stack' = below /\ step' = "back" /\ reg' \in [Regs -> Words]
      /\ \A r \in Regs \ {"ax"} : reg'[r] = reg[r]
      /\ UNCHANGED <<bp, handler, call, found, made>>
  BY <1>2, <1>3, <1>4, Answers
<1>6. Top(1) = Ds /\ Top(0) = Word(IF handler = "printnum" THEN "pnWlen" ELSE "wlen", 0)
  <2>1. /\ 1 \in 0 .. Len(Request) - 1 /\ 0 \in 0 .. Len(Request) - 1
        /\ Len(Request) - 1 = 5 /\ Len(Request) - 0 = 6
    BY <1>2
  <2>2. \A k \in 0 .. Len(Request) - 1 : stack[Len(stack) - k] = Request[Len(Request) - k]
    BY ONLY <1>2, below \in Seq(Words), stack = below \o Request, Concatenated
  <2>3. stack[Len(stack) - 1] = Request[5] /\ stack[Len(stack) - 0] = Request[6]
    BY <2>1, <2>2
  <2>4. QED
    BY <1>2, <2>3 DEF Top
<1>7. CASE Record(0, TRUE) /\ UNCHANGED cell
  BY <1>1, <1>5, <1>7 DEF SyscallTypeOK, Numbers
<1>8. CASE \E n \in {n \in Counts : n <= Value(Top(2))}, c \in DOMAIN Places :
             /\ <<Top(1), Top(0)>> = Places[c]
             /\ cell' = [cell EXCEPT ![c] = Number(n)]
             /\ Record(n, FALSE)
  <2>1. PICK n \in Counts, c \in {"wlen", "pnWlen"} :
          /\ <<Top(1), Top(0)>> = Places[c]
          /\ cell' = [cell EXCEPT ![c] = Number(n)]
          /\ Record(n, FALSE)
    BY <1>8 DEF Places
  <2>2. n \in 0 .. W - 1 /\ n \in Int
    BY CountsAssumption, WordFacts
  <2>3. Number(n) = <<"number", n>> /\ Number(n) \in Numbers /\ Number(n) \in Words
    BY <2>2, WordFacts
  <2>4. handler # "printnum" => c = "wlen"
    BY <1>6, <2>1 DEF Places, Word
  <2>5. /\ cell' \in [Cells -> Words] /\ cell'["wlen"] \in Numbers
        /\ cell'["totalHi"] = cell["totalHi"]
        /\ handler # "printnum" => cell'["wlen"] = <<"number", n>>
    BY <2>1, <2>3, <2>4 DEF SyscallTypeOK, Cells, Numbers
  <2>6. QED
    BY <1>1, <1>5, <2>1, <2>2, <2>5
<1>9. QED
  BY <1>7, <1>8 DEF DosWrite

\* What a writev keeps on the stack while OS/2 writes.
LEMMA LoopFacts ==
  ASSUME FoundInv, HandlerInv, step \notin {"user", "enter"}, handler = "writev",
         NEW n \in Int, NEW dx \in Numbers
  PROVE  /\ LoopWords(n, dx) \in Seq(Words) /\ Len(LoopWords(n, dx)) = 3
         /\ LoopWords(n, dx)[1] = dx
         /\ LoopWords(n, dx)[2] = Number(Len(call.list) - n)
         /\ LoopWords(n, dx)[3] = Word(call.args[2][1][1], (8 * n) % W)
         /\ Working \o LoopWords(n, dx) \in Seq(Words)
<1>1. Len(call.list) \in Nat /\ 2 \in 1 .. Len(call.args)
  BY HandlerFacts, LenProperties
<1>2. call.args[2] \in Words \X Words
  BY <1>1, Frames, CallFacts
<1>3. /\ dx \in Words /\ Number(Len(call.list) - n) \in Words
      /\ Word(call.args[2][1][1], (8 * n) % W) \in Words
  <2>1. Len(call.list) - n \in Int /\ 8 * n \in Int /\ call.args[2][1] \in Words
    BY <1>1, <1>2
  <2>2. QED
    BY ONLY <2>1, dx \in Numbers, WordFacts
<1>4. /\ LoopWords(n, dx) \in Seq(Words) /\ Len(LoopWords(n, dx)) = 3
      /\ LoopWords(n, dx)[1] = dx
      /\ LoopWords(n, dx)[2] = Number(Len(call.list) - n)
      /\ LoopWords(n, dx)[3] = Word(call.args[2][1][1], (8 * n) % W)
  BY <1>3 DEF LoopWords
<1>5. QED
  BY <1>4, SavedFacts, Concatenated

LEMMA DosWriteStep == ASSUME IInv, DosWrite PROVE IInv'
<1>1. SyscallTypeOK /\ FoundInv /\ HandlerInv /\ StackInv /\ WritevInv /\ AnswersInv
  BY DEF IInv
<1>2. step = "dos" /\ handler \in {"write", "writev", "printnum"}
  BY DEF DosWrite
<1>3. Working \in Seq(Words) /\ Len(call.list) \in Nat
  BY <1>1, <1>2, SavedFacts, Frames, CallFacts, LenProperties DEF CallRecords
<1>4. served \in [answers : Nat, bytes : Nat, failed : BOOLEAN]
  BY <1>1 DEF SyscallTypeOK
<1>5. ASSUME NEW n \in 0 .. W - 1, NEW failed \in BOOLEAN, Record(n, failed)
      PROVE  served' \in [answers : Nat, bytes : Nat, failed : BOOLEAN]
  BY <1>4, <1>5, WordAssumption DEF Record
<1>6. 0 \in 0 .. W - 1
  BY WordAssumption
<1>7. CASE handler # "writev"
  <2>1. stack = Working \o Request
    BY <1>1, <1>2, <1>7 DEF StackInv
  <2>2. /\ stack' = Working /\ step' = "back" /\ reg' \in [Regs -> Words]
        /\ \A r \in Regs \ {"ax"} : reg'[r] = reg[r]
        /\ UNCHANGED <<bp, handler, call, found, made>>
        /\ cell' \in [Cells -> Words] /\ cell'["wlen"] \in Numbers
        /\ cell'["totalHi"] = cell["totalHi"]
        /\ \/ \E n \in 0 .. W - 1 :
                /\ Record(n, FALSE)
                /\ handler # "printnum" => cell'["wlen"] = <<"number", n>>
           \/ Record(0, TRUE)
    BY <1>1, <1>3, <1>7, <2>1, Written
  <2>3. served' \in [answers : Nat, bytes : Nat, failed : BOOLEAN]
    BY <1>5, <1>6, <2>2
  <2>4. cell'["totalHi"] \in Numbers
    BY <1>1, <2>2 DEF SyscallTypeOK, Numbers
  <2>5. ASSUME handler = "write"
        PROVE  served'.answers = 1 /\ (~served'.failed => served'.bytes = Value(cell'["wlen"]))
    <3>1. served = [answers |-> 0, bytes |-> 0, failed |-> FALSE] /\ ~(0 > Len(call.list))
      BY <1>1, <1>2, <1>3, <2>5 DEF AnswersInv, Unserved
    <3>2. CASE Record(0, TRUE)
      <4>1. served' = [answers |-> 0 + 1, bytes |-> 0 + 0, failed |-> TRUE]
        BY <3>1, <3>2 DEF Record
      <4>2. QED
        BY <4>1
    <3>3. CASE \E n \in 0 .. W - 1 : Record(n, FALSE) /\ cell'["wlen"] = <<"number", n>>
      <4>1. PICK n \in 0 .. W - 1 : Record(n, FALSE) /\ cell'["wlen"] = <<"number", n>>
        BY <3>3
      <4>2. served' = [answers |-> 0 + 1, bytes |-> 0 + n, failed |-> FALSE \/ FALSE]
        BY <3>1, <4>1 DEF Record
      <4>3. 0 + n = n /\ 0 + 1 = 1 /\ Value(cell'["wlen"]) = n
        BY <4>1 DEF Value
      <4>4. QED
        BY <4>2, <4>3
    <3>4. handler # "printnum"
      BY <2>5
    <3>5. QED
      BY ONLY <2>2, <3>2, <3>3, <3>4
  <2>6. QED
    BY <1>2, <1>7, <2>2, <2>3, <2>4, <2>5, BackStep
<1>8. CASE handler = "writev"
  <2>1. PICK dx \in Numbers :
          /\ served.answers < Len(call.list)
          /\ stack = Working \o LoopWords(served.answers, dx) \o Request
          /\ reg["bx"] = call.args[1][1]
          /\ Counted(served.answers, dx, served.bytes)
    BY <1>1, <1>2, <1>8 DEF WritevInv
  <2> DEFINE below == Working \o LoopWords(served.answers, dx)
  <2>2. below \in Seq(Words)
    BY <1>1, <1>2, <1>4, <1>8, LoopFacts
  <2>3. /\ stack' = below /\ step' = "back" /\ reg' \in [Regs -> Words]
        /\ \A r \in Regs \ {"ax"} : reg'[r] = reg[r]
        /\ UNCHANGED <<bp, handler, call, found, made>>
        /\ cell' \in [Cells -> Words] /\ cell'["wlen"] \in Numbers
        /\ cell'["totalHi"] = cell["totalHi"]
        /\ \/ \E n \in 0 .. W - 1 : Record(n, FALSE) /\ cell'["wlen"] = <<"number", n>>
           \/ Record(0, TRUE)
    BY <1>1, <1>8, <2>1, <2>2, Written
  <2>4. served' \in [answers : Nat, bytes : Nat, failed : BOOLEAN]
    BY <1>5, <1>6, <2>3
  <2>5. /\ served'.answers = served.answers + 1
        /\ ~served'.failed =>
             ~served.failed /\ served'.bytes - Value(cell'["wlen"]) = served.bytes
    <3>1. ~(served.answers > Len(call.list))
      BY <1>3, <1>4, <2>1
    <3>2. CASE Record(0, TRUE)
      BY <3>1, <3>2 DEF Record
    <3>3. CASE \E n \in 0 .. W - 1 : Record(n, FALSE) /\ cell'["wlen"] = <<"number", n>>
      BY <1>4, <3>1, <3>3 DEF Record, Value
    <3>4. QED
      BY <2>3, <3>2, <3>3
  <2>6. SyscallTypeOK'
    BY <1>1, <2>2, <2>3, <2>4 DEF SyscallTypeOK, Steps, Numbers
  <2>7. FoundInv' /\ HandlerInv' /\ RegsInv' /\ AnswersInv'
    BY <1>1, <1>2, <1>8, <2>3 DEF FoundInv, HandlerInv, RegsInv, AnswersInv, ResultsRight
  <2>8. StackInv'
    BY <1>8, <2>3 DEF StackInv
  <2>9. WritevInv'
    <3>1. served'.answers - 1 = served.answers /\ served'.answers >= 1
          /\ served'.answers <= Len(call.list)
      BY <1>3, <1>4, <2>1, <2>5
    <3>2. stack' = Working' \o LoopWords(served.answers - 1, dx)'
      BY <2>3, <3>1, SameFrame DEF LoopWords
    <3>3. Counted(served.answers - 1, dx, served.bytes - Value(cell["wlen"]))'
      BY <2>1, <2>3, <2>5, <3>1 DEF Counted
    <3>4. reg'["bx"] = call'.args[1][1]
      BY <2>1, <2>3 DEF Regs
    <3>5. QED
      BY <2>3, <3>1, <3>2, <3>3, <3>4 DEF WritevInv
  <2>10. QED
    BY <2>6, <2>7, <2>8, <2>9 DEF IInv
<1>9. QED
  BY <1>7, <1>8

-----------------------------------------------------------------------------
(* The handlers *)

LEMMA CloseReturnsStep == ASSUME IInv, CloseReturns PROVE IInv'
<1> DEFINE ax == reg["ax"]
<1>1. /\ step = "back" /\ handler = "close"
      /\ LeaveWith(<<>>, ax, SignOf(ax))
  BY DEF CloseReturns
<1>2. FoundInv /\ HandlerInv /\ SyscallTypeOK /\ reg \in [Regs -> Words]
  BY DEF IInv, SyscallTypeOK
<1>3. stack = Framed /\ \A r \in {"bx", "si", "di"} : reg[r] = found.reg[r]
  BY <1>1, SavedFacts DEF IInv, StackInv, RegsInv
<1>4. stack = Framed \o <<>>
  BY <1>1, <1>2, <1>3, Frames, ConcatEmptySeq
<1>5. ax \in Words /\ SignOf(ax) \in Words
  <2>1. \A n \in Int : Number(n) \in Words
    BY WordFacts
  <2>2. QED
    BY <1>2, <2>1 DEF SignOf, Zero, Regs
<1> HIDE DEF ax
<1>6. handler = "printnum" <=> call.entry = -1
  BY <1>1, <1>2, HandlerFacts
<1>7. /\ <<>> \in Seq(Regs) /\ <<>> \in Seq(Words) /\ Len(<<>>) = 0
      /\ \A i \in 1 .. Len(<<>>) : FALSE
  OBVIOUS
<1>8. /\ stack' = CallersStack /\ bp' = found.bp /\ step' = "return"
      /\ reg' \in [Regs -> Words]
      /\ \A r \in Regs : reg'[r] = IF r = "ax" THEN ax ELSE IF r = "dx" THEN SignOf(ax) ELSE reg[r]
  <2>1. step # "user"
    BY <1>1
  <2>2. \A i, j \in 1 .. Len(<<>>) : <<>>[i] = <<>>[j] => i = j
    BY <1>7
  <2>3. /\ stack' = CallersStack /\ bp' = found.bp /\ step' = "return"
        /\ reg' \in [Regs -> Words]
        /\ \A r \in Regs : (\A i \in 1 .. Len(<<>>) : <<>>[i] # r) =>
             reg'[r] = IF r = "ax" THEN ax ELSE IF r = "dx" THEN SignOf(ax) ELSE reg[r]
    BY ONLY <1>1, <1>2, <1>4, <1>5, <1>6, <1>7, <2>1, <2>2, Leaves, ZenonT(60)
  <2>4. QED
    BY <1>7, <2>3
<1>9. \A r \in {"bx", "si", "di"} : reg'[r] = found.reg[r]
  BY <1>3, <1>8 DEF Regs
<1>10. UNCHANGED <<cell, handler, call, found, served, made>>
  BY <1>1 DEF LeaveWith
<1>11. ResultsRight'
  BY <1>1, <1>10 DEF ResultsRight
<1>12. QED
  BY <1>1, <1>8, <1>9, <1>10, <1>11, ReturnStep

LEMMA TransferReturnsStep == ASSUME IInv, TransferReturns PROVE IInv'
<1> DEFINE names == <<"di", "si">>
           saved == <<found.reg["si"], found.reg["di"]>>
<1>1. /\ step = "back" /\ handler \in {"write", "read"}
      /\ LeaveWith(names, cell["wlen"], Zero)
  BY DEF TransferReturns
<1>2. FoundInv /\ HandlerInv /\ SyscallTypeOK /\ reg \in [Regs -> Words]
  BY DEF IInv, SyscallTypeOK
<1>3. stack = Framed \o saved /\ reg["bx"] = found.reg["bx"]
  BY <1>1 DEF IInv, StackInv, RegsInv, Working, SavedRegs
<1>4. /\ cell["wlen"] \in Numbers /\ cell["wlen"] \in Words
      /\ Zero \in Words /\ Zero = <<"number", 0>>
  <2>1. cell["wlen"] \in Numbers /\ cell["wlen"] \in Words
    BY <1>2 DEF SyscallTypeOK, Numbers, Cells
  <2>2. 0 \in Int /\ 0 \in 0 .. W - 1
    BY WordAssumption
  <2>3. Zero \in Numbers /\ Zero = <<"number", 0>> /\ Numbers \subseteq Words
    BY ONLY <2>2, WordFacts DEF Zero
  <2>4. QED
    BY <2>1, <2>3
<1>5. handler = "printnum" <=> call.entry = -1
  BY <1>1, <1>2, HandlerFacts
<1>6. saved \in Seq(Words)
  BY <1>1, <1>2, Frames DEF Regs
<1>7. /\ names \in Seq(Regs) /\ Len(names) = 2 /\ Len(saved) = 2
      /\ \A i, j \in 1 .. Len(names) : names[i] = names[j] => i = j
  BY DEF Regs
<1>8. /\ stack' = CallersStack /\ bp' = found.bp /\ step' = "return"
      /\ reg' \in [Regs -> Words]
      /\ \A i \in 1 .. Len(names) : reg'[names[i]] = saved[Len(saved) - (i - 1)]
      /\ \A r \in Regs : (\A i \in 1 .. Len(names) : names[i] # r) =>
           reg'[r] = IF r = "ax" THEN cell["wlen"] ELSE IF r = "dx" THEN Zero ELSE reg[r]
  <2>1. /\ step # "user" /\ names \in Seq(Regs) /\ Len(names) = Len(saved)
        /\ \A i, j \in 1 .. Len(names) : names[i] = names[j] => i = j
    BY <1>1, <1>7
  <2> DEFINE lo == cell["wlen"]
  <2>2. stack = Framed \o saved /\ lo \in Words /\ LeaveWith(names, lo, Zero)
    BY <1>1, <1>3, <1>4
  <2>4. saved \in Seq(Words) /\ Zero \in Words
    BY <1>4, <1>6
  <2> HIDE DEF names, saved, lo
  <2>3. /\ stack' = CallersStack /\ bp' = found.bp /\ step' = "return"
        /\ reg' \in [Regs -> Words]
        /\ \A i \in 1 .. Len(names) : reg'[names[i]] = saved[Len(saved) - (i - 1)]
        /\ \A r \in Regs : (\A i \in 1 .. Len(names) : names[i] # r) =>
             reg'[r] = IF r = "ax" THEN lo ELSE IF r = "dx" THEN Zero ELSE reg[r]
    BY ONLY <1>2, <1>5, <2>1, <2>2, <2>4, Leaves, ZenonT(60)
  <2>5. QED
    BY <2>3 DEF lo
<1>9. /\ \A r \in {"bx", "si", "di"} : reg'[r] = found.reg[r]
      /\ reg'["ax"] = cell["wlen"] /\ reg'["dx"] = Zero
  <2>1. reg'["di"] = found.reg["di"] /\ reg'["si"] = found.reg["si"]
    BY <1>7, <1>8
  <2>2. reg'["bx"] = reg["bx"] /\ reg'["ax"] = cell["wlen"] /\ reg'["dx"] = Zero
    BY <1>7, <1>8 DEF Regs
  <2>3. QED
    BY <1>3, <2>1, <2>2
<1>10. UNCHANGED <<cell, handler, call, found, served, made>>
  BY <1>1 DEF LeaveWith
<1>11. ResultsRight'
  <2>1. Result' = Value(cell["wlen"])
    <3>1. Value(cell["wlen"]) \in 0 .. W - 1 /\ Value(Zero) = 0
      BY ONLY <1>4 DEF Numbers, Value
    <3>2. Result' = Value(cell["wlen"]) + W * Value(Zero)
      BY <1>9 DEF Result, Value
    <3>3. QED
      BY <3>1, <3>2, WordAssumption
  <2>2. handler = "write" => served.answers = 1 /\ (~served.failed => served.bytes = Value(cell["wlen"]))
    BY <1>1 DEF IInv, AnswersInv
  <2>3. QED
    BY <1>1, <1>10, <2>1, <2>2 DEF ResultsRight
<1>12. QED
  BY <1>1, <1>8, <1>9, <1>10, <1>11, ReturnStep

LEMMA PrintNumReturnsStep == ASSUME IInv, PrintNumReturns PROVE IInv'
<1> DEFINE names == <<"di", "si", "bx">>
           saved == <<found.reg["bx"], found.reg["si"], found.reg["di"]>>
           lo == reg["ax"]
           hi == reg["dx"]
<1>1. step = "back" /\ handler = "printnum" /\ LeaveWith(names, lo, hi)
  BY DEF PrintNumReturns
<1>2. FoundInv /\ HandlerInv /\ SyscallTypeOK /\ reg \in [Regs -> Words]
  BY DEF IInv, SyscallTypeOK
<1>3. stack = Framed \o saved
  BY <1>1 DEF IInv, StackInv, Working, SavedRegs
<1>4. lo \in Words /\ hi \in Words
  BY <1>2 DEF Regs
<1>5. handler = "printnum" <=> call.entry = -1
  BY <1>1, <1>2, HandlerFacts
<1>6. saved \in Seq(Words)
  BY <1>1, <1>2, Frames DEF Regs
<1>7. /\ names \in Seq(Regs) /\ Len(names) = 3 /\ Len(saved) = 3
      /\ \A i, j \in 1 .. Len(names) : names[i] = names[j] => i = j
  BY DEF Regs
<1>8. /\ stack' = CallersStack /\ bp' = found.bp /\ step' = "return"
      /\ reg' \in [Regs -> Words]
      /\ \A i \in 1 .. Len(names) : reg'[names[i]] = saved[Len(saved) - (i - 1)]
  <2>1. /\ step # "user" /\ Len(names) = Len(saved) /\ names \in Seq(Regs)
        /\ \A i, j \in 1 .. Len(names) : names[i] = names[j] => i = j
    BY <1>1, <1>7
  <2> HIDE DEF names, saved, lo, hi
  <2>2. QED
    BY ONLY <1>1, <1>2, <1>3, <1>4, <1>5, <1>6, <2>1, Leaves, ZenonT(60)
<1>9. \A r \in {"bx", "si", "di"} : reg'[r] = found.reg[r]
  BY <1>7, <1>8
<1>10. UNCHANGED <<cell, handler, call, found, served, made>>
  BY <1>1 DEF LeaveWith
<1>11. ResultsRight'
  BY <1>1, <1>10 DEF ResultsRight
<1>12. QED
  BY <1>1, <1>8, <1>9, <1>10, <1>11, ReturnStep

\* A writev leaves after its last buffer, with what dx and the total's high word count.
LEMMA WritevDoneStep == ASSUME IInv, WritevDone PROVE IInv'
<1> DEFINE names == <<"cx", "bx", "di", "si">>
           saved == <<found.reg["si"], found.reg["di"], found.reg["bx"], found.reg["cx"]>>
           lo == reg["dx"]
           hi == cell["totalHi"]
<1>1. step = "loop" /\ Value(reg["cx"]) = 0 /\ LeaveWith(names, lo, hi)
  BY DEF WritevDone
<1>2. FoundInv /\ HandlerInv /\ SyscallTypeOK /\ reg \in [Regs -> Words]
  BY DEF IInv, SyscallTypeOK
<1>3. handler = "writev" /\ stack = Framed \o saved
  BY <1>1 DEF IInv, StackInv, Working, SavedRegs
<1>4. lo \in Words /\ hi \in Words
  BY <1>2 DEF Regs, Cells, SyscallTypeOK
<1>5. handler = "printnum" <=> call.entry = -1
  BY <1>1, <1>2, HandlerFacts
<1>6. saved \in Seq(Words)
  BY <1>1, <1>2, Frames DEF Regs
<1>7. /\ names \in Seq(Regs) /\ Len(names) = 4 /\ Len(saved) = 4
      /\ \A i, j \in 1 .. Len(names) : names[i] = names[j] => i = j
  BY DEF Regs
<1>8. /\ stack' = CallersStack /\ bp' = found.bp /\ step' = "return"
      /\ reg' \in [Regs -> Words]
      /\ \A i \in 1 .. Len(names) : reg'[names[i]] = saved[Len(saved) - (i - 1)]
      /\ \A r \in Regs : (\A i \in 1 .. Len(names) : names[i] # r) =>
           reg'[r] = IF r = "ax" THEN lo ELSE IF r = "dx" THEN hi ELSE reg[r]
  <2>1. /\ step # "user" /\ Len(names) = Len(saved) /\ names \in Seq(Regs)
        /\ \A i, j \in 1 .. Len(names) : names[i] = names[j] => i = j
    BY <1>1, <1>7
  <2>2. stack = Framed \o saved /\ LeaveWith(names, lo, hi)
    BY <1>1, <1>3
  <2> HIDE DEF names, saved, lo, hi
  <2>3. QED
    BY ONLY <1>2, <1>4, <1>5, <1>6, <2>1, <2>2, Leaves, ZenonT(60)
<1>9. /\ \A r \in {"bx", "si", "di"} : reg'[r] = found.reg[r]
      /\ reg'["ax"] = lo /\ reg'["dx"] = hi
  <2> HIDE DEF lo, hi
  <2>1. \A r \in {"bx", "si", "di"} : reg'[r] = found.reg[r]
    BY <1>7, <1>8
  <2>2. reg'["ax"] = lo /\ reg'["dx"] = hi
    BY <1>7, <1>8 DEF Regs
  <2>3. QED
    BY <2>1, <2>2
<1>10. UNCHANGED <<cell, handler, call, found, served, made>>
  BY <1>1 DEF LeaveWith
<1>11. ResultsRight'
  <2>1. /\ served.answers <= Len(call.list) /\ Counted(served.answers, lo, served.bytes)
        /\ reg["cx"] = Number(Len(call.list) - served.answers)
    BY <1>1, <1>3 DEF IInv, WritevInv, LoopWords
  <2>2. ~served.failed => Value(lo) + W * Value(hi) = served.bytes
    BY <2>1 DEF Counted
  <2>3. Result' = Value(lo) + W * Value(hi)
    BY <1>9 DEF Result, Value
  <2>4. served.answers = Len(call.list)
    <3>1. /\ 8 * Len(call.list) <= W /\ Len(call.list) \in Nat /\ served.answers \in Nat
          /\ W \in Nat /\ W >= 76
      BY <1>1, <1>2, <1>3, HandlerFacts, LenProperties, WordAssumption DEF SyscallTypeOK
    <3>2. Len(call.list) - served.answers \in 0 .. W - 1
      BY <2>1, <3>1
    <3>3. Number(Len(call.list) - served.answers) = <<"number", Len(call.list) - served.answers>>
      BY <3>2, WordFacts
    <3>4. Len(call.list) - served.answers = 0
      BY <1>1, <2>1, <3>3 DEF Value
    <3>5. QED
      BY <3>1, <3>4
  <2>5. QED
    BY <1>3, <1>10, <2>2, <2>3, <2>4 DEF ResultsRight
<1>12. QED
  BY <1>1, <1>8, <1>9, <1>10, <1>11, ReturnStep

\* The words a handler has in its program.
LEMMA ProgramWords ==
  /\ Zero \in Words /\ Number(1) \in Words /\ Ds \in Words
  /\ Word("wlen", 0) \in Words /\ Word("pnWlen", 0) \in Words
<1>1. Zero \in Words
  BY WordFacts DEF Zero
<1>2. Number(1) \in Words
  BY WordFacts
<1>3. Ds \in Words
  BY WordFacts DEF Ds
<1>4. Word("wlen", 0) \in Words /\ Word("pnWlen", 0) \in Words
  BY WordFacts DEF Cells
<1>5. QED
  BY <1>1, <1>2, <1>3, <1>4

\* A handler that is not writev asks OS/2 for something.
LEMMA RequestStep ==
  ASSUME IInv, step = "handle", handler \in {"write", "read", "close", "exit", "printnum"},
         NEW asked \in Seq(Words), stack' = Working \o asked,
         IF handler = "read" THEN Len(asked) = 6 ELSE asked = Request',
         step' = "dos", reg' \in [Regs -> Words], bp' \in Nat,
         handler \in {"write", "read"} => reg'["bx"] = found.reg["bx"],
         handler \in {"close", "exit"} => \A r \in {"bx", "si", "di"} : reg'[r] = found.reg[r],
         cell' \in [Cells -> Words], UNCHANGED <<cell["wlen"], cell["totalHi"]>>,
         UNCHANGED <<handler, call, found, served, made>>
  PROVE  IInv'
<1>1. FoundInv /\ HandlerInv /\ SyscallTypeOK /\ AnswersInv
  BY DEF IInv
<1>2. /\ Working \in Seq(Words) /\ Working \o asked \in Seq(Words)
      /\ Len(Working \o asked) = Len(Working) + Len(asked) /\ Len(Working) \in Nat
  BY <1>1, SavedFacts, Concatenated, LenProperties
<1>3. SyscallTypeOK'
  BY <1>1, <1>2 DEF SyscallTypeOK, Steps
<1>4. FoundInv' /\ HandlerInv' /\ RegsInv'
  BY <1>1 DEF FoundInv, HandlerInv, RegsInv
<1>5. StackInv'
  <2>1. Working' = Working
    BY SameFrame
  <2>2. CASE handler = "read"
    <3>1. Len(stack') = Len(Working) + 6 /\ Len(stack') - 6 = Len(stack') - Len(asked)
      BY <1>2, <2>2
    <3>2. SubSeq(stack', 1, Len(stack') - 6) = Working
      BY <1>2, <3>1, PutAndTaken
    <3>3. QED
      BY <2>1, <2>2, <3>1, <3>2 DEF StackInv
  <2>3. CASE handler # "read"
    <3>1. stack' = Working' \o Request'
      BY <2>1, <2>3
    <3>2. QED
      BY <2>3, <3>1 DEF StackInv
  <2>4. QED
    BY <2>2, <2>3
<1>6. WritevInv'
  BY DEF WritevInv
<1>7. AnswersInv'
  BY <1>1 DEF AnswersInv, ResultsRight
<1>8. QED
  BY <1>3, <1>4, <1>5, <1>6, <1>7 DEF IInv

LEMMA TransferStep == ASSUME IInv, Transfer PROVE IInv'
<1> DEFINE hf == call.args[1][1]
           off == call.args[2][1]
           sel == call.args[2][2]
           count == call.args[3][1]
           saved == <<found.reg["si"], found.reg["di"]>>
           asked == IF handler = "write" THEN WriteArgs(hf, sel, off, count, Places["wlen"])
                    ELSE <<Zero, Ds, count, sel, off, hf>>
<1>1. step = "handle" /\ handler \in {"write", "read"}
  BY DEF Transfer
<1>2. /\ FoundInv /\ HandlerInv /\ SyscallTypeOK /\ stack = Framed /\ bp = Len(Framed)
      /\ reg = found.reg
  BY <1>1 DEF IInv, StackInv, RegsInv
<1>3. /\ call.entry # -1
      /\ 1 \in 1 .. Len(call.args) /\ 2 \in 1 .. Len(call.args) /\ 3 \in 1 .. Len(call.args)
  BY <1>1, <1>2, HandlerFacts
<1>4. Low(1) = hf /\ Low(2) = off /\ High(2) = sel /\ Low(3) = count
  BY <1>1, <1>2, <1>3, Arguments
<1>5. hf \in Words /\ off \in Words /\ sel \in Words /\ count \in Words
  <2>1. \A k \in 1 .. Len(call.args) : call.args[k] \in Words \X Words
    BY <1>1, <1>2, Frames, CallFacts
  <2>2. QED
    BY <1>3, <2>1
<1>6. /\ stack' = Framed \o (saved \o asked) /\ step' = "dos"
      /\ reg' = [found.reg EXCEPT !["ax"] = hf, !["si"] = off, !["di"] = sel, !["cx"] = count]
      /\ UNCHANGED <<bp, cell, handler, call, found, served, made>>
  <2> HIDE DEF hf, off, sel, count
  <2>1. QED
    BY <1>2, <1>4 DEF Transfer, CallDos
<1>7. found.reg \in [Regs -> Words] /\ Framed \in Seq(Words)
  BY <1>1, <1>2, Frames
<1>8. reg' \in [Regs -> Words] /\ reg'["bx"] = found.reg["bx"]
  <2> HIDE DEF hf, off, sel, count
  <2>1. QED
    BY <1>5, <1>6, <1>7 DEF Regs
<1>9. asked \in Seq(Words) /\ (handler = "read" => Len(asked) = 6)
  <2> HIDE DEF hf, off, sel, count
  <2>1. Zero \in Words /\ Ds \in Words /\ Word("wlen", 0) \in Words
    BY ProgramWords
  <2>2. Places["wlen"] = <<Ds, Word("wlen", 0)>>
    BY DEF Places
  <2>3. WriteArgs(hf, sel, off, count, Places["wlen"]) =
          <<hf, sel, off, count, Ds, Word("wlen", 0)>>
    BY <2>2, SixWords DEF WriteArgs
  <2>4. QED
    BY <1>5, <2>1, <2>3
<1>10. handler # "read" => asked = Request'
  BY <1>1, <1>6 DEF WriteArgs, Request
<1>11. saved \in Seq(Words) /\ Working = Framed \o saved
  BY <1>1, <1>7 DEF Working, SavedRegs, Regs
<1> HIDE DEF asked, saved
<1>12. stack' = Working \o asked
  BY <1>6, <1>7, <1>9, <1>11, Reassociated
<1>13. cell' \in [Cells -> Words] /\ bp' \in Nat /\ UNCHANGED <<cell["wlen"], cell["totalHi"]>>
  BY <1>2, <1>6 DEF SyscallTypeOK
<1>14. QED
  <2> HIDE DEF hf, off, sel, count
  <2>1. QED
    BY <1>1, <1>6, <1>8, <1>9, <1>10, <1>12, <1>13, RequestStep

LEMMA CloseStep == ASSUME IInv, Close PROVE IInv'
<1> DEFINE hf == call.args[1][1]
           asked == <<hf>>
<1>1. step = "handle" /\ handler = "close"
  BY DEF Close
<1>2. /\ FoundInv /\ HandlerInv /\ SyscallTypeOK /\ stack = Framed /\ bp = Len(Framed)
      /\ reg = found.reg
  BY <1>1 DEF IInv, StackInv, RegsInv
<1>3. call.entry # -1 /\ 1 \in 1 .. Len(call.args)
  BY <1>1, <1>2, HandlerFacts
<1>4. Low(1) = hf
  BY <1>1, <1>2, <1>3, Arguments
<1>5. hf \in Words
  BY <1>1, <1>2, <1>3, Frames, CallFacts
<1>6. /\ stack' = Framed \o asked /\ step' = "dos" /\ reg' = [found.reg EXCEPT !["ax"] = hf]
      /\ UNCHANGED <<bp, cell, handler, call, found, served, made>>
  BY <1>2, <1>4 DEF Close, CallDos
<1>7. found.reg \in [Regs -> Words] /\ Working = Framed
  BY <1>1, <1>2, Frames, SavedFacts
<1>8. asked = Request'
  BY <1>1, <1>6 DEF Request
<1> HIDE DEF hf
<1>9. reg' \in [Regs -> Words] /\ \A r \in {"bx", "si", "di"} : reg'[r] = found.reg[r]
  BY <1>5, <1>6, <1>7 DEF Regs
<1>10. asked \in Seq(Words)
  BY <1>5
<1> HIDE DEF asked
<1>11. cell' \in [Cells -> Words] /\ bp' \in Nat /\ UNCHANGED <<cell["wlen"], cell["totalHi"]>>
  BY <1>2, <1>6 DEF SyscallTypeOK
<1>12. QED
  BY <1>1, <1>6, <1>7, <1>8, <1>9, <1>10, <1>11, RequestStep

LEMMA ExitProcessStep == ASSUME IInv, ExitProcess PROVE IInv'
<1> DEFINE code == call.args[1][1]
           asked == <<Number(1), code>>
<1>1. step = "handle" /\ handler = "exit"
  BY DEF ExitProcess
<1>2. /\ FoundInv /\ HandlerInv /\ SyscallTypeOK /\ stack = Framed /\ bp = Len(Framed)
      /\ reg = found.reg
  BY <1>1 DEF IInv, StackInv, RegsInv
<1>3. call.entry # -1 /\ 1 \in 1 .. Len(call.args)
  BY <1>1, <1>2, HandlerFacts
<1>4. Low(1) = code
  BY <1>1, <1>2, <1>3, Arguments
<1>5. code \in Words
  BY <1>1, <1>2, <1>3, Frames, CallFacts
<1>6. /\ stack' = Framed \o asked /\ step' = "dos" /\ reg' = [found.reg EXCEPT !["ax"] = code]
      /\ UNCHANGED <<bp, cell, handler, call, found, served, made>>
  BY <1>2, <1>4 DEF ExitProcess, CallDos
<1>7. found.reg \in [Regs -> Words] /\ Working = Framed
  BY <1>1, <1>2, Frames, SavedFacts
<1>8. asked = Request'
  BY <1>1, <1>6 DEF Request
<1> HIDE DEF code
<1>9. reg' \in [Regs -> Words] /\ \A r \in {"bx", "si", "di"} : reg'[r] = found.reg[r]
  BY <1>5, <1>6, <1>7 DEF Regs
<1>10. asked \in Seq(Words)
  BY <1>5, ProgramWords
<1> HIDE DEF asked
<1>11. cell' \in [Cells -> Words] /\ bp' \in Nat /\ UNCHANGED <<cell["wlen"], cell["totalHi"]>>
  BY <1>2, <1>6 DEF SyscallTypeOK
<1>12. QED
  BY <1>1, <1>6, <1>7, <1>8, <1>9, <1>10, <1>11, RequestStep

\* printnum is entered near, and its number is two words under the saved bp.
LEMMA PrintNumStep == ASSUME IInv, PrintNum PROVE IInv'
<1>1. step = "handle" /\ handler = "printnum"
  BY DEF PrintNum
<1>2. /\ FoundInv /\ HandlerInv /\ SyscallTypeOK /\ stack = Framed /\ bp = Len(Framed)
      /\ reg = found.reg
  BY <1>1 DEF IInv, StackInv, RegsInv
<1>3. /\ found.reg \in [Regs -> Words] /\ Framed \in Seq(Words)
      /\ call.entry = -1 /\ call \in Calls /\ Len(Framed) \in Nat
  BY <1>1, <1>2, Frames, HandlerFacts, LenProperties
<1>4. bp - 2 \in 1 .. Len(stack)
  <2>1. /\ Len(Framed) = Len(Entered) + 1 /\ Len(Entered) = Len(CallersStack) + Len(ReturnAddress(call))
        /\ Len(CallersStack) = Len(found.stack) + Len(Passed(call))
        /\ found.stack \in Seq(Words)
    BY <1>1, <1>2, Frames
  <2>2. Len(ReturnAddress(call)) = 1 /\ Len(Passed(call)) = 2 * Len(call.args) + 0
        /\ Len(call.args) = 3
    BY <1>3, CallFacts DEF SystemCall
  <2>3. Len(found.stack) \in Nat
    BY <2>1, LenProperties
  <2>4. QED
    BY <1>2, <2>1, <2>2, <2>3
<1> DEFINE off == stack[bp - 2]
<1>5. off \in Words
  BY <1>2, <1>3, <1>4, ElementOfSeq
<1> HIDE DEF off
<1>6. PICK n \in {n \in Counts : 0 < n /\ n < 12} :
       /\ stack' = stack \o <<reg["bx"], reg["si"], reg["di"]>> \o
                     WriteArgs(Number(1), Ds, Word(off[1], 11 - n), Number(n), Places["pnWlen"])
       /\ reg' = [r \in Regs |-> IF r = "ax" THEN Number(n) ELSE Word("itoa", 0)]
       /\ bp' = Len(stack) + 13
       /\ cell' = [cell EXCEPT !["start"] = Word(off[1], 11 - n), !["len"] = Number(n)]
       /\ step' = "dos"
       /\ UNCHANGED <<handler, call, found, served, made>>
  BY DEF PrintNum, off
<1>7. n \in 1 .. 11 /\ 11 - n \in Int /\ 11 - n \in 0 .. W - 1
  BY CountsAssumption, WordAssumption
<1> DEFINE start == Word(off[1], 11 - n)
           len == Number(n)
           saved == <<found.reg["bx"], found.reg["si"], found.reg["di"]>>
           asked == WriteArgs(Number(1), Ds, start, len, Places["pnWlen"])
<1>8. start \in Words /\ len \in Words
  <2>1. (11 - n) % W = 11 - n
    BY <1>7, WordAssumption
  <2>2. start \in Words
    BY <1>5, <1>7, <2>1, WordFacts
  <2>3. len \in Words
    BY <1>7, WordFacts
  <2>4. QED
    BY <2>2, <2>3
<1>9. Word("itoa", 0) \in Words
  BY WordFacts
<1> HIDE DEF start, len
<1>10. asked = <<Number(1), Ds, start, len, Ds, Word("pnWlen", 0)>>
  <2>1. Places["pnWlen"] = <<Ds, Word("pnWlen", 0)>>
    BY DEF Places
  <2>2. QED
    BY <2>1, SixWords DEF WriteArgs
<1>11. asked \in Seq(Words)
  <2>1. <<Number(1), Ds, start, len, Ds, Word("pnWlen", 0)>> \in Seq(Words)
    BY ONLY <1>8, ProgramWords
  <2>2. QED
    BY ONLY <1>10, <2>1
<1>12. saved \in Seq(Words) /\ Working = Framed \o saved
  BY <1>1, <1>3 DEF Working, SavedRegs, Regs
<1>13. /\ cell' = [cell EXCEPT !["start"] = start, !["len"] = len]
       /\ cell' \in [Cells -> Words] /\ UNCHANGED <<cell["wlen"], cell["totalHi"]>>
       /\ cell'["start"] = start /\ cell'["len"] = len
  <2>1. cell' = [cell EXCEPT !["start"] = start, !["len"] = len]
    BY <1>6 DEF start, len
  <2>2. QED
    BY <1>2, <1>8, <2>1 DEF SyscallTypeOK, Cells
<1>14. asked = Request'
  BY <1>1, <1>6, <1>13 DEF Request, WriteArgs
<1>15. reg' \in [Regs -> Words] /\ bp' \in Nat
  <2>1. reg' = [r \in Regs |-> IF r = "ax" THEN len ELSE Word("itoa", 0)]
    BY <1>6 DEF len
  <2>2. reg' \in [Regs -> Words]
    BY <1>8, <1>9, <2>1
  <2>3. bp' \in Nat
    BY <1>2, <1>3, <1>6
  <2>4. QED
    BY <2>2, <2>3
<1>16. stack' = (stack \o saved) \o asked
  BY <1>2, <1>6 DEF start, len
<1> HIDE DEF asked, saved
<1>17. stack' = Working \o asked
  BY <1>2, <1>12, <1>16
<1>18. QED
  BY <1>1, <1>6, <1>11, <1>13, <1>14, <1>15, <1>17, RequestStep

-----------------------------------------------------------------------------
(* writev *)

\* How few buffers there are for the words that count them.
LEMMA FewBuffers ==
  ASSUME FoundInv, HandlerInv, step \notin {"user", "enter"}, handler = "writev",
         NEW n \in 0 .. Len(call.list)
  PROVE  /\ Len(call.list) \in Nat /\ Len(call.list) < W /\ W \in Nat /\ W >= 76
         /\ n \in 0 .. W - 1 /\ n + 1 \in 0 .. W - 1
         /\ n < Len(call.list) => (8 * n) % W = 8 * n
<1>1. /\ 8 * Len(call.list) <= W /\ Len(call.list) \in Nat /\ W \in Nat /\ W >= 76
  BY HandlerFacts, LenProperties, WordAssumption
<1>2. n < Len(call.list) => 8 * n \in 0 .. W - 1
  BY <1>1
<1>3. ASSUME NEW m \in 0 .. W - 1 PROVE m % W = m
  BY <1>1
<1>4. QED
  BY <1>1, <1>2, <1>3

\* What is left to write counts down from the number of buffers.
LEMMA BuffersLeft ==
  ASSUME NEW m \in Nat, m < W, NEW n \in 0 .. m
  PROVE  Number(n) \in {"number"} \X (0 .. m)
<1>1. n \in Int /\ n \in 0 .. W - 1
  BY WordAssumption
<1>2. QED
  BY <1>1, WordFacts

LEMMA BeginWritevStep == ASSUME IInv, BeginWritev PROVE IInv'
<1> DEFINE hf == call.args[1][1]
           off == call.args[2][1]
           sel == call.args[2][2]
           count == call.args[3][1]
           saved == <<found.reg["si"], found.reg["di"], found.reg["bx"], found.reg["cx"]>>
<1>1. step = "handle" /\ handler = "writev"
  BY DEF BeginWritev
<1>2. /\ FoundInv /\ HandlerInv /\ SyscallTypeOK /\ stack = Framed /\ bp = Len(Framed)
      /\ reg = found.reg /\ served = Unserved
  BY <1>1 DEF IInv, StackInv, RegsInv, AnswersInv
<1>3. /\ call.entry # -1
      /\ 1 \in 1 .. Len(call.args) /\ 2 \in 1 .. Len(call.args) /\ 3 \in 1 .. Len(call.args)
      /\ Value(off) = 0 /\ count = Number(Len(call.list)) /\ Len(call.list) \in Nat
  BY <1>1, <1>2, HandlerFacts, LenProperties
<1>4. Low(1) = hf /\ Low(2) = off /\ High(2) = sel /\ Low(3) = count
  BY <1>1, <1>2, <1>3, Arguments
<1>5. hf \in Words /\ off \in Words /\ sel \in Words /\ count \in Words
  <2>1. \A k \in 1 .. Len(call.args) : call.args[k] \in Words \X Words
    BY <1>1, <1>2, Frames, CallFacts
  <2>2. QED
    BY <1>3, <2>1
<1>6. off = <<off[1], 0>>
  <2> HIDE DEF off
  <2>1. off = <<off[1], off[2]>>
    BY <1>5 DEF Words
  <2>2. QED
    BY <1>3, <2>1 DEF Value
<1>7. found.reg \in [Regs -> Words] /\ Framed \in Seq(Words)
  BY <1>1, <1>2, Frames
<1>8. saved \in Seq(Words) /\ Working = Framed \o saved
  BY <1>1, <1>7 DEF Working, SavedRegs, Regs
<1>9. Working \in Seq(Words)
  BY <1>7, <1>8, Concatenated
<1> HIDE DEF hf, off, sel, count
<1>10. /\ stack' = Working /\ step' = "loop"
       /\ reg' = [found.reg EXCEPT !["bx"] = hf, !["si"] = off, !["di"] = sel,
                                   !["cx"] = count, !["dx"] = Zero]
       /\ cell' = [cell EXCEPT !["totalHi"] = Zero]
       /\ UNCHANGED <<bp, handler, call, found, served, made>>
  BY <1>2, <1>4, <1>8 DEF BeginWritev
<1>11. Zero \in Words /\ Zero \in Numbers /\ Zero = <<"number", 0>>
  <2>1. 0 \in Int /\ 0 \in 0 .. W - 1
    BY WordAssumption
  <2>2. QED
    BY ONLY <2>1, WordFacts DEF Zero
<1>12. /\ reg' \in [Regs -> Words]
       /\ reg'["bx"] = hf /\ reg'["si"] = off /\ reg'["cx"] = count /\ reg'["dx"] = Zero
  BY <1>5, <1>7, <1>10, <1>11 DEF Regs
<1>13. /\ cell' \in [Cells -> Words] /\ cell'["wlen"] = cell["wlen"] /\ cell'["totalHi"] = Zero
  BY <1>2, <1>10, <1>11 DEF SyscallTypeOK, Cells
<1>14. SyscallTypeOK'
  <2>1. count \in {"number"} \X (0 .. Len(call.list))
    <3>1. Len(call.list) \in 0 .. Len(call.list) /\ Len(call.list) < W
      BY <1>1, <1>2, <1>3, FewBuffers
    <3>2. QED
      BY <1>3, <3>1, BuffersLeft
  <2>2. reg'["dx"] \in {"number"} \X (0 .. W - 1)
    BY <1>11, <1>12 DEF Numbers
  <2>3. reg'["cx"] \in {"number"} \X (0 .. Len(call'.list))
    BY <1>10, <1>12, <2>1
  <2>4. QED
    BY <1>2, <1>9, <1>10, <1>11, <1>12, <1>13, <2>2, <2>3 DEF SyscallTypeOK, Steps, Numbers
<1>15. FoundInv' /\ HandlerInv' /\ RegsInv' /\ AnswersInv'
  BY <1>1, <1>2, <1>10 DEF FoundInv, HandlerInv, RegsInv, AnswersInv, ResultsRight
<1>16. StackInv'
  BY <1>1, <1>10, SameFrame DEF StackInv
<1>17. WritevInv'
  <2>1. LoopWords(0, Zero)' = <<Zero, count, off>>
    <3>1. 8 * 0 = 0 /\ 0 % W = 0 /\ Len(call.list) - 0 = Len(call.list)
      BY <1>3, WordAssumption
    <3>2. LoopWords(0, Zero)' =
            <<Zero, Number(Len(call.list) - 0), Word(call.args[2][1][1], (8 * 0) % W)>>
      BY <1>10 DEF LoopWords
    <3>3. Word(off[1], 0) = off
      BY <1>6 DEF Word
    <3>4. QED
      BY <1>3, <3>1, <3>2, <3>3 DEF off, count
  <2>2. served' = [answers |-> 0, bytes |-> 0, failed |-> FALSE]
    BY <1>2, <1>10 DEF Unserved
  <2>3. Counted(0, Zero, 0)'
    BY <1>11, <1>13, WordAssumption DEF Counted, Value
  <2>4. reg'["bx"] = call'.args[1][1]
    BY <1>10, <1>12 DEF hf
  <2>5. served'.answers = 0 /\ served'.bytes = 0
    BY <2>2
  <2>6. /\ <<reg'["dx"], reg'["cx"], reg'["si"]>> = LoopWords(served.answers, reg["dx"])'
        /\ Counted(served.answers, reg["dx"], served.bytes)' /\ reg'["dx"] \in Numbers
    BY <1>11, <1>12, <2>1, <2>3, <2>5 DEF LoopWords, Counted
  <2>7. served'.answers <= Len(call'.list)
    BY <1>3, <1>10, <2>5
  <2>8. QED
    BY <1>10, <2>4, <2>6, <2>7 DEF WritevInv
<1>18. QED
  BY <1>14, <1>15, <1>16, <1>17 DEF IInv

\* The iovec at si is the one of the next buffer, and OS/2 is asked to write it.
LEMMA WritevLoopStep == ASSUME IInv, WritevLoop PROVE IInv'
<1> DEFINE a == served.answers
           iovec == call.list[a + 1]
           hf == call.args[1][1]
<1>1. step = "loop" /\ Value(reg["cx"]) # 0 /\ handler = "writev"
  BY DEF WritevLoop, IInv, StackInv
<1>2. /\ FoundInv /\ HandlerInv /\ SyscallTypeOK /\ WritevInv /\ stack = Working
      /\ served \in [answers : Nat, bytes : Nat, failed : BOOLEAN] /\ a \in Nat
      /\ reg \in [Regs -> Words]
  BY <1>1 DEF IInv, StackInv, SyscallTypeOK
<1>21. reg["dx"] \in Numbers
  BY <1>1, <1>2 DEF WritevInv
<1>22. PICK dx \in Numbers : dx = reg["dx"]
  BY <1>21
<1>3. /\ <<dx, reg["cx"], reg["si"]>> = LoopWords(a, dx) /\ reg["bx"] = hf
      /\ a <= Len(call.list)
      /\ Counted(a, dx, served.bytes)
  BY <1>1, <1>2, <1>22 DEF WritevInv
<1>4. call.list \in Seq(Iovecs) /\ Len(call.list) \in Nat
  BY <1>1, <1>2, HandlerFacts, LenProperties
<1>5. a \in 0 .. Len(call.list)
  BY <1>2, <1>3, <1>4
<1>6. a < Len(call.list)
  <2>1. reg["cx"] = Number(Len(call.list) - a)
    BY <1>3 DEF LoopWords
  <2>2. Number(0) = <<"number", 0>>
    <3>1. 0 \in Int /\ 0 \in 0 .. W - 1
      BY WordAssumption
    <3>2. QED
      BY ONLY <3>1, WordFacts
  <2>3. a # Len(call.list)
    <3>1. SUFFICES ASSUME a = Len(call.list) PROVE FALSE
      OBVIOUS
    <3>2. Len(call.list) - a = 0
      BY <1>4, <3>1
    <3>3. QED
      BY <1>1, <2>1, <2>2, <3>2 DEF Value
  <2>4. QED
    BY <1>5, <1>4, <2>3
<1>7. Iovec = iovec
  <2>1. (8 * a) % W = 8 * a
    BY <1>1, <1>2, <1>5, <1>6, FewBuffers
  <2>2. Value(reg["si"]) = 8 * a
    BY <1>3, <2>1 DEF LoopWords, Word, Value
  <2>3. (8 * a) \div 8 + 1 = a + 1 /\ a + 1 <= Len(call.list)
    BY <1>2, <1>4, <1>6
  <2>4. QED
    BY <2>2, <2>3 DEF Iovec
<1>8. iovec \in Iovecs
  <2>1. a + 1 \in 1 .. Len(call.list)
    BY <1>2, <1>4, <1>6
  <2>2. QED
    BY <1>4, <2>1, ElementOfSeq
<1>9. iovec.off \in Words /\ iovec.sel \in Words /\ iovec.len \in Words
  BY <1>8, WordFacts DEF Iovecs, Numbers
<1>10. hf \in Words
  BY <1>2, <1>3 DEF Regs
<1> DEFINE asked == WriteArgs(hf, iovec.sel, iovec.off, iovec.len, Places["wlen"])
<1>11. /\ stack' = Working \o (LoopWords(a, dx) \o asked) /\ step' = "dos"
       /\ reg' = [reg EXCEPT !["ax"] = iovec.off, !["dx"] = iovec.sel, !["cx"] = iovec.len]
       /\ UNCHANGED <<bp, cell, handler, call, found, served, made>>
  <2> HIDE DEF iovec, hf, a
  <2>1. /\ stack' = stack \o (<<reg["dx"], reg["cx"], reg["si"]>> \o
               WriteArgs(reg["bx"], Iovec.sel, Iovec.off, Iovec.len, Places["wlen"]))
        /\ reg' = [reg EXCEPT !["ax"] = Iovec.off, !["dx"] = Iovec.sel, !["cx"] = Iovec.len]
        /\ step' = "dos"
        /\ UNCHANGED <<bp, cell, handler, call, found, served, made>>
    BY DEF WritevLoop, CallDos
  <2>2. <<reg["dx"], reg["cx"], reg["si"]>> = LoopWords(a, dx)
    BY <1>3, <1>22
  <2>3. QED
    BY <1>2, <1>3, <1>7, <2>1, <2>2
<1>12. asked \in Seq(Words) /\ asked = Request'
  <2>1. Places["wlen"] = <<Ds, Word("wlen", 0)>>
    BY DEF Places
  <2>2. asked = <<hf, iovec.sel, iovec.off, iovec.len, Ds, Word("wlen", 0)>>
    BY <2>1, SixWords DEF WriteArgs
  <2>3. asked \in Seq(Words)
    <3> HIDE DEF iovec, hf
    <3>1. <<hf, iovec.sel, iovec.off, iovec.len, Ds, Word("wlen", 0)>> \in Seq(Words)
      BY ONLY <1>9, <1>10, ProgramWords
    <3>2. QED
      BY ONLY <2>2, <3>1
  <2>4. asked = Request'
    BY <1>1, <1>11 DEF Request, WriteArgs
  <2>5. QED
    BY <2>3, <2>4
<1>13. Working \in Seq(Words) /\ LoopWords(a, dx) \in Seq(Words)
       /\ Working \o LoopWords(a, dx) \in Seq(Words)
  BY <1>1, <1>2, <1>3, LoopFacts, SavedFacts
<1> HIDE DEF asked, iovec, hf
<1>14. stack' = (Working \o LoopWords(a, dx)) \o asked
  <2> DEFINE l == LoopWords(a, dx)
  <2>1. l \in Seq(Words) /\ stack' = Working \o (l \o asked)
    BY <1>11, <1>13
  <2> HIDE DEF l
  <2>2. stack' = (Working \o l) \o asked
    BY <1>12, <1>13, <2>1, Reassociated
  <2>3. QED
    BY <2>2 DEF l
<1>15. stack' \in Seq(Words)
  <2> DEFINE l == Working \o LoopWords(a, dx)
  <2>1. l \in Seq(Words) /\ stack' = l \o asked
    BY <1>13, <1>14
  <2> HIDE DEF l
  <2>2. QED
    BY <1>12, <2>1, Concatenated
<1>16. reg' \in [Regs -> Words] /\ reg'["bx"] = reg["bx"]
  BY <1>2, <1>9, <1>11 DEF Regs
<1>17. SyscallTypeOK'
  BY <1>2, <1>11, <1>15, <1>16 DEF SyscallTypeOK, Steps
<1>18. FoundInv' /\ HandlerInv' /\ RegsInv' /\ AnswersInv' /\ StackInv'
  BY <1>1, <1>2, <1>11 DEF FoundInv, HandlerInv, RegsInv, AnswersInv, ResultsRight, StackInv
<1>19. WritevInv'
  <2>1. Working' = Working
    BY <1>11, SameFrame
  <2>2. LoopWords(served.answers, dx)' = LoopWords(a, dx)
    BY <1>11 DEF LoopWords
  <2>3. Counted(served.answers, dx, served.bytes)'
    BY <1>3, <1>11 DEF Counted
  <2>4. stack' = Working' \o LoopWords(served.answers, dx)' \o Request'
    BY <1>12, <1>14, <2>1, <2>2
  <2>5. reg'["bx"] = call'.args[1][1] /\ served'.answers < Len(call'.list)
    BY <1>3, <1>6, <1>11, <1>16 DEF hf
  <2>6. served'.answers <= Len(call'.list)
    BY <1>3, <1>11
  <2>7. QED
    BY <1>11, <2>3, <2>4, <2>5, <2>6 DEF WritevInv
<1>20. QED
  BY <1>17, <1>18, <1>19 DEF IInv

\* The sum of two words is a word and a carry.
LEMMA SumAndCarry ==
  ASSUME NEW x \in 0 .. W - 1, NEW y \in 0 .. W - 1
  PROVE  /\ x + y \in Int
         /\ ((x + y) % W) + W * (IF x + y >= W THEN 1 ELSE 0) = x + y
<1>1. W \in Nat /\ W >= 76
  BY WordAssumption
<1>2. CASE x + y >= W
  <2>1. (x + y) % W = x + y - W
    BY <1>1, <1>2
  <2>2. QED
    BY <1>1, <1>2, <2>1
<1>3. CASE ~(x + y >= W)
  <2>1. (x + y) % W = x + y
    BY <1>1, <1>3
  <2>2. QED
    BY <1>1, <1>3, <2>1
<1>4. QED
  BY <1>2, <1>3

\* The bytes written are added, the carry goes on, and the next buffer is the next.
LEMMA WritevAddStep == ASSUME IInv, WritevAdd PROVE IInv'
<1> DEFINE a == served.answers
           hi == Value(cell["totalHi"])
           written == Value(cell["wlen"])
<1>1. step = "back" /\ handler = "writev"
  BY DEF WritevAdd
<1>2. /\ FoundInv /\ HandlerInv /\ SyscallTypeOK /\ WritevInv
      /\ served \in [answers : Nat, bytes : Nat, failed : BOOLEAN] /\ a \in Nat
      /\ served.bytes \in Nat
      /\ reg \in [Regs -> Words] /\ cell \in [Cells -> Words]
      /\ cell["wlen"] \in Numbers /\ cell["totalHi"] \in Numbers
  BY <1>1 DEF IInv, SyscallTypeOK, Numbers
<1>3. PICK dx \in Numbers :
        /\ a >= 1 /\ stack = Working \o LoopWords(a - 1, dx)
        /\ reg["bx"] = call.args[1][1]
        /\ Counted(a - 1, dx, served.bytes - Value(cell["wlen"]))
  BY <1>1, <1>2 DEF WritevInv
<1>4. call.list \in Seq(Iovecs) /\ Len(call.list) \in Nat /\ W \in Nat /\ W >= 76
      /\ a <= Len(call.list)
  BY <1>1, <1>2, HandlerFacts, LenProperties, WordAssumption DEF WritevInv
<1> DEFINE n == a - 1
           l == LoopWords(n, dx)
<1>5. n \in 0 .. Len(call.list) /\ n < Len(call.list) /\ n + 1 = a /\ n \in Int
  BY <1>2, <1>3, <1>4
<1>6. /\ l \in Seq(Words) /\ Len(l) = 3 /\ Working \o l \in Seq(Words) /\ Working \in Seq(Words)
      /\ l[1] = dx /\ l[2] = Number(Len(call.list) - n)
      /\ l[3] = Word(call.args[2][1][1], (8 * n) % W)
  BY <1>1, <1>2, <1>5, LoopFacts, SavedFacts
<1>7. /\ (8 * n) % W = 8 * n /\ a \in 0 .. W - 1 /\ Len(call.list) < W
      /\ (8 * n + 8) % W = (8 * a) % W
  <2>1. (8 * n) % W = 8 * n /\ n + 1 \in 0 .. W - 1 /\ Len(call.list) < W
    BY <1>1, <1>2, <1>5, FewBuffers
  <2>2. 8 * n + 8 = 8 * a
    BY <1>2, <1>5
  <2>3. QED
    BY <1>5, <2>1, <2>2
<1> HIDE DEF l, n
<1>8. Top(2) = l[1] /\ Top(1) = l[2] /\ Top(0) = l[3] /\ Popped(3) = Working
  <2>1. stack = Working \o l
    BY <1>3 DEF l, n
  <2>2. /\ \A k \in 0 .. Len(l) - 1 : stack[Len(stack) - k] = l[Len(l) - k]
        /\ SubSeq(stack, 1, Len(stack) - Len(l)) = Working
    BY ONLY <1>6, <2>1, Concatenated, PutAndTaken
  <2>3. /\ 0 \in 0 .. Len(l) - 1 /\ 1 \in 0 .. Len(l) - 1 /\ 2 \in 0 .. Len(l) - 1
        /\ Len(l) - 0 = 3 /\ Len(l) - 1 = 2 /\ Len(l) - 2 = 1
    BY <1>6
  <2>4. QED
    BY <1>6, <2>2, <2>3 DEF Top, Popped
<1> DEFINE kind == call.args[2][1][1]
           sum == Value(dx) + written
           carry == IF sum >= W THEN 1 ELSE 0
           si == Word(kind, (8 * a) % W)
           cx == Number(Len(call.list) - a)
<1>9. /\ Value(dx) \in 0 .. W - 1 /\ written \in 0 .. W - 1 /\ hi \in 0 .. W - 1
      /\ hi <= n /\ (~served.failed => Value(dx) + W * hi = served.bytes - written)
  BY <1>2, <1>3, <1>5 DEF Numbers, Value, Counted, n
<1>10. /\ cell["wlen"] \in Words /\ si \in Words /\ cx \in Words
       /\ Number(sum) \in Numbers /\ Number(sum) \in Words /\ Value(Number(sum)) = sum % W
       /\ Number(hi + carry) \in Numbers /\ Number(hi + carry) \in Words
       /\ Number(hi + carry) = <<"number", hi + carry>>
  <2>1. cell["wlen"] \in Words
    BY <1>2 DEF Cells
  <2>2. call.args[2][1] \in Words
    <3>1. 2 \in 1 .. Len(call.args)
      BY <1>1, <1>2, HandlerFacts
    <3>2. call.args[2] \in Words \X Words
      BY <1>1, <1>2, <3>1, Frames, CallFacts
    <3>3. QED
      BY <3>2
  <2>3. 8 * a \in Int /\ Len(call.list) - a \in Int /\ sum \in Int
    BY <1>2, <1>4, <1>9
  <2>4. hi + carry \in 0 .. W - 1 /\ hi + carry \in Int
    <3>1. carry \in {0, 1} /\ hi \in 0 .. W - 1 /\ hi <= n
      BY <1>9
    <3> HIDE DEF hi, carry, a
    <3>2. QED
      BY ONLY <1>4, <1>5, <1>7, <3>1
  <2> HIDE DEF sum, carry, hi
  <2>5. si \in Words /\ cx \in Words
    BY ONLY <2>2, <2>3, WordFacts
  <2>6. Number(sum) \in Numbers /\ Number(hi + carry) \in Numbers
        /\ Number(hi + carry) = <<"number", hi + carry>> /\ Numbers \subseteq Words
    BY ONLY <2>3, <2>4, WordFacts
  <2>7. Value(Number(sum)) = sum % W
    BY DEF Value, Number, Word
  <2>8. QED
    BY <2>1, <2>5, <2>6, <2>7
<1>11. /\ stack' = Working /\ step' = "loop"
       /\ reg' = [reg EXCEPT !["ax"] = cell["wlen"], !["si"] = si, !["cx"] = cx,
                             !["dx"] = Number(sum)]
       /\ cell' = [cell EXCEPT !["totalHi"] = Number(hi + carry)]
       /\ UNCHANGED <<bp, handler, call, found, served, made>>
  <2>1. Word(Top(0)[1], (Value(Top(0)) + 8) % W) = si
    BY <1>6, <1>7, <1>8 DEF Word, Value
  <2>2. Number(Value(Top(1)) - 1) = cx
    <3>1. /\ Len(call.list) - n \in 0 .. W - 1 /\ Len(call.list) - n \in Int
          /\ Len(call.list) - n - 1 = Len(call.list) - a
      BY <1>2, <1>4, <1>5, <1>7, SMTT(30)
    <3>2. Number(Len(call.list) - n) = <<"number", Len(call.list) - n>>
      BY ONLY <3>1, WordFacts
    <3>3. Value(Top(1)) = Len(call.list) - n
      BY <1>6, <1>8, <3>2 DEF Value
    <3>4. QED
      BY <3>1, <3>3
  <2>3. Value(Top(2)) + Value(cell["wlen"]) = sum
    BY <1>6, <1>8
  <2> HIDE DEF si, cx, sum
  <2>4. QED
    BY <1>8, <2>1, <2>2, <2>3 DEF WritevAdd
<1> HIDE DEF si, cx
<1>12. /\ reg' \in [Regs -> Words] /\ reg'["bx"] = reg["bx"]
       /\ reg'["si"] = si /\ reg'["cx"] = cx /\ reg'["dx"] = Number(sum)
  BY <1>2, <1>10, <1>11 DEF Regs
<1>13. /\ cell' \in [Cells -> Words] /\ cell'["wlen"] = cell["wlen"]
       /\ cell'["totalHi"] = Number(hi + carry)
  BY <1>2, <1>10, <1>11 DEF Cells
<1>14. SyscallTypeOK'
  <2>1. cx \in {"number"} \X (0 .. Len(call.list))
    <3>1. Len(call.list) - a \in 0 .. Len(call.list) /\ Len(call.list) < W
      BY <1>2, <1>4, <1>7
    <3>2. QED
      BY <1>4, <3>1, BuffersLeft DEF cx
  <2>2. reg'["dx"] \in {"number"} \X (0 .. W - 1)
    BY <1>10, <1>12 DEF Numbers
  <2>3. reg'["cx"] \in {"number"} \X (0 .. Len(call'.list))
    BY <1>11, <1>12, <2>1
  <2>4. QED
    BY <1>2, <1>6, <1>10, <1>11, <1>12, <1>13, <2>2, <2>3 DEF SyscallTypeOK, Steps, Numbers
<1>15. FoundInv' /\ HandlerInv' /\ RegsInv' /\ AnswersInv'
  BY <1>1, <1>2, <1>11 DEF FoundInv, HandlerInv, RegsInv, AnswersInv, ResultsRight
<1>16. StackInv'
  BY <1>1, <1>11, SameFrame DEF StackInv
<1>17. WritevInv'
  <2>1. LoopWords(served.answers, reg["dx"])' = <<Number(sum), cx, si>>
    BY <1>11, <1>12 DEF LoopWords, cx, si
  <2>2. Counted(served.answers, reg["dx"], served.bytes)'
    <3>1. Value(cell'["totalHi"]) = hi + carry
      BY <1>10, <1>13 DEF Value
    <3>2. hi + carry <= a
      BY <1>2, <1>5, <1>9
    <3>3. ~served.failed => Value(Number(sum)) + W * (hi + carry) = served.bytes
      <4>1. (sum % W) + W * carry = sum
        BY <1>9, SumAndCarry
      <4>2. W * (hi + carry) = W * hi + W * carry
        BY <1>4, <1>9
      <4>3. sum % W \in Int /\ W * hi \in Int /\ W * carry \in Int /\ sum = Value(dx) + written
        BY <1>4, <1>9
      <4> HIDE DEF sum, carry
      <4>4. QED
        BY <1>2, <1>9, <1>10, <4>1, <4>2, <4>3
    <3>4. QED
      BY <1>11, <1>12, <3>1, <3>2, <3>3 DEF Counted
  <2>3. reg'["dx"] \in Numbers /\ reg'["bx"] = call'.args[1][1]
    BY <1>3, <1>10, <1>11, <1>12
  <2>4. served'.answers <= Len(call'.list)
    BY <1>4, <1>11
  <2>5. QED
    BY <1>11, <1>12, <2>1, <2>2, <2>3, <2>4 DEF WritevInv
<1>18. QED
  BY <1>14, <1>15, <1>16, <1>17 DEF IInv

-----------------------------------------------------------------------------
(* The theorems *)

LEMMA StutterStep == ASSUME IInv, UNCHANGED vars PROVE IInv'
<1> USE DEF vars
<1>1. SyscallTypeOK' /\ FoundInv' /\ HandlerInv' /\ RegsInv'
  BY DEF IInv, SyscallTypeOK, FoundInv, HandlerInv, RegsInv
<1>2. Working' = Working /\ CallersStack' = CallersStack /\ Entered' = Entered /\ Framed' = Framed
  BY SameFrame
<1>3. Request' = Request
  BY DEF Request
<1>4. StackInv'
  BY <1>2, <1>3 DEF IInv, StackInv
<1>5. WritevInv'
  BY <1>2, <1>3 DEF IInv, WritevInv, LoopWords, Counted
<1>6. AnswersInv'
  BY DEF IInv, AnswersInv, ResultsRight, Result
<1>7. QED
  BY <1>1, <1>4, <1>5, <1>6 DEF IInv

\* Every step of the layer, of its caller and of OS/2 preserves the invariant.
LEMMA NextIInv == IInv /\ [Next]_vars => IInv'
<1> SUFFICES ASSUME IInv, [Next]_vars PROVE IInv'
  OBVIOUS
<1>1. ASSUME NEW c \in Calls, Call(c) PROVE IInv'
  BY <1>1, CallStep
<1>2. CASE Dispatch
  BY <1>2, DispatchStep
<1>3. CASE Answer
  BY <1>3, AnswerStep
<1>4. CASE Resume
  BY <1>4, ResumeStep
<1>5. CASE DosWrite
  BY <1>5, DosWriteStep
<1>6. CASE DosRead
  BY <1>6, DosReadStep
<1>7. CASE DosClose
  BY <1>7, DosCloseStep
<1>8. CASE DosExit
  BY <1>8, DosExitStep
<1>9. CASE Transfer
  BY <1>9, TransferStep
<1>10. CASE TransferReturns
  BY <1>10, TransferReturnsStep
<1>11. CASE BeginWritev
  BY <1>11, BeginWritevStep
<1>12. CASE WritevLoop
  BY <1>12, WritevLoopStep
<1>13. CASE WritevAdd
  BY <1>13, WritevAddStep
<1>14. CASE WritevDone
  BY <1>14, WritevDoneStep
<1>15. CASE Close
  BY <1>15, CloseStep
<1>16. CASE CloseReturns
  BY <1>16, CloseReturnsStep
<1>17. CASE ExitProcess
  BY <1>17, ExitProcessStep
<1>18. CASE PrintNum
  BY <1>18, PrintNumStep
<1>19. CASE PrintNumReturns
  BY <1>19, PrintNumReturnsStep
<1>20. CASE Stopped \/ UNCHANGED vars
  BY <1>20, StutterStep DEF Stopped
<1>21. QED
  BY <1>1, <1>2, <1>3, <1>4, <1>5, <1>6, <1>7, <1>8, <1>9, <1>10, <1>11, <1>12, <1>13,
     <1>14, <1>15, <1>16, <1>17, <1>18, <1>19, <1>20 DEF Next

LEMMA Invariance == Spec => []IInv
BY InitIInv, NextIInv, PTL DEF Spec

\* The state of the layer has its types: the registers and the cells hold words, what
\* is calculated with holds numbers of a word, the stack nothing but words, and writev
\* has no more buffers left than it was given.
THEOREM SyscallTypesOK == Spec => []SyscallTypeOK
<1>1. IInv => SyscallTypeOK
  BY DEF IInv
<1>2. QED
  BY <1>1, Invariance, PTL

\* Whatever the entry and the handler, for any number of longs and buffers, OS/2 finds
\* on the top of the stack what the program asked for, in the order OS/2 wants.
THEOREM DosGetsWhatIsAsked == Spec => []DosGetsRequest
<1>1. ASSUME IInv PROVE DosGetsRequest
  <2> SUFFICES ASSUME step = "dos", handler # "read" PROVE Asked(Len(Request)) = Request
    BY DEF DosGetsRequest
  <2>1. FoundInv /\ HandlerInv /\ SyscallTypeOK /\ StackInv /\ WritevInv
    BY <1>1 DEF IInv
  <2>2. handler \notin {"none", "ioctl", "getpid"}
    BY <2>1 DEF StackInv
  <2>3. handler = "writev" => served.answers < Len(call.list)
    BY <2>1 DEF WritevInv
  <2>4. Request \in Seq(Words)
    BY <2>1, <2>2, <2>3, HandlerFacts, RequestFacts
  <2>5. Working \in Seq(Words)
    BY <2>1, SavedFacts
  <2>6. \E below \in Seq(Words) : stack = below \o Request
    <3>1. CASE handler = "writev"
      <4>1. PICK dx \in Numbers : stack = Working \o LoopWords(served.answers, dx) \o Request
        BY <2>1, <3>1 DEF WritevInv
      <4>2. Working \o LoopWords(served.answers, dx) \in Seq(Words)
        BY <2>1, <3>1, LoopFacts DEF SyscallTypeOK
      <4>3. QED
        BY <4>1, <4>2
    <3>2. CASE handler # "writev"
      BY <2>1, <2>5, <3>2 DEF StackInv
    <3>3. QED
      BY <3>1, <3>2
  <2>7. PICK below \in Seq(Words) : stack = below \o Request
    BY <2>6
  <2>8. QED
    BY <2>4, <2>7, TopOfStack DEF Asked
<1>2. QED
  BY <1>1, Invariance, PTL

\* A write or a writev returns the number of bytes OS/2 accepted, though it is counted
\* in two words and buffer by buffer, provided that no part of it failed.
THEOREM ReturnsBytesAccepted == Spec => []ResultsRight
<1>1. IInv => ResultsRight
  BY DEF IInv, AnswersInv
<1>2. QED
  BY <1>1, Invariance, PTL

\* Every call leaves the caller with its stack, its frame and its registers.
THEOREM CallerFindsItsOwn == Spec => CallerKept
<1> DEFINE Kept == step = "return" /\ step' = "user" =>
                     /\ stack' = found.stack /\ bp' = found.bp
                     /\ \A r \in {"bx", "si", "di"} : reg'[r] = found.reg[r]
<1>1. ASSUME IInv, [Next]_vars PROVE [Kept]_vars
  <2> SUFFICES ASSUME step = "return", step' = "user" PROVE Kept
    OBVIOUS
  <2>1. Resume
    BY <1>1 DEF Next, Call, Dispatch, Answer, LeaveWith, CallDos, DosReturns, DosWrite, DosRead,
       DosClose, DosExit, Transfer, TransferReturns, BeginWritev, WritevLoop, WritevAdd,
       WritevDone, Close, CloseReturns, ExitProcess, PrintNum, PrintNumReturns, Stopped, vars
  <2>2. stack' = found.stack
    BY <1>1, <2>1, Resumed
  <2>3. bp = found.bp /\ \A r \in {"bx", "si", "di"} : reg[r] = found.reg[r]
    BY <1>1 DEF IInv, StackInv, RegsInv
  <2>4. QED
    BY <2>1, <2>2, <2>3 DEF Resume
<1>2. QED
  BY <1>1, Invariance, PTL DEF Spec, CallerKept
=============================================================================
