-------------------------- MODULE CallFrameProofs --------------------------
(***************************************************************************)
(* Machine-checked proofs about CallFrame, for programs of any calls whose *)
(* sizes agree and a stack of any size that is large enough.  They rest on *)
(* one inductive invariant, IInv: where every active function has its      *)
(* frame and its parameters, and how far the innermost one has come.       *)
(***************************************************************************)
EXTENDS CallFrame, NaturalSets, SequenceTheorems, TLAPS

\* The room of a call and of the frame of its callee.
Room == CHOOSE room \in 0 .. Top : Suffices(room)

-----------------------------------------------------------------------------
(* The inductive invariant *)

\* The bytes of the arguments in front of the k-th.
Sizes(call) == [i \in 1 .. Len(call.args) |-> BytesPushed(call, i)]
Before(call, k) == Sums(Sizes(call))[k - 1]

\* The end of the frame of an active function.
Bottom(i) == Base(i) - SavedRegs - FrameSize

\* The words of an argument, wide or not, from an address on.
HoldsArg(a, call, k, words) ==
  call.args[k] # "float" =>
    /\ mem[a] = words[1]
    /\ BytesPushed(call, k) = 4 => mem[a + 2] = words[2]

\* Where a function has been entered, by whom and with what.
Entered(i) ==
  /\ acts[i].entry >= (MaxDepth - i + 1) * Room /\ acts[i].entry <= Top - 4
  /\ IF i = 1 THEN acts[i].entry = Top - 4 /\ acts[i].call = Main /\ acts[i].found.bp = Top
     ELSE LET now == acts[i - 1].now
          IN /\ acts[i].entry = Bottom(i - 1) - StackBytes(now.call) - 4
             /\ acts[i].call = now.call /\ acts[i].args = now.args
             /\ now.call \in Calls
             /\ acts[i].found.bp = Base(i - 1)
  /\ mem[acts[i].entry] = Word("ip", IF i = 1 THEN 0 ELSE acts[i - 1].now.ip, 0)
  /\ \A k \in 1 .. Len(acts[i].call.args) :
       HoldsArg(acts[i].entry + 4 + Before(acts[i].call, k), acts[i].call, k, acts[i].args[k])

\* What its prologue has saved.
Saved(i) ==
  /\ mem[Base(i)] = Address(acts[i].found.bp)
  /\ mem[Base(i) - 2] = acts[i].found.reg["bx"]
  /\ mem[Base(i) - 4] = acts[i].found.reg["si"]
  /\ mem[Base(i) - 6] = acts[i].found.reg["di"]

\* What it has put into its frame.
Filled(i) == acts[i].cells \in [FrameOffsets -> Words]
Kept(i) == \A o \in DOMAIN acts[i].cells : mem[Base(i) + o] = acts[i].cells[o]

FramesInv ==
  \A i \in 1 .. Depth :
    /\ Entered(i) /\ Kept(i)
    /\ i < Depth \/ step # "enter" => Saved(i)
    /\ i < Depth \/ step \notin {"enter", "work"} => Filled(i)

\* The frames are below each other.
OrderInv ==
  \A i, j \in 1 .. Depth : i < j => acts[j].entry <= acts[i].entry - 20

\* The arguments pushed, and those to come.
PushedInv ==
  LET call == Now.call
      below == Bottom(Depth) - StackBytes(call)
  IN /\ call \in Calls /\ Depth < MaxDepth
     /\ Now.next \in 0 .. Len(call.args)
     /\ Len(Now.args) = Len(call.args)
     /\ sp = below + Before(call, Now.next + 1)
     /\ \A k \in Now.next + 1 .. Len(call.args) :
          HoldsArg(below + Before(call, k), call, k, Now.args[k])
     /\ \A k \in 1 .. Now.next : call.args[k] # "float" =>
          WordsOf(call.args[k], k, <<mem[bp + Local], mem[bp + Local + 2]>>) = Now.args[k]

StepInv ==
  /\ step \in {"enter", "work", "body", "push", "clean", "keep"} => Depth >= 1
  /\ step = "enter" =>
       /\ sp = acts[Depth].entry /\ bp = acts[Depth].found.bp /\ reg = acts[Depth].found.reg
       /\ acts[Depth].cells \in [{} -> Words]
  /\ step \in {"work", "body", "push", "clean", "keep"} => bp = Base(Depth)
  /\ step = "work" => acts[Depth].cells \in [{} -> Words]
  /\ step \in {"work", "body", "keep"} => sp = Bottom(Depth)
  /\ step = "push" => PushedInv
  /\ step = "clean" => Now.call \in Calls /\ sp = Bottom(Depth) - StackBytes(Now.call)
  /\ step = "keep" => Now.call.res # 0
  /\ step \in {"clean", "keep"} =>
       /\ Now.call.res # 0 => reg["ax"] = returned[1]
       /\ Now.call.res = 32 => reg["dx"] = returned[2]
  /\ step = "exit" => Depth = 0 /\ sp = Top
  /\ step = "exited" => Depth = 0
  /\ step # "astray"

IInv == CallTypeOK /\ FramesInv /\ OrderInv /\ StepInv

-----------------------------------------------------------------------------
(* Sums of sizes *)

LEMMA SumsDefined ==
  ASSUME NEW sizes \in Seq(Int)
  PROVE  /\ Sums(sizes)[0] = 0
         /\ \A n \in 1 .. Len(sizes) : Sums(sizes)[n] = Sums(sizes)[n - 1] + sizes[n]
<1> DEFINE L == Len(sizes)
           Is(f, n) == f = [i \in 0 .. n |-> IF i = 0 THEN 0 ELSE f[i - 1] + sizes[i]]
           S == {n \in Nat : n <= L => \E f : Is(f, n) /\ \A i \in 0 .. n : f[i] \in Int}
<1>1. L \in Nat /\ \A i \in 1 .. L : sizes[i] \in Int
  BY LenProperties, ElementOfSeq
<1>2. 0 \in S
  <2> DEFINE f == [i \in 0 .. 0 |-> 0]
  <2>1. f = [i \in 0 .. 0 |-> IF i = 0 THEN 0 ELSE f[i - 1] + sizes[i]]
    OBVIOUS
  <2>2. Is(f, 0) /\ \A i \in 0 .. 0 : f[i] \in Int
    BY <2>1
  <2>3. QED
    BY <2>2
<1>3. ASSUME NEW n \in S PROVE n + 1 \in S
  <2> HIDE DEF L
  <2>1. n \in Nat
    BY DEF S
  <2>2. SUFFICES ASSUME n + 1 <= L PROVE \E f : Is(f, n + 1) /\ \A i \in 0 .. n + 1 : f[i] \in Int
    BY <2>1 DEF S
  <2>3. PICK f : Is(f, n) /\ \A i \in 0 .. n : f[i] \in Int
    BY <1>1, <2>1, <2>2 DEF S
  <2> DEFINE g == [i \in 0 .. n + 1 |-> IF i <= n THEN f[i] ELSE f[n] + sizes[n + 1]]
  <2>4. \A i \in 0 .. n : f[i] = IF i = 0 THEN 0 ELSE f[i - 1] + sizes[i]
    BY <2>3
  <2>5. sizes[n + 1] \in Int
    BY <1>1, <2>1, <2>2
  <2>6. \A i \in 0 .. n + 1 : g[i] \in Int
    BY <2>1, <2>3, <2>5
  <2>7. ASSUME NEW i \in 0 .. n + 1
        PROVE  g[i] = IF i = 0 THEN 0 ELSE g[i - 1] + sizes[i]
    <3>1. CASE i <= n
      BY <2>1, <2>4, <3>1
    <3>2. CASE i = n + 1
      BY <2>1, <3>2
    <3>3. QED
      BY <2>1, <3>1, <3>2
  <2>8. Is(g, n + 1)
    BY <2>7
  <2>9. QED
    BY <2>6, <2>8
<1>4. S = Nat
  <2>1. S \in SUBSET Nat
    OBVIOUS
  <2> HIDE DEF S
  <2>2. QED
    BY <1>2, <1>3, <2>1, NatInductive
<1>5. \E f : Is(f, L)
  BY <1>1, <1>4
<1>6. Sums(sizes) = CHOOSE f : Is(f, L)
  BY DEF Sums
<1>7. Is(Sums(sizes), L)
  <2> HIDE DEF Is
  <2>1. QED
    BY <1>5, <1>6
<1>8. \A n \in 0 .. L : Sums(sizes)[n] = IF n = 0 THEN 0 ELSE Sums(sizes)[n - 1] + sizes[n]
  BY <1>7
<1>9. QED
  BY <1>1, <1>8

\* Sums of the same sizes are the same, however many follow.
LEMMA SumsAgree ==
  ASSUME NEW s \in Seq(Int), NEW t \in Seq(Int), NEW n \in Nat, n <= Len(s), n <= Len(t),
         \A i \in 1 .. n : s[i] = t[i]
  PROVE  Sums(s)[n] = Sums(t)[n]
<1> DEFINE S == {m \in Nat : m <= n => Sums(s)[m] = Sums(t)[m]}
<1>1. Len(s) \in Nat /\ Len(t) \in Nat
  BY LenProperties
<1>2. 0 \in S
  BY SumsDefined
<1>3. ASSUME NEW m \in S PROVE m + 1 \in S
  <2>1. m \in Nat
    OBVIOUS
  <2>2. SUFFICES ASSUME m + 1 <= n PROVE Sums(s)[m + 1] = Sums(t)[m + 1]
    BY <2>1
  <2>3. m + 1 \in 1 .. Len(s) /\ m + 1 \in 1 .. Len(t) /\ m + 1 \in 1 .. n /\ (m + 1) - 1 = m
    BY <1>1, <2>1, <2>2
  <2>4. Sums(s)[m] = Sums(t)[m]
    BY <2>1, <2>2
  <2>5. /\ Sums(s)[m + 1] = Sums(s)[(m + 1) - 1] + s[m + 1]
        /\ Sums(t)[m + 1] = Sums(t)[(m + 1) - 1] + t[m + 1]
    BY <2>3, SumsDefined
  <2>6. QED
    BY <2>3, <2>4, <2>5
<1>4. S = Nat
  <2>1. S \in SUBSET Nat
    OBVIOUS
  <2> HIDE DEF S
  <2>2. QED
    BY <1>2, <1>3, <2>1, NatInductive
<1>5. QED
  BY <1>4

\* Words and pairs of them: the sums are even and grow.
LEMMA SumsGrow ==
  ASSUME NEW sizes \in Seq({2, 4})
  PROVE  /\ \A n \in 0 .. Len(sizes) : Sums(sizes)[n] \in Nat /\ Sums(sizes)[n] % 2 = 0
         /\ \A m, n \in 0 .. Len(sizes) : m <= n => Sums(sizes)[m] <= Sums(sizes)[n]
<1> DEFINE L == Len(sizes)
           f == Sums(sizes)
           S == {n \in Nat : n <= L =>
                   /\ f[n] \in Nat /\ f[n] % 2 = 0
                   /\ \A m \in 0 .. n : f[m] \in Nat /\ f[m] <= f[n]}
<1>1. L \in Nat /\ \A i \in 1 .. L : sizes[i] \in {2, 4}
  BY LenProperties, ElementOfSeq
<1>2. f[0] = 0 /\ \A n \in 1 .. L : f[n] = f[n - 1] + sizes[n]
  <2>1. sizes \in Seq(Int)
    OBVIOUS
  <2>2. QED
    BY <2>1, SumsDefined
<1> HIDE DEF L, f
<1>3. 0 \in S
  BY <1>2
<1>4. ASSUME NEW n \in S PROVE n + 1 \in S
  <2>1. n \in Nat
    OBVIOUS
  <2>2. SUFFICES ASSUME n + 1 <= L
                 PROVE  /\ f[n + 1] \in Nat /\ f[n + 1] % 2 = 0
                        /\ \A m \in 0 .. n + 1 : f[m] \in Nat /\ f[m] <= f[n + 1]
    BY <2>1
  <2>3. f[n] \in Nat /\ f[n] % 2 = 0 /\ \A m \in 0 .. n : f[m] \in Nat /\ f[m] <= f[n]
    BY <1>1, <2>1, <2>2
  <2>4. f[n + 1] = f[n] + sizes[n + 1] /\ sizes[n + 1] \in {2, 4}
    BY <1>1, <1>2, <2>1, <2>2
  <2>5. f[n + 1] \in Nat /\ f[n + 1] % 2 = 0 /\ f[n] <= f[n + 1]
    BY <2>3, <2>4
  <2>6. ASSUME NEW m \in 0 .. n + 1 PROVE f[m] \in Nat /\ f[m] <= f[n + 1]
    <3>1. CASE m = n + 1
      BY <2>5, <3>1
    <3>2. CASE m # n + 1
      <4>1. m \in 0 .. n
        BY <2>1, <3>2
      <4>2. f[m] \in Nat /\ f[m] <= f[n]
        BY <2>3, <4>1
      <4>4. QED
        BY <2>3, <2>5, <4>2
    <3>3. QED
      BY <3>1, <3>2
  <2>7. QED
    BY <2>5, <2>6
<1>5. S = Nat
  <2>1. S \in SUBSET Nat
    OBVIOUS
  <2> HIDE DEF S
  <2>2. QED
    BY <1>3, <1>4, <2>1, NatInductive
<1>6. ASSUME NEW n \in 0 .. L PROVE f[n] \in Nat /\ f[n] % 2 = 0 /\ \A m \in 0 .. n : f[m] <= f[n]
  BY <1>1, <1>5
<1>7. QED
  BY <1>1, <1>6 DEF f, L

-----------------------------------------------------------------------------
(* The sizes of a call *)

\* Caller and callee find the same place for every argument.
LEMMA CallFacts ==
  ASSUME CallsAgree, NEW call \in Calls \cup {Main}
  PROVE  /\ call \in Call /\ Agreed(call) /\ Len(call.args) \in Nat
         /\ \A k \in 1 .. Len(call.args) : call.args[k] \in Sources
         /\ Before(call, 1) = 0
         /\ StackBytes(call) = Before(call, Len(call.args) + 1)
         /\ StackBytes(call) \in Nat
         /\ \A k \in 1 .. Len(call.args) :
              /\ BytesPushed(call, k) \in {2, 4}
              /\ Before(call, k + 1) = Before(call, k) + BytesPushed(call, k)
              /\ ParamOffset(call.params, k) = FirstParam + Before(call, k)
         /\ \A k \in 1 .. Len(call.args) + 1 :
              Before(call, k) \in Nat /\ Before(call, k) % 2 = 0 /\ Before(call, k) <= StackBytes(call)
         /\ \A j, k \in 1 .. Len(call.args) + 1 : j <= k => Before(call, j) <= Before(call, k)
<1> DEFINE L == Len(call.args)
           sizes == Sizes(call)
<1>1. call \in Call /\ call.args \in Seq(Sources) /\ L \in Nat
  <2>1. Main \in Call
    <3>1. <<>> \in Seq(Widths) /\ <<>> \in Seq(Sources)
      OBVIOUS
    <3>2. QED
      BY <3>1 DEF Main, Call
  <2>2. call \in Call
    BY <2>1, CallsAssumption
  <2>3. QED
    BY <2>2, LenProperties DEF Call
<1>2. \A k \in 1 .. L : call.args[k] \in Sources
  BY <1>1, ElementOfSeq
<1>3. Agreed(call)
  <2>1. CASE call \in Calls
    BY <2>1 DEF CallsAgree
  <2>2. CASE call = Main
    BY <2>2 DEF Agreed, Main
  <2>3. QED
    BY <2>1, <2>2
<1>4. \A k \in 1 .. L : BytesPushed(call, k) \in {2, 4}
  BY DEF BytesPushed
<1>5. sizes \in Seq({2, 4}) /\ Len(sizes) = L /\ \A k \in 1 .. L : sizes[k] = BytesPushed(call, k)
  BY <1>1, <1>4 DEF Sizes
<1>6. sizes \in Seq(Int)
  BY <1>5
<1>7. Before(call, 1) = 0
  BY <1>6, SumsDefined DEF Before
<1>8. StackBytes(call) = Before(call, L + 1)
  <2>1. [i \in 1 .. L |-> BytesCleaned(call, i)] = sizes
    BY <1>3 DEF Agreed, Sizes
  <2>2. (L + 1) - 1 = L
    BY <1>1
  <2>3. QED
    BY <2>1, <2>2 DEF StackBytes, Before
<1> HIDE DEF sizes
<1>9. ASSUME NEW k \in 1 .. L
      PROVE  /\ Before(call, k + 1) = Before(call, k) + BytesPushed(call, k)
             /\ ParamOffset(call.params, k) = FirstParam + Before(call, k)
  <2>1. (k + 1) - 1 = k /\ k \in 1 .. Len(sizes)
    BY <1>5
  <2>2. Sums(sizes)[k] = Sums(sizes)[k - 1] + sizes[k]
    BY <1>6, <2>1, SumsDefined
  <2>3. Before(call, k + 1) = Before(call, k) + BytesPushed(call, k)
    BY <1>5, <2>1, <2>2 DEF Before, sizes
  <2> DEFINE expected == [j \in 1 .. k - 1 |-> IF ParamReg(call.params, j) = NoReg
                                               THEN ParamBytes(call.params, j) ELSE 0]
  <2>4. \A j \in 1 .. k - 1 : j \in 1 .. L /\ expected[j] = sizes[j] /\ expected[j] \in Int
    BY <1>1, <1>3, <1>4, <1>5 DEF Agreed
  <2>5. expected \in Seq(Int) /\ Len(expected) = k - 1
    BY <2>4
  <2>6. ParamOffset(call.params, k) = FirstParam + Sums(expected)[k - 1]
    BY DEF ParamOffset
  <2> HIDE DEF expected
  <2>7. k - 1 \in Nat /\ k - 1 <= Len(expected) /\ k - 1 <= Len(sizes)
    BY <1>1, <1>5, <2>5
  <2>8. Sums(expected)[k - 1] = Sums(sizes)[k - 1]
    BY <1>6, <2>4, <2>5, <2>7, SumsAgree
  <2>9. QED
    BY <2>3, <2>6, <2>8 DEF Before, sizes
<1>10. ASSUME NEW k \in 1 .. L + 1
       PROVE  /\ Before(call, k) \in Nat /\ Before(call, k) % 2 = 0
              /\ Before(call, k) <= StackBytes(call)
              /\ \A j \in 1 .. L + 1 : j <= k => Before(call, j) <= Before(call, k)
  <2>1. /\ \A n \in 0 .. L : Sums(sizes)[n] \in Nat /\ Sums(sizes)[n] % 2 = 0
        /\ \A m, n \in 0 .. L : m <= n => Sums(sizes)[m] <= Sums(sizes)[n]
    BY <1>5, SumsGrow
  <2>2. k - 1 \in 0 .. L /\ L \in 0 .. L /\ (L + 1) - 1 = L
        /\ \A j \in 1 .. L + 1 : j - 1 \in 0 .. L /\ (j <= k => j - 1 <= k - 1)
    BY <1>1
  <2> HIDE DEF L
  <2>3. StackBytes(call) = Sums(sizes)[L]
    BY <1>8, <2>2 DEF Before, sizes
  <2>4. k - 1 <= L
    BY <2>2
  <2>5. QED
    BY <2>1, <2>2, <2>3, <2>4 DEF Before, sizes
<1>11. StackBytes(call) \in Nat
  <2>1. L + 1 \in 1 .. L + 1
    BY <1>1
  <2>2. QED
    BY <1>8, <1>10, <2>1
<1>12. QED
  BY <1>1, <1>2, <1>3, <1>4, <1>7, <1>8, <1>9, <1>10, <1>11

-----------------------------------------------------------------------------
(* Where the frames are *)

LEMMA RoomFacts ==
  ASSUME StackSuffices
  PROVE  /\ Room \in Nat /\ Room >= 24 /\ 4 + MaxDepth * Room <= Top
         /\ \A call \in Calls : StackBytes(call) + 24 <= Room
         /\ Top \in Nat /\ Top % 2 = 0 /\ MaxDepth \in Nat /\ MaxDepth >= 1
<1>1. Room \in 0 .. Top /\ Suffices(Room)
  BY DEF StackSuffices, Room
<1>2. QED
  BY <1>1, BoundsAssumption DEF StackSuffices, Suffices

\* Multiples of the room of a call.
LEMMA RoomBelow ==
  ASSUME StackSuffices, NEW i \in Nat, i <= MaxDepth
  PROVE  /\ (MaxDepth - i + 1) * Room \in Nat
         /\ (MaxDepth - i + 1) * Room >= Room
         /\ (MaxDepth - (i + 1) + 1) * Room = (MaxDepth - i + 1) * Room - Room
<1>1. Room \in Nat /\ MaxDepth \in Nat
  BY RoomFacts
<1> DEFINE n == MaxDepth - i
<1>2. n \in Nat /\ MaxDepth - i + 1 = n + 1 /\ MaxDepth - (i + 1) + 1 = n
  BY <1>1
<1> HIDE DEF n
<1>3. n * Room \in Nat /\ (n + 1) * Room = n * Room + Room
  BY <1>1, <1>2
<1>4. QED
  BY <1>1, <1>2, <1>3

\* A frame is within the stack, and so are the arguments above it.
LEMMA Geometry ==
  ASSUME CallsAgree, StackSuffices, CallTypeOK, FramesInv, NEW i \in 1 .. Depth
  PROVE  /\ acts[i] \in Activations /\ acts[i].call \in Calls \cup {Main}
         /\ acts[i].entry \in Addresses /\ acts[i].entry >= Room
         /\ acts[i].entry + 2 \in Addresses
         /\ Base(i) = acts[i].entry - 2 /\ Base(i) \in Addresses
         /\ Bottom(i) = acts[i].entry - 16 /\ Bottom(i) \in Addresses
         /\ Base(i) - 2 \in Addresses /\ Base(i) - 4 \in Addresses /\ Base(i) - 6 \in Addresses
         /\ \A o \in FrameOffsets : o \in Int /\ Base(i) + o \in Addresses
                                    /\ Base(i) + o >= acts[i].entry - 16
                                    /\ Base(i) + o < acts[i].entry - 8
         /\ \A k \in 1 .. Len(acts[i].call.args) :
              LET a == acts[i].entry + 4 + Before(acts[i].call, k)
              IN /\ a \in Addresses /\ a >= acts[i].entry + 4
                 /\ BytesPushed(acts[i].call, k) = 4 => a + 2 \in Addresses
<1> DEFINE e == acts[i].entry
           call == acts[i].call
<1>1. acts \in Seq(Activations) /\ Depth \in Nat /\ Depth <= MaxDepth
  BY LenProperties DEF CallTypeOK, Depth
<1>2. acts[i] \in Activations
  BY <1>1, ElementOfSeq DEF Depth
<1>3. e \in Addresses /\ call \in Calls \cup {Main}
  BY <1>2 DEF Activations
<1>4. Room \in Nat /\ Room >= 24 /\ Top \in Nat /\ Top % 2 = 0 /\ MaxDepth \in Nat
  BY RoomFacts
<1>5. Entered(i)
  BY DEF FramesInv
<1>6. e >= (MaxDepth - i + 1) * Room /\ e <= Top - 4
  BY <1>5 DEF Entered
<1>7. e >= Room
  <2>1. (MaxDepth - i + 1) * Room \in Nat /\ (MaxDepth - i + 1) * Room >= Room
    BY <1>1, <1>4, RoomBelow
  <2>2. QED
    BY <1>3, <1>4, <1>6, <2>1 DEF Addresses
<1>8. e \in Nat /\ e % 2 = 0 /\ e >= 24 /\ e <= Top - 4
  BY <1>3, <1>4, <1>6, <1>7 DEF Addresses
<1>9. Base(i) = e - 2 /\ Bottom(i) = e - 16
  BY <1>8 DEF Base, Bottom, SavedRegs, FrameSize
<1> HIDE DEF e
<1>10. \A d \in {2, 0, -2, -4, -6, -8, -10, -12, -14, -16} : e + d \in Addresses
  BY <1>4, <1>8 DEF Addresses
<1>11. /\ e + 2 \in Addresses /\ e - 2 \in Addresses /\ e - 16 \in Addresses /\ (e - 2) - 2 \in Addresses
       /\ (e - 2) - 4 \in Addresses /\ (e - 2) - 6 \in Addresses
  BY <1>4, <1>8 DEF Addresses
<1>12. \A o \in FrameOffsets : o \in Int /\ (e - 2) + o \in Addresses /\ (e - 2) + o >= e - 16
                               /\ (e - 2) + o < e - 8
  BY <1>4, <1>8 DEF Addresses, FrameOffsets, Local, Temp
<1>13. ASSUME NEW k \in 1 .. Len(call.args)
       PROVE  LET a == e + 4 + Before(call, k)
              IN /\ a \in Addresses /\ a >= e + 4
                 /\ BytesPushed(call, k) = 4 => a + 2 \in Addresses
  <2>1. i # 1
    <3>1. SUFFICES ASSUME i = 1 PROVE FALSE
      OBVIOUS
    <3>2. call = Main
      BY <1>5, <3>1 DEF Entered
    <3>3. QED
      BY <3>2 DEF Main
  <2>2. i - 1 \in 1 .. Depth /\ e = Bottom(i - 1) - StackBytes(call) - 4
    BY <1>1, <1>5, <2>1 DEF Entered, e
  <2> DEFINE p == acts[i - 1].entry
             s == StackBytes(call)
             b == Before(call, k)
             w == BytesPushed(call, k)
  <2>3. p \in Addresses
    <3>1. acts[i - 1] \in Activations
      BY <1>1, <2>2, ElementOfSeq DEF Depth
    <3>2. QED
      BY <3>1 DEF Activations
  <2>4. p \in Nat /\ p % 2 = 0 /\ p + 2 <= Top
    BY <1>4, <2>3 DEF Addresses
  <2>5. e = p - 20 - s
    <3>1. Bottom(i - 1) = p - 2 - 6 - 8
      BY DEF Base, Bottom, SavedRegs, FrameSize
    <3>2. s \in Nat
      BY <1>3, CallFacts
    <3> HIDE DEF p, s
    <3>3. e = p - 2 - 6 - 8 - s - 4
      BY <2>2, <3>1 DEF s
    <3>4. QED
      BY <2>4, <3>2, <3>3
  <2>6. s \in Nat /\ w \in {2, 4} /\ b \in Nat /\ b % 2 = 0 /\ b + w <= s
    <3>1. k \in 1 .. Len(call.args) + 1 /\ k + 1 \in 1 .. Len(call.args) + 1
      <4>1. Len(call.args) \in Nat
        BY <1>3, CallFacts
      <4>2. QED
        BY <4>1
    <3>2. w \in {2, 4} /\ Before(call, k + 1) = b + w
      BY <1>3, CallFacts
    <3>3. Before(call, k + 1) <= s /\ s \in Nat
      BY <1>3, <3>1, CallFacts
    <3>4. b \in Nat /\ b % 2 = 0
      BY <1>3, <3>1, CallFacts
    <3>5. QED
      BY <3>2, <3>3, <3>4
  <2> HIDE DEF p, s, b, w, call
  <2>7. /\ e + 4 + b \in Nat /\ (e + 4 + b) % 2 = 0 /\ e + 4 + b >= e + 4 /\ e + 4 + b <= Top - 2
        /\ (w = 4 => e + 4 + b + 2 \in Nat /\ (e + 4 + b + 2) % 2 = 0 /\ e + 4 + b + 2 <= Top - 2)
    BY ONLY <1>4, <1>8, <2>4, <2>5, <2>6
  <2>8. QED
    BY ONLY <1>4, <1>8, <2>6, <2>7 DEF Addresses, b, w
<1>14. QED
  BY <1>2, <1>3, <1>7, <1>9, <1>11, <1>12, <1>13 DEF e

\* Frames are where they are, whatever the innermost functions do below them: what
\* a function was entered with is above its entry, what it saved and put into its
\* frame in the 16 bytes below.
LEMMA EnteredKept ==
  ASSUME CallsAgree, StackSuffices, CallTypeOK, FramesInv, NEW i \in 1 .. Depth,
         acts'[i].entry = acts[i].entry, acts'[i].call = acts[i].call,
         acts'[i].args = acts[i].args, acts'[i].found = acts[i].found,
         i > 1 => acts'[i - 1] = acts[i - 1],
         \A a \in Addresses : a >= acts[i].entry => mem'[a] = mem[a]
  PROVE  Entered(i)'
<1> DEFINE e == acts[i].entry
           call == acts[i].call
<1>1. /\ e \in Addresses /\ e \in Int
      /\ \A k \in 1 .. Len(call.args) :
           LET a == e + 4 + Before(call, k)
           IN /\ a \in Addresses /\ a >= e + 4 /\ a \in Int
              /\ BytesPushed(call, k) = 4 => a + 2 \in Addresses
  <2>1. Addresses \subseteq Int
    BY DEF Addresses
  <2>2. /\ e \in Addresses
        /\ \A k \in 1 .. Len(call.args) :
             LET a == e + 4 + Before(call, k)
             IN /\ a \in Addresses /\ a >= e + 4
                /\ BytesPushed(call, k) = 4 => a + 2 \in Addresses
    BY Geometry
  <2>3. QED
    BY <2>1, <2>2
<1>2. Entered(i)
  BY DEF FramesInv
<1>3. mem'[e] = mem[e]
  BY <1>1
<1>4. ASSUME NEW k \in 1 .. Len(call.args)
      PROVE  HoldsArg(e + 4 + Before(call, k), call, k, acts[i].args[k])'
  <2> DEFINE a == e + 4 + Before(call, k)
  <2>1. /\ a \in Addresses /\ a >= e + 4 /\ a \in Int
        /\ BytesPushed(call, k) = 4 => a + 2 \in Addresses
    BY <1>1
  <2>2. HoldsArg(a, call, k, acts[i].args[k])
    BY <1>2 DEF Entered
  <2>3. acts'[i].entry + 4 + Before(acts'[i].call, k) = a
    OBVIOUS
  <2> HIDE DEF a, e
  <2>4. mem'[a] = mem[a] /\ (BytesPushed(call, k) = 4 => mem'[a + 2] = mem[a + 2])
    BY <1>1, <2>1 DEF e
  <2>5. QED
    BY <2>2, <2>3, <2>4 DEF HoldsArg, a, e
<1>5. Entered(i)' <=>
        /\ e >= (MaxDepth - i + 1) * Room /\ e <= Top - 4
        /\ IF i = 1 THEN e = Top - 4 /\ call = Main /\ acts[i].found.bp = Top
           ELSE LET now == acts'[i - 1].now
                IN /\ e = Bottom(i - 1)' - StackBytes(now.call) - 4
                   /\ call = now.call /\ acts[i].args = now.args
                   /\ now.call \in Calls
                   /\ acts[i].found.bp = Base(i - 1)'
        /\ mem'[e] = Word("ip", IF i = 1 THEN 0 ELSE acts'[i - 1].now.ip, 0)
        /\ \A k \in 1 .. Len(call.args) :
             HoldsArg(e + 4 + Before(call, k), call, k, acts[i].args[k])'
  BY DEF Entered
<1>6. i > 1 => Bottom(i - 1)' = Bottom(i - 1) /\ Base(i - 1)' = Base(i - 1)
  BY DEF Bottom, Base
<1>7. i = 1 \/ i > 1
  OBVIOUS
<1>8. QED
  <2> HIDE DEF e, call
  <2>1. CASE i = 1
    BY <1>2, <1>3, <1>4, <1>5, <2>1 DEF Entered, e, call
  <2>2. CASE i > 1
    BY <1>2, <1>3, <1>4, <1>5, <1>6, <2>2 DEF Entered, e, call
  <2>3. QED
    BY <1>7, <2>1, <2>2
\* What the inner functions leave of a frame.
LEMMA FramesKept ==
  ASSUME CallsAgree, StackSuffices, CallTypeOK, FramesInv, OrderInv, Depth >= 1,
         \A i \in 1 .. Depth - 1 : acts'[i] = acts[i],
         acts'[Depth].entry = acts[Depth].entry, acts'[Depth].call = acts[Depth].call,
         acts'[Depth].args = acts[Depth].args, acts'[Depth].found = acts[Depth].found,
         \A a \in Addresses : a >= acts[Depth].entry => mem'[a] = mem[a]
  PROVE  /\ \A i \in 1 .. Depth : Entered(i)'
         /\ \A i \in 1 .. Depth - 1 : Kept(i)' /\ Saved(i)' /\ Filled(i)'
<1>1. Depth \in Nat
  BY LenProperties DEF CallTypeOK, Depth
<1>2. Depth \in 1 .. Depth
  BY <1>1
<1>3. acts[Depth].entry \in Int
  <2>1. acts[Depth].entry \in Addresses
    BY <1>2, Geometry
  <2>2. QED
    BY <2>1 DEF Addresses
<1>4. ASSUME NEW i \in 1 .. Depth - 1
      PROVE  /\ i \in 1 .. Depth /\ acts[i].entry \in Int
             /\ acts[i].entry - 16 >= acts[Depth].entry
  <2>1. i \in 1 .. Depth /\ i < Depth
    BY <1>1
  <2>2. acts[Depth].entry <= acts[i].entry - 20
    BY <1>2, <2>1 DEF OrderInv
  <2>3. acts[i].entry \in Addresses
    BY <2>1, Geometry
  <2>4. acts[i].entry \in Int
    BY <2>3 DEF Addresses
  <2>5. QED
    BY <1>3, <2>1, <2>2, <2>4
<1>5. ASSUME NEW i \in 1 .. Depth PROVE Entered(i)'
  <2>1. i > 1 => acts'[i - 1] = acts[i - 1]
    <3>1. i > 1 => i - 1 \in 1 .. Depth - 1
      BY <1>1
    <3>2. QED
      BY <3>1
  <2>2. /\ acts'[i].entry = acts[i].entry /\ acts'[i].call = acts[i].call
        /\ acts'[i].args = acts[i].args /\ acts'[i].found = acts[i].found
    <3>1. CASE i = Depth
      BY <3>1
    <3>2. CASE i # Depth
      <4>1. i \in 1 .. Depth - 1
        BY <1>1, <3>2
      <4>2. QED
        BY <4>1
    <3>3. QED
      BY <3>1, <3>2
  <2>3. acts[i].entry >= acts[Depth].entry /\ acts[i].entry \in Int
    <3>1. CASE i = Depth
      BY <1>3, <3>1
    <3>2. CASE i # Depth
      <4>1. i \in 1 .. Depth - 1
        BY <1>1, <3>2
      <4>2. QED
        BY <1>3, <1>4, <4>1
    <3>3. QED
      BY <3>1, <3>2
  <2>4. \A a \in Addresses : a >= acts[i].entry => mem'[a] = mem[a]
    <3>1. \A a \in Addresses : a \in Int
      BY DEF Addresses
    <3> DEFINE e == acts[i].entry
               d == acts[Depth].entry
    <3>2. e \in Int /\ d \in Int /\ e >= d
      BY <1>3, <2>3
    <3> HIDE DEF e, d
    <3>3. \A a \in Addresses : a >= e => a >= d
      BY ONLY <3>1, <3>2
    <3>4. QED
      BY <3>3 DEF e, d
  <2>5. QED
    BY <2>1, <2>2, <2>4, EnteredKept
<1>6. ASSUME NEW i \in 1 .. Depth - 1 PROVE Kept(i)' /\ Saved(i)' /\ Filled(i)'
  <2> DEFINE e == acts[i].entry
             d == acts[Depth].entry
  <2>1. acts'[i] = acts[i] /\ i \in 1 .. Depth /\ i < Depth
    BY <1>1
  <2>2. Kept(i) /\ Saved(i) /\ Filled(i)
    BY <2>1 DEF FramesInv
  <2>3. /\ Base(i) \in Addresses /\ Base(i) - 2 \in Addresses /\ Base(i) - 4 \in Addresses
        /\ Base(i) - 6 \in Addresses /\ Base(i) = e - 2
        /\ \A o \in FrameOffsets : Base(i) + o \in Addresses /\ Base(i) + o >= e - 16
    BY <2>1, Geometry
  <2>4. Base(i)' = Base(i)
    BY <2>1 DEF Base
  <2>5. e \in Int /\ d \in Int /\ e - 16 >= d /\ \A a \in Addresses : a \in Int
    BY <1>3, <1>4 DEF Addresses
  <2>6. \A a \in Addresses : a >= d => mem'[a] = mem[a]
    OBVIOUS
  <2>7. Filled(i)'
    BY <2>1, <2>2 DEF Filled
  <2> HIDE DEF e, d
  <2>8. \A o \in FrameOffsets : mem'[Base(i) + o] = mem[Base(i) + o]
    BY ONLY <2>3, <2>5, <2>6
  <2>9. Kept(i)'
    <3>1. DOMAIN acts[i].cells = FrameOffsets
      BY <2>2 DEF Filled
    <3>2. QED
      BY <2>1, <2>2, <2>4, <2>8, <3>1 DEF Kept
  <2>10. /\ mem'[Base(i)] = mem[Base(i)] /\ mem'[Base(i) - 2] = mem[Base(i) - 2]
         /\ mem'[Base(i) - 4] = mem[Base(i) - 4] /\ mem'[Base(i) - 6] = mem[Base(i) - 6]
    <3>1. Base(i) >= d /\ Base(i) - 2 >= d /\ Base(i) - 4 >= d /\ Base(i) - 6 >= d
      BY ONLY <2>3, <2>5
    <3>2. QED
      BY ONLY <2>3, <2>6, <3>1
  <2>11. Saved(i)'
    BY <2>1, <2>2, <2>4, <2>10 DEF Saved
  <2>12. QED
    BY <2>7, <2>9, <2>11
<1>7. QED
  BY <1>5, <1>6

\* What a function leaves of its own frame: the saved registers are in the upper
\* 8 bytes of it.
LEMMA SavedKept ==
  ASSUME CallsAgree, StackSuffices, CallTypeOK, FramesInv, NEW i \in 1 .. Depth, Saved(i),
         acts'[i].entry = acts[i].entry, acts'[i].found = acts[i].found,
         \A a \in Addresses : a >= acts[i].entry - 8 => mem'[a] = mem[a]
  PROVE  Saved(i)'
<1> DEFINE e == acts[i].entry
<1>1. /\ Base(i) \in Addresses /\ Base(i) - 2 \in Addresses /\ Base(i) - 4 \in Addresses
      /\ Base(i) - 6 \in Addresses /\ Base(i) = e - 2 /\ e \in Addresses
  BY Geometry
<1>2. Base(i)' = Base(i)
  BY DEF Base
<1>3. e \in Int
  BY <1>1 DEF Addresses
<1>4. \A a \in Addresses : a >= e - 8 => mem'[a] = mem[a]
  OBVIOUS
<1> HIDE DEF e
<1>5. Base(i) >= e - 8 /\ Base(i) - 2 >= e - 8 /\ Base(i) - 4 >= e - 8 /\ Base(i) - 6 >= e - 8
  BY ONLY <1>1, <1>3
<1>6. /\ mem'[Base(i)] = mem[Base(i)] /\ mem'[Base(i) - 2] = mem[Base(i) - 2]
      /\ mem'[Base(i) - 4] = mem[Base(i) - 4] /\ mem'[Base(i) - 6] = mem[Base(i) - 6]
  BY ONLY <1>1, <1>4, <1>5
<1>7. QED
  BY <1>2, <1>6 DEF Saved

LEMMA CellsKept ==
  ASSUME CallsAgree, StackSuffices, CallTypeOK, FramesInv, NEW i \in 1 .. Depth,
         acts'[i].entry = acts[i].entry, acts'[i].cells = acts[i].cells,
         \A a \in Addresses : a >= acts[i].entry - 16 => mem'[a] = mem[a]
  PROVE  Kept(i)'
<1> DEFINE e == acts[i].entry
<1>1. \A o \in FrameOffsets : Base(i) + o \in Addresses /\ Base(i) + o >= e - 16
  BY Geometry
<1>2. Base(i)' = Base(i)
  BY DEF Base
<1>3. \A a \in Addresses : a >= e - 16 => mem'[a] = mem[a]
  OBVIOUS
<1> HIDE DEF e
<1>4. \A o \in FrameOffsets : mem'[Base(i) + o] = mem[Base(i) + o]
  BY ONLY <1>1, <1>3
<1>5. DOMAIN acts[i].cells \subseteq FrameOffsets
  <2>1. acts[i] \in Activations
    BY Geometry
  <2>2. QED
    BY <2>1 DEF Activations
<1>6. Kept(i)
  BY DEF FramesInv
<1>7. QED
  BY <1>2, <1>4, <1>5, <1>6 DEF Kept

\* A step of the innermost function that neither calls nor returns.
LEMMA FramesStep ==
  ASSUME CallsAgree, StackSuffices, CallTypeOK, FramesInv, OrderInv,
         NEW D \in Nat, D >= 1, Depth = D, Depth' = D,
         \A i \in 1 .. D - 1 : acts'[i] = acts[i],
         acts'[D].entry = acts[D].entry, acts'[D].call = acts[D].call,
         acts'[D].args = acts[D].args, acts'[D].found = acts[D].found,
         \A a \in Addresses : a >= acts[D].entry => mem'[a] = mem[a],
         Kept(D)', step' # "enter" => Saved(D)', step' \notin {"enter", "work"} => Filled(D)'
  PROVE  FramesInv' /\ OrderInv'
<1>1. /\ \A i \in 1 .. D : Entered(i)'
      /\ \A i \in 1 .. D - 1 : Kept(i)' /\ Saved(i)' /\ Filled(i)'
  BY FramesKept
<1>2. ASSUME NEW i \in 1 .. D
      PROVE  /\ Entered(i)' /\ Kept(i)'
             /\ i < D \/ step' # "enter" => Saved(i)'
             /\ i < D \/ step' \notin {"enter", "work"} => Filled(i)'
  <2>1. CASE i = D
    BY <1>1, <2>1
  <2>2. CASE i # D
    <3>1. i \in 1 .. D - 1
      BY <2>2
    <3>2. QED
      BY <1>1, <3>1
  <2>3. QED
    BY <2>1, <2>2
<1>3. FramesInv'
  BY <1>2 DEF FramesInv
<1>4. \A i \in 1 .. D : acts'[i].entry = acts[i].entry
  <2>1. \A i \in 1 .. D : i = D \/ i \in 1 .. D - 1
    OBVIOUS
  <2>2. QED
    BY <2>1
<1>5. OrderInv'
  BY <1>4 DEF OrderInv
<1>6. QED
  BY <1>3, <1>5

\* A change of the innermost function.
LEMMA Updated ==
  ASSUME acts \in Seq(Activations), Depth >= 1, NEW b \in Activations,
         acts' = [acts EXCEPT ![Depth] = b]
  PROVE  /\ acts' \in Seq(Activations) /\ Depth' = Depth /\ acts'[Depth] = b
         /\ \A i \in 1 .. Depth - 1 : acts'[i] = acts[i]
<1>1. Depth \in Nat /\ Depth \in DOMAIN acts /\ DOMAIN acts = 1 .. Depth
  BY LenProperties DEF Depth
<1>2. acts' \in Seq(Activations) /\ Len(acts') = Len(acts)
  BY <1>1, ExceptSeq DEF Depth
<1>3. Depth' = Depth
  BY <1>2 DEF Depth
<1>4. \A i \in 1 .. Depth : acts'[i] = IF i = Depth THEN b ELSE acts[i]
  BY <1>1
<1>5. \A i \in 1 .. Depth - 1 : i \in 1 .. Depth /\ i # Depth
  BY <1>1
<1>6. Depth \in 1 .. Depth
  BY <1>1
<1>7. acts'[Depth] = b
  BY <1>4, <1>6
<1>8. QED
  BY <1>2, <1>3, <1>4, <1>5, <1>7

\* Words.
LEMMA WordFacts ==
  /\ \A m, n \in Int : \A what \in Kinds : Word(what, m, n) \in Words
  /\ \A a \in Int : Address(a) \in Words /\ Number(Address(a)) = a
  /\ Zero \in Words /\ Segment("ss") \in Words /\ Segment("ds") \in Words
<1>1. \A m, n \in Int : \A what \in Kinds : Word(what, m, n) \in Words
  BY DEF Word, Words
<1>2. "address" \in Kinds /\ "const" \in Kinds /\ "ss" \in Kinds /\ "ds" \in Kinds
  BY DEF Kinds
<1>3. \A a \in Int : Address(a) \in Words
  BY <1>1, <1>2 DEF Address
<1>4. \A a \in Int : Number(Address(a)) = a
  BY DEF Address, Number, Word
<1>5. Zero \in Words /\ Segment("ss") \in Words /\ Segment("ds") \in Words
  BY <1>1, <1>2 DEF Zero, Segment
<1>6. QED
  BY <1>1, <1>3, <1>4, <1>5

\* The innermost function.
LEMMA Innermost ==
  ASSUME CallsAgree, StackSuffices, IInv, NEW D \in Nat, D >= 1, Depth = D
  PROVE  LET e == acts[D].entry IN
         /\ D \in 1 .. Depth /\ D <= MaxDepth
         /\ acts \in Seq(Activations) /\ acts[D] \in Activations
         /\ e \in Nat /\ e % 2 = 0 /\ e >= 24 /\ e <= Top - 4 /\ Top \in Nat /\ Top % 2 = 0
         /\ Base(D) = e - 2 /\ Bottom(D) = e - 16
         /\ DOMAIN mem = Addresses
         /\ Entered(D) /\ Kept(D)
         /\ step # "enter" => Saved(D)
         /\ step \notin {"enter", "work"} => Filled(D)
<1> DEFINE e == acts[D].entry
<1>1. D \in 1 .. Depth
  OBVIOUS
<1>2. CallTypeOK /\ FramesInv
  BY DEF IInv
<1>3. acts[D] \in Activations /\ e \in Addresses /\ e >= Room /\ Base(D) = e - 2 /\ Bottom(D) = e - 16
  BY <1>1, <1>2, Geometry
<1>4. /\ Entered(D) /\ Kept(D)
      /\ step # "enter" => Saved(D)
      /\ step \notin {"enter", "work"} => Filled(D)
  BY <1>1, <1>2 DEF FramesInv
<1>5. e <= Top - 4
  BY <1>4 DEF Entered
<1>6. Room \in Nat /\ Room >= 24 /\ Top \in Nat /\ Top % 2 = 0
  BY RoomFacts
<1>7. e \in Nat /\ e % 2 = 0
  BY <1>3 DEF Addresses
<1>8. acts \in Seq(Activations) /\ D <= MaxDepth /\ DOMAIN mem = Addresses
  BY <1>2 DEF CallTypeOK
<1> HIDE DEF e
<1>9. e >= 24
  BY ONLY <1>3, <1>6, <1>7
<1>10. QED
  BY <1>1, <1>3, <1>4, <1>5, <1>6, <1>7, <1>8, <1>9 DEF e

-----------------------------------------------------------------------------
(* The invariant at first *)

LEMMA InitInv ==
  ASSUME CallsAgree, StackSuffices, Init
  PROVE  IInv
<1> DEFINE first == Active(Main, <<>>, Top - 4, [reg |-> reg, bp |-> bp])
<1>1. /\ Room \in Nat /\ Room >= 24 /\ 4 + MaxDepth * Room <= Top
      /\ Top \in Nat /\ Top % 2 = 0 /\ MaxDepth \in Nat /\ MaxDepth >= 1
  BY RoomFacts
<1>2. Top - 4 \in Addresses /\ Top - 2 \in Addresses /\ Top - 4 # Top - 2
  <2>1. MaxDepth * Room >= Room
    <3>1. 0 \in Nat /\ 0 <= MaxDepth
      BY <1>1
    <3>2. (MaxDepth - 1 + 1) * Room >= Room
      BY <1>1, RoomBelow
    <3>3. MaxDepth - 1 + 1 = MaxDepth
      BY <1>1
    <3>4. QED
      BY <3>2, <3>3
  <2>2. Top >= 28
    <3> DEFINE all == MaxDepth * Room
    <3>1. all \in Nat /\ all >= Room /\ 4 + all <= Top
      BY <1>1, <2>1
    <3> HIDE DEF all
    <3>2. QED
      BY <1>1, <3>1
  <2>3. QED
    BY <1>1, <2>2 DEF Addresses
<1>3. acts = <<first>> /\ Depth = 1 /\ acts[1] = first
  BY DEF Init, Depth
<1>4. /\ first.entry = Top - 4 /\ first.call = Main /\ first.args = <<>>
      /\ first.found = [reg |-> reg, bp |-> bp] /\ first.cells = [o \in {} |-> Zero]
      /\ first.now = NoCall
  BY DEF Active
<1>5. reg \in [Regs -> Words]
  <2>1. \A r \in Regs : Word(r, 0, 0) \in Words
    BY WordFacts DEF Kinds
  <2>2. QED
    BY <2>1 DEF Init
<1>6. NoCall \in Made
  <2>1. <<>> \in Seq(Words \X Words)
    OBVIOUS
  <2>2. QED
    BY <2>1 DEF NoCall, Made
<1>7. first \in Activations
  <2>1. <<>> \in Seq(Words \X Words)
    OBVIOUS
  <2>2. [reg |-> reg, bp |-> bp] \in [reg : [Regs -> Words], bp : Addresses \cup {Top}]
    BY <1>5 DEF Init
  <2>3. [o \in {} |-> Zero] \in [{} -> Words]
    OBVIOUS
  <2>4. QED
    BY <1>2, <1>6, <2>1, <2>2, <2>3 DEF Active, Activations
<1>8. CallTypeOK
  <2>1. mem \in [Addresses -> Words]
    <3>1. Word("cs", 0, 0) \in Words /\ Word("ip", 0, 0) \in Words /\ Zero \in Words
      BY WordFacts DEF Kinds
    <3>2. QED
      BY <3>1 DEF Init
  <2>2. sp \in Addresses \cup {Top} /\ bp \in Addresses \cup {Top} /\ step \in Steps
    BY <1>2 DEF Init, Steps
  <2>3. acts \in Seq(Activations) /\ Depth <= MaxDepth
    BY <1>1, <1>3, <1>7
  <2>4. made \in 0 .. MaxCalls
    BY BoundsAssumption DEF Init
  <2>5. returned \in Words \X Words
    <3>1. Zero \in Words
      BY WordFacts
    <3>2. QED
      BY <3>1 DEF Init
  <2>6. QED
    BY <1>5, <2>1, <2>2, <2>3, <2>4, <2>5 DEF CallTypeOK
<1>9. FramesInv
  <2>1. Entered(1)
    <3>1. Top - 4 >= (MaxDepth - 1 + 1) * Room
      <4> DEFINE all == MaxDepth * Room
      <4>1. all \in Nat /\ 4 + all <= Top /\ (MaxDepth - 1 + 1) * Room = all
        BY <1>1
      <4> HIDE DEF all
      <4>2. QED
        BY <1>1, <4>1
    <3>2. Top - 4 <= Top - 4
      BY <1>1
    <3>3. mem[Top - 4] = Word("ip", 0, 0)
      BY <1>2 DEF Init
    <3>4. bp = Top
      BY DEF Init
    <3>5. first.call.args = <<>>
      BY <1>4 DEF Main
    <3>6. first.found.bp = Top
      BY <1>4, <3>4
    <3> HIDE DEF first
    <3>7. QED
      BY <1>3, <1>4, <3>1, <3>2, <3>3, <3>5, <3>6 DEF Entered
  <2>2. Kept(1)
    BY <1>3, <1>4 DEF Kept
  <2>3. step = "enter" /\ \A i \in 1 .. Depth : i = 1
    BY <1>3 DEF Init
  <2>4. QED
    BY <1>3, <2>1, <2>2, <2>3 DEF FramesInv
<1>10. OrderInv
  BY <1>3 DEF OrderInv
<1>11. StepInv
  <2>1. step = "enter"
    BY DEF Init
  <2>2. /\ sp = acts[Depth].entry /\ bp = acts[Depth].found.bp /\ reg = acts[Depth].found.reg
        /\ acts[Depth].cells \in [{} -> Words] /\ Depth >= 1
    <3>1. sp = Top - 4
      BY DEF Init
    <3>2. [o \in {} |-> Zero] \in [{} -> Words]
      OBVIOUS
    <3>3. acts[Depth] = first /\ Depth >= 1
      BY <1>3
    <3>4. first.found.bp = bp /\ first.found.reg = reg
      BY <1>4
    <3> HIDE DEF first
    <3>5. QED
      BY <1>4, <3>1, <3>2, <3>3, <3>4
  <2>3. QED
    BY <2>1, <2>2 DEF StepInv
<1>12. QED
  BY <1>8, <1>9, <1>10, <1>11 DEF IInv

-----------------------------------------------------------------------------
(* The steps *)

LEMMA PrologueStep ==
  ASSUME CallsAgree, StackSuffices, IInv, Prologue
  PROVE  IInv'
<1>1. PICK D \in Nat : D = Depth
  BY LenProperties DEF IInv, CallTypeOK, Depth
<1>2. D >= 1 /\ step = "enter" /\ CallTypeOK /\ FramesInv /\ OrderInv
  BY <1>1 DEF IInv, StepInv, Prologue
<1> DEFINE e == acts[D].entry
<1>3. /\ D \in 1 .. Depth
      /\ e \in Nat /\ e % 2 = 0 /\ e >= 24 /\ e <= Top - 4 /\ Top \in Nat /\ Top % 2 = 0
      /\ Base(D) = e - 2 /\ Bottom(D) = e - 16 /\ acts[D] \in Activations
      /\ DOMAIN mem = Addresses /\ Kept(D)
  BY <1>1, <1>2, Innermost
<1>4. /\ sp = e /\ bp = acts[D].found.bp /\ reg = acts[D].found.reg
      /\ acts[D].cells \in [{} -> Words]
  BY <1>1, <1>2 DEF IInv, StepInv
<1>5. /\ mem' = [mem EXCEPT ![e - 2] = Address(bp), ![e - 4] = reg["bx"],
                            ![e - 6] = reg["si"], ![e - 8] = reg["di"]]
      /\ bp' = e - 2 /\ sp' = e - 2 - 6 - 8 /\ step' = "work"
      /\ reg' = reg /\ acts' = acts /\ made' = made /\ returned' = returned
  BY <1>4 DEF Prologue, SavedRegs, FrameSize
<1>6. Depth' = D
  BY <1>1, <1>5 DEF Depth
<1> HIDE DEF e
<1>7. /\ e - 2 \in Addresses /\ e - 4 \in Addresses /\ e - 6 \in Addresses /\ e - 8 \in Addresses
      /\ e - 2 - 6 - 8 \in Addresses /\ e - 2 - 6 - 8 = e - 16
  BY ONLY <1>3 DEF Addresses
<1>8. CallTypeOK'
  <2>1. reg \in [Regs -> Words] /\ mem \in [Addresses -> Words] /\ bp \in Addresses \cup {Top}
    BY <1>2 DEF CallTypeOK
  <2>2. Address(bp) \in Words
    <3>1. bp \in Int
      BY <1>3, <2>1 DEF Addresses
    <3>2. QED
      BY <3>1, WordFacts
  <2>3. reg["bx"] \in Words /\ reg["si"] \in Words /\ reg["di"] \in Words
    BY <2>1 DEF Regs
  <2>4. mem' \in [Addresses -> Words]
    BY <1>5, <2>1, <2>2, <2>3
  <2>5. QED
    BY <1>2, <1>5, <1>6, <1>7, <2>4 DEF CallTypeOK, Steps, Depth
<1>9. FramesInv' /\ OrderInv'
  <2>1. \A a \in Addresses : a >= e => mem'[a] = mem[a]
    <3>1. \A a \in Addresses : a \in Int
      BY DEF Addresses
    <3>2. QED
      BY ONLY <1>3, <1>5, <3>1
  <2>2. Kept(D)'
    BY <1>4, <1>5 DEF Kept
  <2>3. Saved(D)'
    <3>1. e - 2 # e - 4 /\ e - 2 # e - 6 /\ e - 2 # e - 8 /\ e - 4 # e - 6 /\ e - 4 # e - 8 /\ e - 6 # e - 8
          /\ (e - 2) - 2 = e - 4 /\ (e - 2) - 4 = e - 6 /\ (e - 2) - 6 = e - 8
      BY ONLY <1>3
    <3>2. /\ mem'[e - 2] = Address(bp) /\ mem'[e - 4] = reg["bx"]
          /\ mem'[e - 6] = reg["si"] /\ mem'[e - 8] = reg["di"]
      BY ONLY <1>3, <1>5, <1>7, <3>1
    <3>3. Base(D)' = e - 2
      BY <1>3, <1>5 DEF Base
    <3>4. QED
      BY <1>4, <1>5, <3>1, <3>2, <3>3 DEF Saved
  <2>4. step' = "work"
    BY <1>5
  <2>5. QED
    BY <1>1, <1>2, <1>5, <1>6, <2>1, <2>2, <2>3, <2>4, FramesStep DEF e
<1>10. StepInv'
  <2>1. Base(D)' = e - 2 /\ Bottom(D)' = e - 16
    BY <1>3, <1>5 DEF Base, Bottom
  <2>2. step' = "work" /\ bp' = e - 2 /\ sp' = e - 16 /\ acts'[D].cells \in [{} -> Words]
    BY <1>4, <1>5, <1>7
  <2>3. QED
    BY <1>2, <1>6, <2>1, <2>2 DEF StepInv
<1>11. QED
  BY <1>8, <1>9, <1>10 DEF IInv
LEMMA WorkStep ==
  ASSUME CallsAgree, StackSuffices, IInv, Work
  PROVE  IInv'
<1>1. PICK D \in Nat : D = Depth
  BY LenProperties DEF IInv, CallTypeOK, Depth
<1>2. D >= 1 /\ step = "work" /\ CallTypeOK /\ FramesInv /\ OrderInv
  BY <1>1 DEF IInv, StepInv, Work
<1> DEFINE e == acts[D].entry
           own == [o \in FrameOffsets |-> Word("own", made, o)]
           b == [acts[D] EXCEPT !.cells = own]
<1>3. /\ D \in 1 .. Depth
      /\ e \in Nat /\ e % 2 = 0 /\ e >= 24 /\ e <= Top - 4
      /\ Base(D) = e - 2 /\ Bottom(D) = e - 16 /\ acts[D] \in Activations
      /\ DOMAIN mem = Addresses /\ Saved(D)
  BY <1>1, <1>2, Innermost
<1>4. bp = Base(D) /\ sp = Bottom(D)
  BY <1>1, <1>2 DEF IInv, StepInv
<1>5. /\ mem' = [a \in Addresses |-> IF a - (e - 2) \in FrameOffsets
                                      THEN Word("own", made, a - (e - 2)) ELSE mem[a]]
      /\ acts' = [acts EXCEPT ![D] = b]
      /\ reg' = [r \in Regs |-> Word(r, made, 0)] /\ step' = "body"
      /\ sp' = sp /\ bp' = bp /\ made' = made /\ returned' = returned
  BY <1>1, <1>3, <1>4 DEF Work
<1>6. own \in [FrameOffsets -> Words] /\ FrameOffsets \subseteq Int /\ made \in Int
  <2>1. made \in Int /\ \A o \in FrameOffsets : o \in Int
    BY <1>2 DEF CallTypeOK, FrameOffsets, Local, Temp
  <2>2. \A o \in FrameOffsets : Word("own", made, o) \in Words
    BY <2>1, WordFacts DEF Kinds
  <2>3. QED
    BY <2>1, <2>2
<1>7. b \in Activations
  BY <1>3, <1>6 DEF Activations
<1>8. /\ acts' \in Seq(Activations) /\ Depth' = D /\ acts'[D] = b
      /\ \A i \in 1 .. D - 1 : acts'[i] = acts[i]
  BY <1>1, <1>2, <1>5, <1>7, Updated DEF CallTypeOK
<1>9. /\ b.entry = e /\ b.call = acts[D].call /\ b.args = acts[D].args
      /\ b.found = acts[D].found /\ b.cells = own
  BY <1>3 DEF Activations
<1> HIDE DEF e, b
<1>10. CallTypeOK'
  <2>1. mem \in [Addresses -> Words]
    BY <1>2 DEF CallTypeOK
  <2>2. \A a \in Addresses : a - (e - 2) \in FrameOffsets => Word("own", made, a - (e - 2)) \in Words
    BY <1>6
  <2>3. mem' \in [Addresses -> Words]
    BY <1>5, <2>1, <2>2
  <2>4. reg' \in [Regs -> Words]
    <3>1. \A r \in Regs : Word(r, made, 0) \in Words
      BY <1>6, WordFacts DEF Kinds
    <3>2. QED
      BY <1>5, <3>1
  <2>5. step' \in Steps
    BY <1>5 DEF Steps
  <2>6. QED
    BY <1>1, <1>2, <1>5, <1>8, <2>3, <2>4, <2>5 DEF CallTypeOK
<1>11. \A a \in Addresses : a >= e - 8 => mem'[a] = mem[a]
  <2>1. \A a \in Addresses : a \in Int
    BY DEF Addresses
  <2>2. \A a \in Addresses : a >= e - 8 => a - (e - 2) \notin FrameOffsets
    BY <1>3, <2>1 DEF FrameOffsets, Local, Temp
  <2>3. QED
    BY <1>5, <2>2
<1>12. FramesInv' /\ OrderInv'
  <2>1. \A a \in Addresses : a >= e => mem'[a] = mem[a]
    <3>1. \A a \in Addresses : a >= e => a >= e - 8
      BY <1>3 DEF Addresses
    <3>2. QED
      BY <1>11, <3>1
  <2>2. Kept(D)'
    <3>1. Base(D)' = e - 2 /\ DOMAIN own = FrameOffsets
      BY <1>8, <1>9 DEF Base
    <3>2. \A o \in FrameOffsets : (e - 2) + o \in Addresses
      BY <1>2, <1>3, Geometry DEF e
    <3>3. \A o \in FrameOffsets : ((e - 2) + o) - (e - 2) = o
      BY <1>3, <1>6
    <3>4. \A o \in FrameOffsets : mem'[(e - 2) + o] = own[o]
      BY <1>5, <3>2, <3>3
    <3> HIDE DEF own
    <3>5. QED
      BY <1>8, <1>9, <3>1, <3>4 DEF Kept
  <2>3. Saved(D)'
    BY <1>2, <1>3, <1>8, <1>9, <1>11, SavedKept DEF e
  <2>4. Filled(D)'
    BY <1>6, <1>8, <1>9 DEF Filled
  <2>5. /\ acts'[D].entry = acts[D].entry /\ acts'[D].call = acts[D].call
        /\ acts'[D].args = acts[D].args /\ acts'[D].found = acts[D].found
    BY <1>8, <1>9 DEF e
  <2>6. QED
    BY <1>1, <1>2, <1>8, <2>1, <2>2, <2>3, <2>4, <2>5, FramesStep DEF e
<1>13. StepInv'
  <2>1. Base(D)' = Base(D) /\ Bottom(D)' = Bottom(D)
    BY <1>8, <1>9 DEF Base, Bottom, e
  <2>2. step' = "body" /\ bp' = Base(D) /\ sp' = Bottom(D)
    BY <1>4, <1>5
  <2>3. QED
    BY <1>2, <1>8, <2>1, <2>2 DEF StepInv
<1>14. QED
  BY <1>10, <1>12, <1>13 DEF IInv

LEMMA CleanUpStep ==
  ASSUME CallsAgree, StackSuffices, IInv, CleanUp
  PROVE  IInv'
<1>1. PICK D \in Nat : D = Depth
  BY LenProperties DEF IInv, CallTypeOK, Depth
<1>2. D >= 1 /\ step = "clean" /\ CallTypeOK /\ FramesInv /\ OrderInv
  BY <1>1 DEF IInv, StepInv, CleanUp
<1> DEFINE e == acts[D].entry
           size == StackBytes(Now.call)
<1>3. /\ D \in 1 .. Depth
      /\ e \in Nat /\ e % 2 = 0 /\ e >= 24 /\ e <= Top - 4 /\ Top \in Nat
      /\ Base(D) = e - 2 /\ Bottom(D) = e - 16
      /\ Kept(D) /\ Saved(D) /\ Filled(D)
  BY <1>1, <1>2, Innermost
<1>4. bp = Base(D) /\ sp = Bottom(D) - size /\ Now.call \in Calls
  BY <1>1, <1>2 DEF IInv, StepInv
<1>5. size \in Int
  BY <1>4, CallFacts
<1>6. /\ sp' = sp + size /\ step' = (IF Now.call.res = 0 THEN "body" ELSE "keep")
      /\ mem' = mem /\ bp' = bp /\ reg' = reg /\ acts' = acts /\ made' = made
      /\ returned' = returned
  BY DEF CleanUp
<1> HIDE DEF e, size
<1>7. sp' = e - 16
  BY <1>3, <1>4, <1>5, <1>6
<1>8. Depth' = D /\ Base(D)' = Base(D) /\ Bottom(D)' = Bottom(D) /\ Now' = Now
  BY <1>1, <1>6 DEF Depth, Base, Bottom, Now
<1>9. CallTypeOK'
  <2>1. sp' \in Addresses
    BY <1>3, <1>7 DEF Addresses
  <2>2. step' \in Steps
    BY <1>6 DEF Steps
  <2>3. QED
    BY <1>1, <1>2, <1>6, <1>8, <2>1, <2>2 DEF CallTypeOK
<1>10. FramesInv' /\ OrderInv'
  <2>1. Kept(D)' /\ Saved(D)' /\ Filled(D)'
    BY <1>3, <1>6 DEF Kept, Saved, Filled, Base
  <2>2. QED
    BY <1>1, <1>2, <1>6, <1>8, <2>1, FramesStep
<1>11. StepInv'
  <2>1. /\ Now.call.res # 0 => reg["ax"] = returned[1]
        /\ Now.call.res = 32 => reg["dx"] = returned[2]
    BY <1>2 DEF IInv, StepInv
  <2>2. /\ step' \in {"body", "keep"} /\ bp' = Base(D)' /\ sp' = Bottom(D)'
        /\ step' = "keep" => Now.call.res # 0
    BY <1>3, <1>4, <1>6, <1>7, <1>8
  <2>3. QED
    BY <1>2, <1>6, <1>8, <2>1, <2>2 DEF StepInv
<1>12. QED
  BY <1>9, <1>10, <1>11 DEF IInv
LEMMA KeepResultStep ==
  ASSUME CallsAgree, StackSuffices, IInv, KeepResult
  PROVE  IInv'
<1>1. PICK D \in Nat : D = Depth
  BY LenProperties DEF IInv, CallTypeOK, Depth
<1>2. D >= 1 /\ step = "keep" /\ CallTypeOK /\ FramesInv /\ OrderInv
  BY <1>1 DEF IInv, StepInv, KeepResult
<1> DEFINE e == acts[D].entry
           wide == Now.call.res = 32
           old == acts[D].cells
           new == IF wide THEN [old EXCEPT ![Temp] = returned[1], ![Temp + 2] = returned[2]]
                  ELSE [old EXCEPT ![Temp] = returned[1]]
           b == [acts[D] EXCEPT !.cells = new]
<1>3. /\ D \in 1 .. Depth
      /\ e \in Nat /\ e % 2 = 0 /\ e >= 24 /\ e <= Top - 4
      /\ Base(D) = e - 2 /\ Bottom(D) = e - 16 /\ acts[D] \in Activations
      /\ DOMAIN mem = Addresses /\ Kept(D) /\ Saved(D) /\ Filled(D)
  BY <1>1, <1>2, Innermost
<1>4. /\ bp = Base(D) /\ sp = Bottom(D)
      /\ reg["ax"] = returned[1] /\ (wide => reg["dx"] = returned[2])
  BY <1>1, <1>2 DEF IInv, StepInv
<1>5. /\ mem' = IF wide THEN [mem EXCEPT ![e - 16] = returned[1], ![e - 14] = returned[2]]
                 ELSE [mem EXCEPT ![e - 16] = returned[1]]
      /\ sp' = sp /\ bp' = bp /\ reg' = reg /\ step' = "body" /\ made' = made
      /\ returned' = returned
  <2>1. bp + Temp = e - 16 /\ bp + Temp + 2 = e - 14
    BY <1>3, <1>4 DEF Temp
  <2> HIDE DEF e
  <2>2. QED
    BY <1>4, <2>1 DEF KeepResult
<1>6. acts' = [acts EXCEPT ![D] = b]
  <2>1. CASE wide
    BY <1>1, <2>1, ZenonT(40) DEF KeepResult
  <2>2. CASE ~wide
    BY <1>1, <2>2 DEF KeepResult
  <2>3. QED
    BY <2>1, <2>2
<1>7. returned[1] \in Words /\ returned[2] \in Words /\ mem \in [Addresses -> Words]
  BY <1>2 DEF CallTypeOK
<1>8. old \in [FrameOffsets -> Words] /\ Temp \in FrameOffsets /\ Temp + 2 \in FrameOffsets
  BY <1>3 DEF Filled, FrameOffsets
<1>9. new \in [FrameOffsets -> Words]
  BY <1>7, <1>8
<1>10. b \in Activations
  BY <1>3, <1>9 DEF Activations
<1>11. /\ acts' \in Seq(Activations) /\ Depth' = D /\ acts'[D] = b
       /\ \A i \in 1 .. D - 1 : acts'[i] = acts[i]
  BY <1>1, <1>2, <1>6, <1>10, Updated DEF CallTypeOK
<1>12. /\ b.entry = e /\ b.call = acts[D].call /\ b.args = acts[D].args
       /\ b.found = acts[D].found /\ b.cells = new
  BY <1>3 DEF Activations
<1> HIDE DEF e, b
<1>13. CallTypeOK'
  <2>1. mem' \in [Addresses -> Words]
    BY <1>5, <1>7
  <2>2. step' \in Steps
    BY <1>5 DEF Steps
  <2>3. QED
    BY <1>1, <1>2, <1>5, <1>11, <2>1, <2>2 DEF CallTypeOK
<1>14. FramesInv' /\ OrderInv'
  <2>1. \A a \in Addresses : a \in Int
    BY DEF Addresses
  <2>2. \A a \in Addresses : a >= e - 8 => mem'[a] = mem[a]
    BY ONLY <1>3, <1>5, <2>1
  <2>3. \A a \in Addresses : a >= e => mem'[a] = mem[a]
    <3>1. \A a \in Addresses : a >= e => a >= e - 8
      BY <1>3, <2>1
    <3>2. QED
      BY <2>2, <3>1
  <2>4. Kept(D)'
    <3>1. Base(D)' = e - 2 /\ acts'[D].cells = new /\ DOMAIN new = FrameOffsets
      BY <1>9, <1>11, <1>12 DEF Base
    <3>2. \A o \in FrameOffsets : (e - 2) + o \in Addresses /\ o \in Int
      BY <1>2, <1>3, Geometry DEF e
    <3>3. \A o \in FrameOffsets : mem[(e - 2) + o] = old[o]
      BY <1>3, <1>8 DEF Kept
    <3>4. ASSUME NEW o \in FrameOffsets PROVE mem'[(e - 2) + o] = new[o]
      <4>1. (e - 2) + o \in Addresses /\ o \in Int /\ mem[(e - 2) + o] = old[o]
        BY <3>2, <3>3
      <4>2. ((e - 2) + o = e - 16 <=> o = Temp) /\ ((e - 2) + o = e - 14 <=> o = Temp + 2)
            /\ Temp # Temp + 2 /\ e - 16 # e - 14
        BY <1>3, <4>1 DEF Temp
      <4> HIDE DEF old, wide
      <4>3. CASE wide
        BY <1>3, <1>5, <1>8, <4>1, <4>2, <4>3
      <4>4. CASE ~wide
        BY <1>3, <1>5, <1>8, <4>1, <4>2, <4>4
      <4>5. QED
        BY <4>3, <4>4
    <3> HIDE DEF new
    <3>5. QED
      BY <3>1, <3>4 DEF Kept
  <2>5. Saved(D)'
    BY <1>2, <1>3, <1>11, <1>12, <2>2, SavedKept DEF e
  <2>6. Filled(D)'
    BY <1>9, <1>11, <1>12 DEF Filled
  <2>7. /\ acts'[D].entry = acts[D].entry /\ acts'[D].call = acts[D].call
        /\ acts'[D].args = acts[D].args /\ acts'[D].found = acts[D].found
    BY <1>11, <1>12 DEF e
  <2>8. QED
    BY <1>1, <1>2, <1>11, <2>3, <2>4, <2>5, <2>6, <2>7, FramesStep DEF e
<1>15. StepInv'
  <2>1. Base(D)' = Base(D) /\ Bottom(D)' = Bottom(D)
    BY <1>11, <1>12 DEF Base, Bottom, e
  <2>2. step' = "body" /\ bp' = Base(D) /\ sp' = Bottom(D)
    BY <1>4, <1>5
  <2>3. QED
    BY <1>2, <1>11, <2>1, <2>2 DEF StepInv
<1>16. QED
  BY <1>13, <1>14, <1>15 DEF IInv

LEMMA ExitStep ==
  ASSUME CallsAgree, StackSuffices, IInv, Exit
  PROVE  IInv'
<1>1. step = "exit" /\ CallTypeOK /\ Depth = 0 /\ sp = Top
  BY DEF IInv, StepInv, Exit
<1>2. /\ mem' = [mem EXCEPT ![Top - 2] = reg["ax"], ![Top - 4] = Zero] /\ sp' = Top - 4
      /\ bp' = bp /\ reg' = reg /\ step' = "exited" /\ acts' = acts /\ made' = made
      /\ returned' = returned
  BY <1>1 DEF Exit, PushPair
<1>3. Depth' = 0
  BY <1>1, <1>2 DEF Depth
<1>4. Top - 4 \in Addresses
  <2>1. /\ Room \in Nat /\ Room >= 24 /\ 4 + MaxDepth * Room <= Top
        /\ Top \in Nat /\ Top % 2 = 0 /\ MaxDepth \in Nat /\ MaxDepth >= 1
    BY RoomFacts
  <2>2. MaxDepth * Room \in Nat
    BY <2>1
  <2> DEFINE all == MaxDepth * Room
  <2>3. all \in Nat /\ 4 + all <= Top
    BY <2>1, <2>2
  <2> HIDE DEF all
  <2>4. Top >= 4
    BY <2>1, <2>3
  <2>5. QED
    BY <2>1, <2>4 DEF Addresses
<1>5. mem' \in [Addresses -> Words]
  <2>1. mem \in [Addresses -> Words] /\ reg["ax"] \in Words /\ Zero \in Words
    BY <1>1, WordFacts DEF CallTypeOK, Regs
  <2>2. QED
    BY <1>2, <2>1
<1>6. CallTypeOK'
  BY <1>1, <1>2, <1>3, <1>4, <1>5, BoundsAssumption DEF CallTypeOK, Steps
<1>7. FramesInv' /\ OrderInv' /\ StepInv'
  BY <1>2, <1>3 DEF FramesInv, OrderInv, StepInv
<1>8. QED
  BY <1>6, <1>7 DEF IInv
\* The words of an argument.
LEMMA ArgumentWords ==
  ASSUME reg \in [Regs -> Words], bp \in Int, NEW arg \in Sources, NEW k \in Int,
         NEW local \in Words \X Words
  PROVE  WordsOf(arg, k, local) \in Words \X Words
<1>1. /\ Word("const", k, 0) \in Words /\ Word("const", k, 1) \in Words
      /\ Word("label", k, 0) \in Words
  BY WordFacts DEF Kinds
<1>2. Zero \in Words /\ Segment("ss") \in Words /\ Segment("ds") \in Words
  BY WordFacts
<1>3. Address(bp + Local) \in Words
  <2>1. bp + Local \in Int
    BY DEF Local
  <2>2. QED
    BY <2>1, WordFacts
<1>4. reg["ax"] \in Words /\ reg["dx"] \in Words
  BY DEF Regs
<1>5. CASE arg = "const"
  BY <1>1, <1>5 DEF WordsOf
<1>6. CASE arg = "float"
  BY <1>2, <1>6 DEF WordsOf
<1>7. CASE arg = "global"
  BY <1>1, <1>2, <1>7 DEF WordsOf
<1>8. CASE arg = "alloca"
  BY <1>2, <1>3, <1>8 DEF WordsOf
<1>9. CASE arg \in {"slot", "pointer"}
  BY <1>9 DEF WordsOf
<1>10. CASE arg = "ax"
  BY <1>4, <1>10 DEF WordsOf
<1>11. QED
  BY <1>5, <1>6, <1>7, <1>8, <1>9, <1>10 DEF Sources

LEMMA BeginCallStep ==
  ASSUME CallsAgree, StackSuffices, IInv, NEW call \in Calls, BeginCall(call)
  PROVE  IInv'
<1>1. PICK D \in Nat : D = Depth
  BY LenProperties DEF IInv, CallTypeOK, Depth
<1>2. D >= 1 /\ step = "body" /\ CallTypeOK /\ FramesInv /\ OrderInv
  BY <1>1 DEF IInv, StepInv, BeginCall
<1> DEFINE e == acts[D].entry
           L == Len(call.args)
           old == acts[D].cells
           args == [i \in 1 .. L |-> Meaning(call.args[i], i)]
           now == [call |-> call, next |-> L, ip |-> 0, args |-> args]
           b == [acts[D] EXCEPT !.now = now]
<1>3. /\ D \in 1 .. Depth
      /\ e \in Nat /\ e >= 24 /\ e <= Top - 4 /\ Top \in Nat
      /\ Base(D) = e - 2 /\ Bottom(D) = e - 16 /\ acts[D] \in Activations
      /\ Kept(D) /\ Saved(D) /\ Filled(D)
  BY <1>1, <1>2, Innermost
<1>4. bp = Base(D) /\ sp = Bottom(D)
  BY <1>1, <1>2 DEF IInv, StepInv
<1>5. /\ L \in Nat /\ StackBytes(call) = Before(call, L + 1) /\ StackBytes(call) \in Nat
      /\ \A i \in 1 .. L : call.args[i] \in Sources
  BY CallFacts
<1>6. DOMAIN call.args = 1 .. L
  <2>1. call \in Call
    BY CallFacts
  <2>2. QED
    BY <2>1, LenProperties DEF Call
<1>7. /\ D < MaxDepth /\ made < MaxCalls /\ made' = made + 1 /\ step' = "push"
      /\ mem' = mem /\ sp' = sp /\ bp' = bp /\ reg' = reg /\ returned' = returned
  BY <1>1 DEF BeginCall
<1>8. acts' = [acts EXCEPT ![D] = b]
  BY <1>1, <1>6 DEF BeginCall
<1>9. mem \in [Addresses -> Words] /\ reg \in [Regs -> Words] /\ bp \in Int
  BY <1>2, <1>3, <1>4 DEF CallTypeOK
<1>10. /\ old[Local] \in Words /\ old[Local + 2] \in Words
       /\ mem[bp + Local] = old[Local] /\ mem[bp + Local + 2] = old[Local + 2]
  <2>1. Local \in FrameOffsets /\ Local + 2 \in FrameOffsets /\ old \in [FrameOffsets -> Words]
    BY <1>3 DEF FrameOffsets, Filled
  <2>2. mem[Base(D) + Local] = old[Local] /\ mem[Base(D) + (Local + 2)] = old[Local + 2]
    BY <1>3, <2>1 DEF Kept
  <2>3. bp + (Local + 2) = bp + Local + 2
    BY <1>9 DEF Local
  <2>4. QED
    BY <1>4, <2>1, <2>2, <2>3
<1>11. ASSUME NEW k \in 1 .. L
       PROVE  /\ Meaning(call.args[k], k) \in Words \X Words
              /\ call.args[k] # "float" =>
                   Meaning(call.args[k], k) = WordsOf(call.args[k], k, <<mem[bp + Local], mem[bp + Local + 2]>>)
  <2>1. call.args[k] \in Sources /\ k \in Int
    BY <1>5
  <2>2. <<old[Local], old[Local + 2]>> \in Words \X Words
    BY <1>10
  <2>3. WordsOf(call.args[k], k, <<old[Local], old[Local + 2]>>) \in Words \X Words
    BY <1>9, <2>1, <2>2, ArgumentWords
  <2>4. <<Word("float", k, 0), Word("float", k, 1)>> \in Words \X Words
    BY <2>1, WordFacts DEF Kinds
  <2>5. QED
    BY <1>1, <1>10, <2>3, <2>4 DEF Meaning
<1>12. b \in Activations
  <2>1. args \in Seq(Words \X Words)
    BY <1>5, <1>11
  <2> HIDE DEF args
  <2>2. now \in Made
    BY <1>5, <2>1 DEF Made
  <2> HIDE DEF now
  <2>3. QED
    BY <1>3, <2>2 DEF Activations
<1>13. /\ acts' \in Seq(Activations) /\ Depth' = D /\ acts'[D] = b
       /\ \A i \in 1 .. D - 1 : acts'[i] = acts[i]
  BY <1>1, <1>2, <1>8, <1>12, Updated DEF CallTypeOK
<1>14. /\ b.entry = e /\ b.call = acts[D].call /\ b.args = acts[D].args
       /\ b.found = acts[D].found /\ b.cells = acts[D].cells /\ b.now = now
  BY <1>3 DEF Activations
<1>15. Now' = now
  BY <1>13, <1>14 DEF Now
<1>16. now.call = call /\ now.next = L /\ now.args = args
  OBVIOUS
<1>17. Len(args) = L /\ \A k \in 1 .. L : args[k] = Meaning(call.args[k], k)
  BY <1>5
<1> HIDE DEF e, b, now, args
<1>18. CallTypeOK'
  <2>1. made' \in 0 .. MaxCalls /\ step' \in Steps
    BY <1>2, <1>7, BoundsAssumption DEF CallTypeOK, Steps
  <2>2. QED
    BY <1>1, <1>2, <1>7, <1>13, <2>1 DEF CallTypeOK
<1>19. FramesInv' /\ OrderInv'
  <2>1. Kept(D)' /\ Saved(D)' /\ Filled(D)'
    BY <1>3, <1>7, <1>13, <1>14 DEF Kept, Saved, Filled, Base, e
  <2>2. /\ acts'[D].entry = acts[D].entry /\ acts'[D].call = acts[D].call
        /\ acts'[D].args = acts[D].args /\ acts'[D].found = acts[D].found
    BY <1>13, <1>14 DEF e
  <2>3. QED
    BY <1>1, <1>2, <1>7, <1>13, <2>1, <2>2, FramesStep
<1>20. StepInv'
  <2>1. Base(D)' = Base(D) /\ Bottom(D)' = Bottom(D)
    BY <1>13, <1>14 DEF Base, Bottom, e
  <2>2. PushedInv'
    <3>1. sp' = Bottom(D) - StackBytes(call) + Before(call, L + 1)
      BY <1>3, <1>4, <1>5, <1>7
    <3>2. \A k \in L + 1 .. L : FALSE
      BY <1>5
    <3>3. L \in 0 .. L
      BY <1>5
    <3>4. \A k \in 1 .. L : call.args[k] # "float" =>
            WordsOf(call.args[k], k, <<mem[bp + Local], mem[bp + Local + 2]>>) = args[k]
      BY <1>11, <1>17
    <3>5. \A k \in 1 .. L : call.args[k] # "float" =>
            WordsOf(call.args[k], k, <<mem[bp + Local], mem[bp + Local + 2]>>)' = args[k]
      BY <1>7, <3>4 DEF WordsOf
    <3>6. QED
      BY <1>5, <1>7, <1>13, <1>15, <1>16, <1>17, <2>1, <3>1, <3>2, <3>3, <3>5 DEF PushedInv
  <2>3. step' = "push" /\ bp' = Base(D)
    BY <1>4, <1>7
  <2>4. QED
    BY <1>2, <1>13, <2>1, <2>2, <2>3 DEF StepInv
<1>21. QED
  BY <1>18, <1>19, <1>20 DEF IInv

\* Where control goes: what a function saved is above the temps, and its return
\* address above what it saved.
LEMMA ReturnFacts ==
  ASSUME CallsAgree, StackSuffices, IInv, Return, NEW D \in Nat, D = Depth
  PROVE  LET e == acts[D].entry
             found == acts[D].found
         IN /\ D >= 1
            /\ bp' = found.bp /\ sp' = e + 4
            /\ reg' = [reg EXCEPT !["di"] = found.reg["di"], !["si"] = found.reg["si"],
                                  !["bx"] = found.reg["bx"],
                                  !["ax"] = IF acts[D].call.res = 0 THEN reg["ax"] ELSE returned'[1],
                                  !["dx"] = IF acts[D].call.res = 32 THEN returned'[2] ELSE reg["dx"]]
            /\ step' = IF D = 1 THEN "exit" ELSE "clean"
            /\ returned' \in Words \X Words
            /\ acts' = SubSeq(acts, 1, D - 1) /\ mem' = mem /\ made' = made
<1>1. D >= 1 /\ step = "body" /\ CallTypeOK
  BY DEF IInv, StepInv, Return
<1> DEFINE e == acts[D].entry
           found == acts[D].found
<1>2. /\ e \in Nat /\ e >= 24 /\ e <= Top - 4
      /\ Base(D) = e - 2 /\ acts[D] \in Activations /\ Saved(D) /\ Entered(D)
  BY <1>1, Innermost
<1>3. bp = e - 2
  BY <1>1, <1>2 DEF IInv, StepInv
<1>4. found.bp \in Int
  <2>1. found.bp \in Addresses \cup {Top}
    BY <1>2 DEF Activations
  <2>2. QED
    BY <2>1, BoundsAssumption DEF Addresses
<1>5. /\ mem[e - 2] = Address(found.bp) /\ mem[e - 4] = found.reg["bx"]
      /\ mem[e - 6] = found.reg["si"] /\ mem[e - 8] = found.reg["di"]
      /\ mem[e] = Word("ip", IF D = 1 THEN 0 ELSE acts[D - 1].now.ip, 0)
  <2>1. /\ mem[e - 2] = Address(found.bp) /\ mem[e - 2 - 2] = found.reg["bx"]
        /\ mem[e - 2 - 4] = found.reg["si"] /\ mem[e - 2 - 6] = found.reg["di"]
    BY <1>2 DEF Saved
  <2>2. mem[e] = Word("ip", IF D = 1 THEN 0 ELSE acts[D - 1].now.ip, 0)
    BY <1>2 DEF Entered
  <2>3. e - 2 - 2 = e - 4 /\ e - 2 - 4 = e - 6 /\ e - 2 - 6 = e - 8
    BY <1>2
  <2>4. QED
    BY <2>1, <2>2, <2>3
<1>6. EpilogueTop = e - 8
  BY <1>2, <1>3 DEF EpilogueTop, SavedRegs
<1>7. /\ (e - 8) + 6 = e - 2 /\ (e - 8) + 12 = e + 4 /\ (e - 8) + 2 = e - 6
      /\ (e - 8) + 4 = e - 4 /\ (e - 8) + 8 = e
  BY <1>2
<1> HIDE DEF e, found
<1>8. bp' = found.bp /\ sp' = e + 4
  <2>1. Number(Address(found.bp)) = found.bp
    BY <1>4, WordFacts
  <2>2. QED
    BY <1>5, <1>6, <1>7, <2>1 DEF Return
<1>9. returned' = <<Word("result", made, 0), Word("result", made, 1)>>
  BY DEF Return
<1>10. returned' \in Words \X Words
  <2>1. made \in Int
    BY <1>1 DEF CallTypeOK
  <2>2. Word("result", made, 0) \in Words /\ Word("result", made, 1) \in Words
    BY <2>1, WordFacts DEF Kinds
  <2>3. QED
    BY <1>9, <2>2
<1>11. step' = IF D = 1 THEN "exit" ELSE "clean"
  <2>1. CASE D = 1
    BY <1>5, <1>6, <1>7, <2>1 DEF Return
  <2>2. CASE D # 1
    <3>1. D > 1
      BY <1>1, <2>2
    <3>2. QED
      BY <1>5, <1>6, <1>7, <2>2, <3>1 DEF Return
  <2>3. QED
    BY <2>1, <2>2
<1>12. reg' = [reg EXCEPT !["di"] = found.reg["di"], !["si"] = found.reg["si"],
                          !["bx"] = found.reg["bx"],
                          !["ax"] = IF acts[D].call.res = 0 THEN reg["ax"] ELSE returned'[1],
                          !["dx"] = IF acts[D].call.res = 32 THEN returned'[2] ELSE reg["dx"]]
  <2>1. /\ mem[EpilogueTop] = found.reg["di"] /\ mem[EpilogueTop + 2] = found.reg["si"]
        /\ mem[EpilogueTop + 4] = found.reg["bx"]
    BY <1>5, <1>6, <1>7
  <2>2. reg' = [reg EXCEPT !["di"] = mem[EpilogueTop], !["si"] = mem[EpilogueTop + 2],
                           !["bx"] = mem[EpilogueTop + 4],
                           !["ax"] = IF acts[D].call.res = 0 THEN @ ELSE returned'[1],
                           !["dx"] = IF acts[D].call.res = 32 THEN returned'[2] ELSE @]
    BY DEF Return
  <2>3. "ax" # "di" /\ "ax" # "si" /\ "ax" # "bx" /\ "dx" # "di" /\ "dx" # "si" /\ "dx" # "bx"
        /\ "ax" # "dx"
    OBVIOUS
  <2>4. reg \in [Regs -> Words]
    BY <1>1 DEF CallTypeOK
  <2>5. QED
    BY <2>1, <2>2, <2>3, <2>4
<1>13. acts' = SubSeq(acts, 1, D - 1) /\ mem' = mem /\ made' = made
  BY DEF Return
<1>14. QED
  BY <1>1, <1>8, <1>10, <1>11, <1>12, <1>13 DEF e, found
LEMMA ReturnStep ==
  ASSUME CallsAgree, StackSuffices, IInv, Return
  PROVE  IInv'
<1>1. PICK D \in Nat : D = Depth
  BY LenProperties DEF IInv, CallTypeOK, Depth
<1> DEFINE e == acts[D].entry
           found == acts[D].found
<1>2. /\ D >= 1 /\ bp' = found.bp /\ sp' = e + 4
      /\ reg' = [reg EXCEPT !["di"] = found.reg["di"], !["si"] = found.reg["si"],
                            !["bx"] = found.reg["bx"],
                            !["ax"] = IF acts[D].call.res = 0 THEN reg["ax"] ELSE returned'[1],
                            !["dx"] = IF acts[D].call.res = 32 THEN returned'[2] ELSE reg["dx"]]
      /\ step' = IF D = 1 THEN "exit" ELSE "clean"
      /\ returned' \in Words \X Words
      /\ acts' = SubSeq(acts, 1, D - 1) /\ mem' = mem /\ made' = made
  BY <1>1, ReturnFacts
<1>3. CallTypeOK /\ FramesInv /\ OrderInv
  BY DEF IInv
<1>4. /\ D \in 1 .. Depth /\ D <= MaxDepth
      /\ e \in Nat /\ e % 2 = 0 /\ e >= 24 /\ e <= Top - 4 /\ Top \in Nat /\ Top % 2 = 0
      /\ acts[D] \in Activations /\ Entered(D) /\ acts \in Seq(Activations)
  BY <1>1, <1>2, Innermost
<1>5. acts' \in Seq(Activations) /\ Depth' = D - 1 /\ \A i \in 1 .. D - 1 : acts'[i] = acts[i]
  <2>1. Len(acts) = D /\ acts \in Seq(Activations) /\ 1 \in Int /\ D - 1 \in Int
    BY <1>1, <1>4 DEF Depth
  <2>2. 1 \in 1 .. Len(acts) + 1 /\ D - 1 \in 1 - 1 .. Len(acts)
    BY <1>2, <2>1
  <2>3. /\ SubSeq(acts, 1, D - 1) \in Seq(Activations)
        /\ Len(SubSeq(acts, 1, D - 1)) = IF 1 <= D - 1 THEN (D - 1) - 1 + 1 ELSE 0
        /\ \A i \in 1 .. (D - 1) - 1 + 1 : SubSeq(acts, 1, D - 1)[i] = acts[1 + i - 1]
    BY <2>1, <2>2, SubSeqProperties
  <2>4. \A i \in 1 .. D - 1 : i \in 1 .. (D - 1) - 1 + 1 /\ 1 + i - 1 = i
    BY <2>1
  <2>5. Len(SubSeq(acts, 1, D - 1)) = D - 1
    BY <1>2, <2>1, <2>3
  <2>6. QED
    BY <1>2, <2>3, <2>4, <2>5 DEF Depth
<1>6. \A r \in Regs : reg[r] \in Words /\ found.reg[r] \in Words
  BY <1>3, <1>4 DEF CallTypeOK, Activations
<1>7. found.bp \in Addresses \cup {Top}
  BY <1>4 DEF Activations
<1> HIDE DEF e, found
<1>8. CallTypeOK'
  <2>1. reg' \in [Regs -> Words]
    <3>1. reg \in [Regs -> Words]
      BY <1>3 DEF CallTypeOK
    <3>2. /\ found.reg["di"] \in Words /\ found.reg["si"] \in Words /\ found.reg["bx"] \in Words
          /\ reg["ax"] \in Words /\ reg["dx"] \in Words
      BY <1>6 DEF Regs
    <3>3. returned'[1] \in Words /\ returned'[2] \in Words
      BY <1>2
    <3>4. QED
      BY <1>2, <3>1, <3>2, <3>3
  <2>2. sp' \in Addresses \cup {Top}
    <3>1. e + 4 \in Nat /\ (e + 4) % 2 = 0 /\ (e + 4 = Top \/ e + 4 <= Top - 2)
      BY ONLY <1>4
    <3>2. QED
      BY <1>2, <3>1 DEF Addresses
  <2>3. step' \in Steps
    BY <1>2 DEF Steps
  <2>4. D - 1 <= MaxDepth
    BY <1>4, BoundsAssumption
  <2>5. QED
    BY <1>2, <1>3, <1>5, <1>7, <2>1, <2>2, <2>3, <2>4 DEF CallTypeOK
<1>9. FramesInv'
  <2>1. ASSUME NEW i \in 1 .. D - 1 PROVE (Entered(i) /\ Kept(i) /\ Saved(i) /\ Filled(i))'
    <3>1. i \in 1 .. Depth /\ i < Depth
      BY <1>1, <1>2
    <3>2. Entered(i) /\ Kept(i) /\ Saved(i) /\ Filled(i)
      BY <1>3, <3>1 DEF FramesInv
    <3>3. acts'[i] = acts[i] /\ (i > 1 => acts'[i - 1] = acts[i - 1])
      <4>1. i > 1 => i - 1 \in 1 .. D - 1
        BY <1>1
      <4>2. QED
        BY <1>5, <4>1
    <3>4. Entered(i)'
      BY <1>2, <1>3, <3>1, <3>3, EnteredKept
    <3>5. QED
      BY <1>2, <3>2, <3>3, <3>4 DEF Kept, Saved, Filled, Base
  <2>2. QED
    BY <1>5, <2>1 DEF FramesInv
<1>10. OrderInv'
  <2>1. \A i \in 1 .. D - 1 : i \in 1 .. Depth /\ acts'[i] = acts[i]
    BY <1>1, <1>5
  <2>2. QED
    BY <1>3, <1>5, <2>1 DEF OrderInv
<1>11. StepInv'
  <2>1. CASE D = 1
    <3>1. acts[1].entry = Top - 4
      BY <1>4, <2>1 DEF Entered
    <3>2. sp' = Top /\ Depth' = 0 /\ step' = "exit"
      BY <1>2, <1>4, <1>5, <2>1, <3>1 DEF e
    <3>3. QED
      BY <3>2 DEF StepInv
  <2>2. CASE D # 1
    <3> DEFINE call == acts[D - 1].now.call
               p == acts[D - 1].entry
    <3>1. D - 1 \in Nat /\ D - 1 >= 1 /\ D - 1 \in 1 .. Depth
      BY <1>1, <1>2, <2>2
    <3>2. /\ e = Bottom(D - 1) - StackBytes(call) - 4 /\ acts[D].call = call /\ call \in Calls
          /\ found.bp = Base(D - 1)
      BY <1>4, <2>2 DEF Entered, e, found
    <3>3. acts'[D - 1] = acts[D - 1] /\ Depth' = D - 1
      BY <1>5, <3>1
    <3>4. Now'.call = call /\ Base(D - 1)' = Base(D - 1) /\ Bottom(D - 1)' = Bottom(D - 1)
      BY <3>3 DEF Now, Base, Bottom
    <3>5. StackBytes(call) \in Nat /\ Bottom(D - 1) \in Addresses
      BY <1>3, <3>1, <3>2, CallFacts, Geometry
    <3> HIDE DEF call
    <3>6. sp' = Bottom(D - 1) - StackBytes(call)
      BY <1>2, <1>4, <3>2, <3>5, SMTT(30) DEF Addresses
    <3>7. reg \in [Regs -> Words]
      BY <1>3 DEF CallTypeOK
    <3>8. /\ call.res # 0 => reg'["ax"] = returned'[1]
          /\ call.res = 32 => reg'["dx"] = returned'[2]
      BY <1>2, <3>2, <3>7 DEF Regs
    <3>9. step' = "clean" /\ bp' = Base(D - 1)
      BY <1>2, <2>2, <3>2
    <3>10. QED
      BY <3>1, <3>2, <3>3, <3>4, <3>6, <3>8, <3>9 DEF StepInv
  <2>3. QED
    BY <2>1, <2>2
<1>12. QED
  BY <1>8, <1>9, <1>10, <1>11 DEF IInv
\* The arguments of a call are below the frame of the caller, and there is room for
\* them and for a frame of the callee.
LEMMA PushFacts ==
  ASSUME CallsAgree, StackSuffices, IInv, step = "push", NEW D \in Nat, D = Depth
  PROVE  LET e == acts[D].entry
             call == Now.call
             size == StackBytes(call)
         IN /\ D >= 1 /\ D \in 1 .. Depth /\ D < MaxDepth /\ MaxDepth \in Nat
            /\ e \in Nat /\ e % 2 = 0 /\ e <= Top - 4 /\ Top \in Nat /\ Top % 2 = 0
            /\ size \in Nat /\ size % 2 = 0 /\ size + 48 <= e
            /\ e - 20 - size >= (MaxDepth - (D + 1) + 1) * Room
            /\ (MaxDepth - (D + 1) + 1) * Room >= 24
            /\ Base(D) = e - 2 /\ Bottom(D) = e - 16 /\ bp = e - 2
            /\ acts[D] \in Activations /\ acts \in Seq(Activations)
            /\ mem \in [Addresses -> Words] /\ reg \in [Regs -> Words]
            /\ Kept(D) /\ Saved(D) /\ Filled(D)
            /\ call \in Calls /\ PushedInv
<1>1. D >= 1 /\ CallTypeOK /\ FramesInv
  BY DEF IInv, StepInv
<1> DEFINE e == acts[D].entry
           call == Now.call
           size == StackBytes(call)
<1>2. /\ D \in 1 .. Depth
      /\ e \in Nat /\ e % 2 = 0 /\ e <= Top - 4 /\ Top \in Nat /\ Top % 2 = 0
      /\ Base(D) = e - 2 /\ Bottom(D) = e - 16 /\ acts[D] \in Activations
      /\ acts \in Seq(Activations)
      /\ Kept(D) /\ Saved(D) /\ Filled(D) /\ Entered(D)
  BY <1>1, Innermost
<1>3. bp = e - 2 /\ PushedInv
  BY <1>1, <1>2 DEF IInv, StepInv
<1>4. call \in Calls /\ D < MaxDepth
  BY <1>3 DEF PushedInv
<1>5. size \in Nat /\ size % 2 = 0
  <2> DEFINE n == Len(call.args)
  <2>1. n \in Nat /\ size \in Nat /\ size = Before(call, n + 1)
        /\ \A k \in 1 .. n + 1 : Before(call, k) % 2 = 0
    BY <1>4, CallFacts
  <2>2. n + 1 \in 1 .. n + 1
    BY <2>1
  <2>3. QED
    BY <2>1, <2>2
<1>6. Room \in Nat /\ size + 24 <= Room /\ MaxDepth \in Nat /\ Room >= 24
  BY <1>4, RoomFacts
<1> DEFINE outer == (MaxDepth - D + 1) * Room
           inner == (MaxDepth - (D + 1) + 1) * Room
<1>7. inner = outer - Room /\ outer \in Nat
  BY <1>4, <1>6, RoomBelow
<1>8. inner \in Nat /\ inner >= Room
  BY <1>4, <1>6, RoomBelow
<1>9. e >= outer
  BY <1>2 DEF Entered
<1> HIDE DEF e, size, outer, inner
<1>10. e - 20 - size >= inner /\ inner >= 24 /\ size + 48 <= e
  BY ONLY <1>2, <1>5, <1>6, <1>7, <1>8, <1>9
<1>11. mem \in [Addresses -> Words] /\ reg \in [Regs -> Words]
  BY <1>1 DEF CallTypeOK
<1>12. QED
  BY <1>1, <1>2, <1>3, <1>4, <1>5, <1>6, <1>10, <1>11 DEF e, size, inner

LEMMA PushArgumentStep ==
  ASSUME CallsAgree, StackSuffices, IInv, PushArgument
  PROVE  IInv'
<1>1. PICK D \in Nat : D = Depth
  BY LenProperties DEF IInv, CallTypeOK, Depth
<1> DEFINE e == acts[D].entry
           call == Now.call
           size == StackBytes(call)
           below == e - 16 - size
           n == Now.next
           arg == call.args[n]
           local == <<mem[bp + Local], mem[bp + Local + 2]>>
           words == WordsOf(arg, n, local)
           wide == BytesPushed(call, n) = 4
           now == [Now EXCEPT !.next = n - 1]
           b == [acts[D] EXCEPT !.now = now]
<1>2. step = "push" /\ n > 0
  BY DEF PushArgument
<1>3. /\ D >= 1 /\ D \in 1 .. Depth /\ D < MaxDepth
      /\ e \in Nat /\ e % 2 = 0 /\ e <= Top - 4 /\ Top \in Nat /\ Top % 2 = 0
      /\ size \in Nat /\ size % 2 = 0 /\ size + 48 <= e
      /\ Base(D) = e - 2 /\ Bottom(D) = e - 16 /\ bp = e - 2
      /\ acts[D] \in Activations
      /\ mem \in [Addresses -> Words] /\ reg \in [Regs -> Words]
      /\ Kept(D) /\ Saved(D) /\ Filled(D)
      /\ call \in Calls /\ PushedInv
  BY <1>1, <1>2, PushFacts
<1>4. CallTypeOK /\ FramesInv /\ OrderInv
  BY DEF IInv
<1>5. /\ n \in 0 .. Len(call.args) /\ sp = below + Before(call, n + 1)
      /\ Len(Now.args) = Len(call.args)
      /\ \A k \in n + 1 .. Len(call.args) : HoldsArg(below + Before(call, k), call, k, Now.args[k])
      /\ \A k \in 1 .. n : call.args[k] # "float" => WordsOf(call.args[k], k, local) = Now.args[k]
  BY <1>1, <1>3 DEF PushedInv
<1>6. Len(call.args) \in Nat
  BY <1>3, CallFacts
<1>7. n \in 1 .. Len(call.args) /\ n \in 1 .. n /\ n - 1 \in 0 .. Len(call.args) /\ n \in Nat
  BY <1>2, <1>5, <1>6
<1>8. /\ BytesPushed(call, n) \in {2, 4} /\ arg \in Sources
      /\ Before(call, n + 1) = Before(call, n) + BytesPushed(call, n)
      /\ \A k \in 1 .. Len(call.args) + 1 : Before(call, k) \in Nat /\ Before(call, k) % 2 = 0
                                            /\ Before(call, k) <= size
      /\ \A j, k \in 1 .. Len(call.args) + 1 : j <= k => Before(call, j) <= Before(call, k)
  BY <1>3, <1>7, CallFacts
<1>9. words \in Words \X Words
  <2>1. local \in Words \X Words
    <3>1. bp + Local \in Addresses /\ bp + Local + 2 \in Addresses
      BY <1>3 DEF Local, Addresses
    <3>2. QED
      BY <1>3, <3>1
  <2>2. bp \in Int /\ n \in Int
    BY <1>3, <1>7, SMTT(30)
  <2>3. QED
    BY <1>3, <1>8, <2>1, <2>2, ArgumentWords
<1>10. /\ IF wide THEN PushPair(words[1], words[2]) ELSE PushWord(words[1])
       /\ reg' = IF GoesThroughAx(arg, wide) THEN [reg EXCEPT !["ax"] = words[1]] ELSE reg
       /\ bp' = bp /\ step' = step /\ made' = made /\ returned' = returned
  BY DEF PushArgument
<1>11. acts' = [acts EXCEPT ![D] = b]
  BY <1>1 DEF PushArgument, Now
<1>12. Now = acts[D].now /\ Now \in Made
  BY <1>1, <1>3 DEF Now, Activations
<1>13. /\ now \in Made /\ now.call = call /\ now.next = n - 1 /\ now.args = Now.args
  <2>1. n - 1 \in Nat
    BY <1>7
  <2>2. QED
    BY <1>12, <2>1 DEF Made
<1>14. b \in Activations
  <2> HIDE DEF now
  <2>1. QED
    BY <1>3, <1>13 DEF Activations
<1>15. /\ b.entry = e /\ b.call = acts[D].call /\ b.args = acts[D].args
       /\ b.found = acts[D].found /\ b.cells = acts[D].cells /\ b.now = now
  BY <1>3 DEF Activations
<1>16. /\ acts' \in Seq(Activations) /\ Depth' = D /\ acts'[D] = b
       /\ \A i \in 1 .. D - 1 : acts'[i] = acts[i]
  BY <1>1, <1>3, <1>4, <1>11, <1>14, Updated DEF CallTypeOK
<1>17. Now' = now
  BY <1>15, <1>16 DEF Now
<1>18. /\ Before(call, n) \in Nat /\ Before(call, n) % 2 = 0 /\ Before(call, n + 1) <= size
       /\ Before(call, n + 1) \in Nat /\ Before(call, n + 1) % 2 = 0
  <2>1. n \in 1 .. Len(call.args) + 1 /\ n + 1 \in 1 .. Len(call.args) + 1
    BY <1>6, <1>7
  <2>2. QED
    BY <1>8, <2>1
<1> DEFINE s == sp
           before == Before(call, n)
           w == BytesPushed(call, n)
<1>19. /\ s = below + before + w /\ s \in Nat /\ s % 2 = 0 /\ s <= e - 16 /\ s - w >= 32
       /\ below \in Nat /\ w \in {2, 4}
  <2>1. s = e - 16 - size + Before(call, n + 1)
    BY <1>5
  <2>2. Before(call, n + 1) = before + w /\ w \in {2, 4}
    BY <1>8
  <2> DEFINE after == Before(call, n + 1)
  <2>3. after = before + w /\ after <= size /\ before \in Nat /\ before % 2 = 0
    BY <1>18, <2>2
  <2> HIDE DEF e, size, before, w, s, after
  <2>4. s = e - 16 - size + after
    BY <2>1 DEF after
  <2>5. QED
    BY ONLY <1>3, <2>2, <2>3, <2>4
<1> HIDE DEF e, size, before, w, s, b, now, words, wide, local
<1>20. /\ mem' \in [Addresses -> Words] /\ sp' = below + before /\ sp' \in Addresses
       /\ mem'[below + before] = words[1] /\ (wide => mem'[below + before + 2] = words[2])
       /\ \A a \in Addresses : a >= s => mem'[a] = mem[a]
  <2>1. words[1] \in Words /\ words[2] \in Words
    BY <1>9
  <2>2. \A a \in Addresses : a \in Int
    BY DEF Addresses
  <2>3. CASE wide
    <3>1. mem' = [mem EXCEPT ![s - 2] = words[2], ![s - 4] = words[1]] /\ sp' = s - 4
      BY <1>10, <2>3 DEF PushPair, s
    <3>2. w = 4
      BY <2>3 DEF wide, w
    <3>3. s - 4 = below + before /\ s - 2 = below + before + 2 /\ s - 2 # s - 4
      BY <1>3, <1>18, <1>19, <3>2 DEF before
    <3>4. s - 4 \in Addresses /\ s - 2 \in Addresses
      BY <1>3, <1>19, <3>2 DEF Addresses
    <3>5. \A a \in Addresses : a >= s => a # s - 2 /\ a # s - 4
      BY <1>19, <2>2
    <3> HIDE DEF below
    <3>6. /\ mem' \in [Addresses -> Words] /\ mem'[s - 4] = words[1] /\ mem'[s - 2] = words[2]
          /\ \A a \in Addresses : a >= s => mem'[a] = mem[a]
      BY <1>3, <2>1, <3>1, <3>3, <3>4, <3>5
    <3>7. QED
      BY <3>1, <3>3, <3>4, <3>6
  <2>4. CASE ~wide
    <3>1. mem' = [mem EXCEPT ![s - 2] = words[1]] /\ sp' = s - 2
      BY <1>10, <2>4 DEF PushWord, s
    <3>2. w = 2
      BY <1>19, <2>4 DEF wide, w
    <3>3. s - 2 = below + before
      BY <1>3, <1>18, <1>19, <3>2 DEF before
    <3>4. s - 2 \in Addresses
      BY <1>3, <1>19, <3>2 DEF Addresses
    <3>5. \A a \in Addresses : a >= s => a # s - 2
      BY <1>19, <2>2
    <3> HIDE DEF below
    <3>6. /\ mem' \in [Addresses -> Words] /\ mem'[s - 2] = words[1]
          /\ \A a \in Addresses : a >= s => mem'[a] = mem[a]
      BY <1>3, <2>1, <3>1, <3>4, <3>5
    <3>7. QED
      BY <2>4, <3>1, <3>3, <3>4, <3>6
  <2>5. QED
    BY <2>3, <2>4
<1>21. reg' \in [Regs -> Words]
  <2>1. words[1] \in Words
    BY <1>9
  <2>2. QED
    BY <1>3, <1>10, <2>1
<1>22. CallTypeOK'
  BY <1>1, <1>4, <1>10, <1>16, <1>20, <1>21 DEF CallTypeOK
<1>23. \A a \in Addresses : a >= e - 16 => mem'[a] = mem[a]
  <2>1. \A a \in Addresses : a \in Int
    BY DEF Addresses
  <2>2. \A a \in Addresses : a >= e - 16 => a >= s
    BY ONLY <1>3, <1>19, <2>1
  <2>3. QED
    BY <1>20, <2>2
<1>24. /\ acts'[D].entry = acts[D].entry /\ acts'[D].call = acts[D].call
       /\ acts'[D].args = acts[D].args /\ acts'[D].found = acts[D].found
       /\ acts'[D].cells = acts[D].cells
  BY <1>15, <1>16 DEF e
<1>25. FramesInv' /\ OrderInv'
  <2>1. \A a \in Addresses : (a >= e - 8 => a >= e - 16) /\ (a >= e => a >= e - 16)
    BY <1>3 DEF Addresses
  <2>2. Kept(D)'
    BY <1>3, <1>4, <1>23, <1>24, CellsKept DEF e
  <2>3. Saved(D)'
    BY <1>3, <1>4, <1>23, <1>24, <2>1, SavedKept DEF e
  <2>4. Filled(D)'
    BY <1>3, <1>24 DEF Filled
  <2>5. \A a \in Addresses : a >= e => mem'[a] = mem[a]
    BY <1>23, <2>1
  <2>6. QED
    BY <1>1, <1>3, <1>4, <1>16, <1>24, <2>2, <2>3, <2>4, <2>5, FramesStep DEF e
<1>26. PushedInv'
  <2>1. local' = local
    <3>1. /\ bp + Local \in Addresses /\ bp + Local >= e - 16
          /\ bp + Local + 2 \in Addresses /\ bp + Local + 2 >= e - 16
      BY <1>3 DEF Local, Addresses
    <3>2. QED
      BY <1>10, <1>23, <3>1 DEF local
  <2>2. ASSUME NEW k \in 1 .. n - 1, NEW kind \in Sources, kind = call.args[k], kind # "float"
        PROVE  WordsOf(kind, k, local)' = Now.args[k]
    <3>1. k \in 1 .. n /\ k \in 1 .. Len(call.args) /\ k < n
      BY <1>6, <1>7
    <3>2. WordsOf(kind, k, local) = Now.args[k]
      BY <1>5, <2>2, <3>1
    <3>3. CASE kind = "ax"
      <4>1. ~GoesThroughAx(arg, wide)
        <5>1. Agreed(call)
          BY <1>3 DEF CallsAgree
        <5>2. QED
          BY <1>7, <2>2, <3>1, <3>3, <5>1 DEF Agreed, wide
      <4>2. reg' = reg
        BY <1>10, <4>1
      <4>3. QED
        BY <3>2, <3>3, <4>2 DEF WordsOf
    <3>4. CASE kind = "const"
      BY <3>2, <3>4 DEF WordsOf
    <3>5. CASE kind = "global"
      BY <3>2, <3>5 DEF WordsOf
    <3>6. CASE kind = "alloca"
      BY <1>10, <3>2, <3>6 DEF WordsOf
    <3>7. CASE kind \in {"slot", "pointer"}
      BY <2>1, <3>2, <3>7 DEF WordsOf
    <3>8. QED
      BY <2>2, <3>3, <3>4, <3>5, <3>6, <3>7 DEF Sources
  <2>3. ASSUME NEW k \in n .. Len(call.args), call.args[k] # "float"
        PROVE  LET a == below + Before(call, k) IN
               /\ mem'[a] = Now.args[k][1]
               /\ BytesPushed(call, k) = 4 => mem'[a + 2] = Now.args[k][2]
    <3>1. CASE k = n
      <4>1. words = Now.args[n]
        BY <1>5, <1>7, <2>3, <3>1 DEF words, local
      <4>2. QED
        BY <1>20, <3>1, <4>1 DEF before, wide
    <3>2. CASE k # n
      <4> DEFINE a == below + Before(call, k)
      <4>1. k \in n + 1 .. Len(call.args) /\ k \in 1 .. Len(call.args) /\ k \in 1 .. Len(call.args) + 1
            /\ n + 1 \in 1 .. Len(call.args) + 1 /\ n + 1 <= k /\ k + 1 \in 1 .. Len(call.args) + 1
        BY <1>6, <1>7, <3>2
      <4>2. HoldsArg(a, call, k, Now.args[k])
        BY <1>5, <4>1
      <4> DEFINE b1 == Before(call, k)
                 b2 == Before(call, n + 1)
                 b3 == Before(call, k + 1)
                 wk == BytesPushed(call, k)
      <4>3. /\ b1 \in Nat /\ b1 % 2 = 0 /\ b2 \in Nat /\ b2 <= b1
            /\ b3 = b1 + wk /\ b3 <= size /\ wk \in {2, 4}
        <5>1. b1 \in Nat /\ b1 % 2 = 0 /\ b2 \in Nat /\ b2 <= b1 /\ b3 <= size
          BY <1>8, <4>1
        <5>2. b3 = b1 + wk /\ wk \in {2, 4}
          BY <1>3, <4>1, CallFacts
        <5>3. QED
          BY <5>1, <5>2
      <4>4. s = below + b2
        BY <1>5 DEF s
      <4> HIDE DEF b1, b2, b3, wk
      <4>5. /\ below + b1 \in Addresses /\ below + b1 >= s
            /\ wk = 4 => below + b1 + 2 \in Addresses /\ below + b1 + 2 >= s
        <5>1. below \in Nat /\ below % 2 = 0 /\ below + size <= Top - 20 /\ Top \in Nat
          BY ONLY <1>3, <1>19 DEF below
        <5> HIDE DEF below
        <5>2. /\ below + b1 \in Nat /\ (below + b1) % 2 = 0 /\ below + b1 <= Top - 2 /\ below + b1 >= s
              /\ below + b1 + 2 >= s
          BY ONLY <1>3, <4>3, <4>4, <5>1
        <5>3. /\ below + b1 + 2 \in Nat /\ (below + b1 + 2) % 2 = 0
              /\ wk = 4 => below + b1 + 2 <= Top - 2
          BY ONLY <1>3, <4>3, <4>4, <5>1
        <5>4. QED
          BY ONLY <5>2, <5>3 DEF Addresses
      <4>6. mem'[a] = mem[a] /\ (wk = 4 => mem'[a + 2] = mem[a + 2])
        BY <1>20, <4>5 DEF b1
      <4>7. QED
        BY <2>3, <4>2, <4>6 DEF HoldsArg, wk
    <3>3. k \in n .. Len(call.args)
      BY <2>3
    <3>4. QED
      BY <3>1, <3>2
  <2>4. /\ Now'.call = call /\ Now'.next = n - 1 /\ Now'.args = Now.args
        /\ Bottom(Depth)' = Bottom(D) /\ n - 1 + 1 = n
    BY <1>7, <1>13, <1>16, <1>17, <1>24 DEF Bottom, Base
  <2>5. sp' = Bottom(D) - size + before /\ below = Bottom(D) - size
    BY <1>3, <1>20
  <2>6. \A k \in 1 .. n - 1 : call.args[k] \in Sources
    <3>1. \A k \in 1 .. n - 1 : k \in 1 .. Len(call.args)
      BY <1>6, <1>7
    <3>2. QED
      BY <1>3, <3>1, CallFacts
  <2>7. \A k \in 1 .. n - 1 : Now'.call.args[k] # "float" =>
          WordsOf(Now.call.args[k], k, <<mem[bp + Local], mem[bp + Local + 2]>>)' = Now'.args[k]
    <3>1. ASSUME NEW k \in 1 .. n - 1, call.args[k] # "float"
          PROVE  WordsOf(Now.call.args[k], k, <<mem[bp + Local], mem[bp + Local + 2]>>)' = Now.args[k]
      <4>1. PICK kind \in Sources : kind = call.args[k]
        BY <2>6
      <4>2. WordsOf(kind, k, local)' = Now.args[k]
        BY <2>2, <3>1, <4>1
      <4>3. kind = Now'.call.args[k]
        BY <2>4, <4>1
      <4>4. QED
        BY <4>2, <4>3 DEF local, WordsOf
    <3>2. QED
      BY <2>4, <3>1
  <2>8. \A k \in n .. Len(call.args) : call.args[k] # "float" =>
          /\ mem'[Bottom(D) - size + Before(call, k)] = Now.args[k][1]
          /\ BytesPushed(call, k) = 4 =>
               mem'[Bottom(D) - size + Before(call, k) + 2] = Now.args[k][2]
    <3> HIDE DEF below
    <3>1. QED
      BY <2>3, <2>5
  <2>9. /\ call \in Calls /\ Depth' < MaxDepth /\ n - 1 \in 0 .. Len(call.args)
        /\ Len(Now.args) = Len(call.args)
    BY <1>3, <1>5, <1>7, <1>16
  <2>10. QED
    BY <2>4, <2>5, <2>7, <2>8, <2>9 DEF PushedInv, HoldsArg, size, before
<1>27. StepInv'
  <2>1. Base(D)' = Base(D)
    BY <1>24 DEF Base
  <2>2. step' = "push" /\ bp' = Base(D)
    BY <1>2, <1>3, <1>10
  <2>3. QED
    BY <1>3, <1>16, <1>26, <2>1, <2>2 DEF StepInv
<1>28. QED
  BY <1>22, <1>25, <1>27 DEF IInv
\* A call: the return address is below the arguments, which begin where the callee
\* looks for them.
LEMMA CalledStep ==
  ASSUME CallsAgree, StackSuffices, IInv, step = "push", Now.next = 0,
         NEW D \in Nat, D = Depth,
         acts' = Append([acts EXCEPT ![D].now.ip = made],
                        Active(Now.call, Now.args, sp - 4, [reg |-> reg', bp |-> bp])),
         mem' \in [Addresses -> Words], mem'[sp - 4] = Word("ip", made, 0),
         \A a \in Addresses : a >= sp => mem'[a] = mem[a],
         reg' \in [Regs -> Words], sp' = sp - 4, bp' = bp, step' = "enter",
         made' = made, returned' = returned
  PROVE  IInv'
<1> DEFINE e == acts[D].entry
           call == Now.call
           size == StackBytes(call)
           found == [reg |-> reg', bp |-> bp]
           new == Active(call, Now.args, sp - 4, found)
           b == [acts[D] EXCEPT !.now.ip = made]
           middle == [acts EXCEPT ![D] = b]
           inner == (MaxDepth - (D + 1) + 1) * Room
<1>1. /\ D >= 1 /\ D \in 1 .. Depth /\ D < MaxDepth /\ MaxDepth \in Nat
      /\ e \in Nat /\ e % 2 = 0 /\ e <= Top - 4 /\ Top \in Nat /\ Top % 2 = 0
      /\ size \in Nat /\ size % 2 = 0 /\ size + 48 <= e
      /\ e - 20 - size >= inner /\ inner >= 24
      /\ Base(D) = e - 2 /\ Bottom(D) = e - 16 /\ bp = e - 2
      /\ acts[D] \in Activations /\ acts \in Seq(Activations)
      /\ Kept(D) /\ Saved(D) /\ Filled(D)
      /\ call \in Calls /\ PushedInv
  BY PushFacts
<1>2. CallTypeOK /\ FramesInv /\ OrderInv
  BY DEF IInv
<1>3. /\ Before(call, 1) = 0 /\ Len(call.args) \in Nat
      /\ \A k \in 1 .. Len(call.args) : /\ Before(call, k) \in Nat /\ Before(call, k) % 2 = 0
                                          /\ BytesPushed(call, k) \in {2, 4}
                                          /\ Before(call, k) + BytesPushed(call, k) <= size
  <2>1. Before(call, 1) = 0 /\ Len(call.args) \in Nat
    BY <1>1, CallFacts
  <2>2. ASSUME NEW k \in 1 .. Len(call.args)
        PROVE  /\ Before(call, k) \in Nat /\ Before(call, k) % 2 = 0
               /\ BytesPushed(call, k) \in {2, 4}
               /\ Before(call, k) + BytesPushed(call, k) <= size
    <3>1. k \in 1 .. Len(call.args) + 1 /\ k + 1 \in 1 .. Len(call.args) + 1
      BY <2>1
    <3>2. /\ BytesPushed(call, k) \in {2, 4}
          /\ Before(call, k + 1) = Before(call, k) + BytesPushed(call, k)
      BY <1>1, CallFacts
    <3>3. Before(call, k + 1) <= size /\ Before(call, k) \in Nat /\ Before(call, k) % 2 = 0
      BY <1>1, <3>1, CallFacts
    <3>4. QED
      BY <3>2, <3>3
  <2>3. QED
    BY <2>1, <2>2
<1>4. /\ sp = e - 16 - size + Before(call, 0 + 1) /\ Len(Now.args) = Len(call.args)
      /\ \A k \in 0 + 1 .. Len(call.args) :
           HoldsArg(e - 16 - size + Before(call, k), call, k, Now.args[k])
  BY <1>1 DEF PushedInv
<1>5. sp = e - 16 - size
  <2> HIDE DEF e, size
  <2>1. QED
    BY <1>1, <1>3, <1>4
<1>6. Now = acts[D].now /\ Now \in Made /\ made \in Nat
  BY <1>1, <1>2, BoundsAssumption DEF Now, Activations, CallTypeOK
<1>7. b \in Activations
  <2> DEFINE now == [acts[D].now EXCEPT !.ip = made]
  <2>1. now \in Made
    BY <1>6 DEF Made
  <2>2. b = [acts[D] EXCEPT !.now = now]
    OBVIOUS
  <2> HIDE DEF now, b
  <2>3. QED
    BY <1>1, <2>1, <2>2 DEF Activations
<1>8. /\ b.entry = e /\ b.call = acts[D].call /\ b.args = acts[D].args
      /\ b.found = acts[D].found /\ b.cells = acts[D].cells
      /\ b.now.call = call /\ b.now.args = Now.args /\ b.now.ip = made
  BY <1>1, <1>6 DEF Activations, Made
<1> HIDE DEF e, size, b, inner
<1>9. sp - 4 \in Addresses /\ sp - 4 = e - 20 - size /\ sp \in Nat
  BY ONLY <1>1, <1>5 DEF Addresses
<1>10. new \in Activations
  <2>1. found \in [reg : [Regs -> Words], bp : Addresses \cup {Top}]
    BY <1>2 DEF CallTypeOK
  <2>2. NoCall \in Made
    <3>1. <<>> \in Seq(Words \X Words)
      OBVIOUS
    <3>2. QED
      BY <3>1 DEF NoCall, Made
  <2>3. Now.args \in Seq(Words \X Words)
    BY <1>6 DEF Made
  <2>4. [o \in {} |-> Zero] \in [{} -> Words]
    OBVIOUS
  <2> HIDE DEF found, call
  <2>5. call \in Calls \cup {Main}
    BY <1>1
  <2>6. QED
    BY <1>9, <2>1, <2>2, <2>3, <2>4, <2>5 DEF Active, Activations
<1>11. /\ new.call = call /\ new.args = Now.args /\ new.entry = sp - 4 /\ new.found = found
       /\ new.now = NoCall /\ new.cells = [o \in {} |-> Zero]
       /\ found.reg = reg' /\ found.bp = bp
  BY DEF Active
<1>12. middle \in Seq(Activations) /\ Len(middle) = D
       /\ \A i \in 1 .. D : middle[i] = IF i = D THEN b ELSE acts[i]
  <2>1. Len(acts) = D /\ D \in 1 .. Len(acts)
    BY <1>1 DEF Depth
  <2>2. QED
    BY <1>1, <1>7, <2>1, ExceptSeq
<1>13. acts' = Append(middle, new)
  BY DEF b
<1> HIDE DEF middle, new, found, call
<1>14. /\ acts' \in Seq(Activations) /\ Depth' = D + 1 /\ acts'[D + 1] = new
       /\ \A i \in 1 .. D : acts'[i] = middle[i]
  <2>1. /\ Append(middle, new) \in Seq(Activations)
        /\ Len(Append(middle, new)) = Len(middle) + 1
        /\ \A i \in 1 .. Len(middle) : Append(middle, new)[i] = middle[i]
        /\ Append(middle, new)[Len(middle) + 1] = new
    BY <1>10, <1>12, AppendProperties
  <2>2. QED
    BY ONLY <1>12, <1>13, <2>1 DEF Depth
<1>15. acts'[D] = b /\ \A i \in 1 .. D - 1 : acts'[i] = acts[i]
  <2>1. D \in 1 .. D /\ \A i \in 1 .. D - 1 : i \in 1 .. D /\ i # D
    BY <1>1
  <2>2. QED
    BY <1>12, <1>14, <2>1
<1>16. CallTypeOK'
  <2>1. D + 1 <= MaxDepth /\ step' \in Steps
    BY <1>1 DEF Steps
  <2>2. QED
    BY <1>2, <1>9, <1>14, <2>1 DEF CallTypeOK
<1>17. /\ \A a \in Addresses : a >= e => mem'[a] = mem[a]
       /\ \A a \in Addresses : a >= e - 8 => mem'[a] = mem[a]
       /\ \A a \in Addresses : a >= e - 16 => mem'[a] = mem[a]
  <2>1. \A a \in Addresses : a \in Int
    BY DEF Addresses
  <2>2. ASSUME NEW a \in Addresses, a >= e - 16 PROVE mem'[a] = mem[a]
    <3>1. a \in Int /\ a >= e - 16
      BY <2>1, <2>2
    <3>2. a >= sp
      BY ONLY <1>1, <1>5, <3>1
    <3>3. QED
      BY <3>2
  <2>3. \A a \in Addresses : (a >= e => a >= e - 16) /\ (a >= e - 8 => a >= e - 16)
    BY ONLY <1>1, <2>1
  <2>4. QED
    BY <2>2, <2>3
<1>18. /\ acts'[D].entry = acts[D].entry /\ acts'[D].call = acts[D].call
       /\ acts'[D].args = acts[D].args /\ acts'[D].found = acts[D].found
       /\ acts'[D].cells = acts[D].cells
  BY <1>8, <1>15 DEF e
<1>19. /\ \A i \in 1 .. D : Entered(i)'
       /\ \A i \in 1 .. D - 1 : Kept(i)' /\ Saved(i)' /\ Filled(i)'
  BY <1>1, <1>2, <1>15, <1>17, <1>18, FramesKept DEF e
<1>20. Kept(D)' /\ Saved(D)' /\ Filled(D)'
  <2>1. Kept(D)'
    BY <1>1, <1>2, <1>17, <1>18, CellsKept DEF e
  <2>2. Saved(D)'
    BY <1>1, <1>2, <1>17, <1>18, SavedKept DEF e
  <2>3. Filled(D)'
    BY <1>1, <1>18 DEF Filled
  <2>4. QED
    BY <2>1, <2>2, <2>3
<1>21. Entered(D + 1)'
  <2>1. new.entry >= inner /\ new.entry <= Top - 4
    BY ONLY <1>1, <1>9, <1>11
  <2>2. D + 1 # 1 /\ (D + 1) - 1 = D
    BY <1>1
  <2>3. Bottom(D)' = e - 16 /\ Base(D)' = e - 2
    <3>1. acts'[D].entry = e
      BY <1>8, <1>15
    <3>2. Base(D)' = e - 2 /\ Bottom(D)' = e - 2 - 6 - 8
      BY <3>1 DEF Bottom, Base, SavedRegs, FrameSize
    <3>3. e - 2 - 6 - 8 = e - 16
      BY ONLY <1>1
    <3>4. QED
      BY ONLY <3>2, <3>3
  <2>4. new.entry = Bottom(D)' - size - 4
    BY ONLY <1>1, <1>9, <1>11, <2>3
  <2>5. mem'[new.entry] = Word("ip", made, 0)
    BY <1>11
  <2>6. ASSUME NEW k \in 1 .. Len(call.args), call.args[k] # "float"
        PROVE  /\ mem'[new.entry + 4 + Before(call, k)] = Now.args[k][1]
               /\ BytesPushed(call, k) = 4 =>
                    mem'[new.entry + 4 + Before(call, k) + 2] = Now.args[k][2]
    <3> DEFINE before == Before(call, k)
               w == BytesPushed(call, k)
    <3>1. before \in Nat /\ before % 2 = 0 /\ w \in {2, 4} /\ before + w <= size
      BY <1>3
    <3>2. HoldsArg(e - 16 - size + before, call, k, Now.args[k])
      BY <1>4 DEF call
    <3> HIDE DEF before, w
    <3>3. new.entry + 4 + before = sp + before /\ e - 16 - size + before = sp + before
      BY <1>1, <1>5, <1>9, <1>11, <3>1
    <3>4. sp \in Nat /\ sp % 2 = 0 /\ sp + size <= Top - 20
      BY ONLY <1>1, <1>5
    <3>5. /\ sp + before \in Nat /\ (sp + before) % 2 = 0 /\ sp + before <= Top - 2
          /\ sp + before >= sp /\ sp + before + 2 >= sp
      BY ONLY <1>1, <3>1, <3>4
    <3>6. /\ sp + before + 2 \in Nat /\ (sp + before + 2) % 2 = 0
          /\ w = 4 => sp + before + 2 <= Top - 2
      BY ONLY <1>1, <3>1, <3>4
    <3>7. sp + before \in Addresses /\ (w = 4 => sp + before + 2 \in Addresses)
      BY ONLY <3>5, <3>6 DEF Addresses
    <3>8. mem'[sp + before] = mem[sp + before] /\ (w = 4 => mem'[sp + before + 2] = mem[sp + before + 2])
      BY <3>5, <3>7
    <3>9. mem[sp + before] = Now.args[k][1] /\ (w = 4 => mem[sp + before + 2] = Now.args[k][2])
      BY <2>6, <3>2, <3>3 DEF HoldsArg, w
    <3>10. QED
      BY <3>3, <3>8, <3>9 DEF before, w
  <2>7. b.now.call = call /\ b.now.args = Now.args /\ b.now.ip = made
    BY <1>8
  <2>8. new.found.bp = Base(D)'
    BY <1>1, <1>11, <2>3
  <2>9. acts'[D + 1] = new /\ acts'[(D + 1) - 1] = b
    BY <1>14, <1>15, <2>2
  <2> DEFINE x == acts'[D + 1]
             y == acts'[(D + 1) - 1]
  <2>10. Entered(D + 1)' <=>
           /\ x.entry >= inner /\ x.entry <= Top - 4
           /\ IF D + 1 = 1 THEN x.entry = Top - 4 /\ x.call = Main /\ x.found.bp = Top
              ELSE /\ x.entry = y.entry - 2 - SavedRegs - FrameSize - StackBytes(y.now.call) - 4
                   /\ x.call = y.now.call /\ x.args = y.now.args
                   /\ y.now.call \in Calls
                   /\ x.found.bp = y.entry - 2
           /\ mem'[x.entry] = Word("ip", IF D + 1 = 1 THEN 0 ELSE y.now.ip, 0)
           /\ \A k \in 1 .. Len(x.call.args) : x.call.args[k] # "float" =>
                /\ mem'[x.entry + 4 + Before(x.call, k)] = x.args[k][1]
                /\ BytesPushed(x.call, k) = 4 =>
                     mem'[x.entry + 4 + Before(x.call, k) + 2] = x.args[k][2]
    BY DEF Entered, inner, HoldsArg, Bottom, Base
  <2>11. e - 2 - SavedRegs - FrameSize = Bottom(D)' /\ y.entry = e
    <3>1. e - 2 - SavedRegs - FrameSize = e - 16
      BY <1>1 DEF SavedRegs, FrameSize
    <3>2. QED
      BY <1>8, <2>3, <2>9, <3>1
  <2>12. x = new /\ y = b
    BY <2>9
  <2> HIDE DEF x, y
  <2>13. \A k \in 1 .. Len(x.call.args) : x.call.args[k] # "float" =>
           /\ mem'[x.entry + 4 + Before(x.call, k)] = x.args[k][1]
           /\ BytesPushed(x.call, k) = 4 =>
                mem'[x.entry + 4 + Before(x.call, k) + 2] = x.args[k][2]
    <3>1. x.call = call /\ x.args = Now.args /\ x.entry = new.entry
      BY <1>11, <2>12
    <3>2. \A k \in 1 .. Len(call.args) : call.args[k] # "float" =>
            /\ mem'[new.entry + 4 + Before(call, k)] = Now.args[k][1]
            /\ BytesPushed(call, k) = 4 =>
                 mem'[new.entry + 4 + Before(call, k) + 2] = Now.args[k][2]
      BY <2>6
    <3>3. QED
      BY ONLY <3>1, <3>2
  <2>14. /\ x.entry >= inner /\ x.entry <= Top - 4
         /\ x.entry = y.entry - 2 - SavedRegs - FrameSize - StackBytes(y.now.call) - 4
         /\ x.call = y.now.call /\ x.args = y.now.args
         /\ y.now.call \in Calls
         /\ x.found.bp = y.entry - 2
         /\ mem'[x.entry] = Word("ip", y.now.ip, 0)
    <3>1. x.entry = y.entry - 2 - SavedRegs - FrameSize - StackBytes(y.now.call) - 4
      BY <2>4, <2>7, <2>11, <2>12 DEF size, call
    <3>2. x.found.bp = y.entry - 2
      BY <1>8, <2>3, <2>8, <2>12
    <3>3. QED
      BY <1>1, <1>11, <2>1, <2>5, <2>7, <2>12, <3>1, <3>2
  <2>15. QED
    BY <2>2, <2>10, <2>13, <2>14
<1>22. Kept(D + 1)'
  BY <1>11, <1>14 DEF Kept
<1>23. FramesInv'
  <2>1. ASSUME NEW i \in 1 .. D + 1
        PROVE  /\ Entered(i)' /\ Kept(i)'
               /\ i < D + 1 => Saved(i)' /\ Filled(i)'
    <3>1. CASE i = D + 1
      BY <1>21, <1>22, <3>1
    <3>2. CASE i = D
      BY <1>19, <1>20, <3>2
    <3>3. CASE i # D /\ i # D + 1
      <4>1. i \in 1 .. D - 1 /\ i \in 1 .. D
        BY <3>3
      <4>2. QED
        BY <1>19, <4>1
    <3>4. QED
      BY <3>1, <3>2, <3>3
  <2>2. QED
    BY <1>14, <2>1 DEF FramesInv
<1>24. OrderInv'
  <2>1. \A i \in 1 .. D : acts'[i].entry = acts[i].entry /\ acts[i].entry \in Int
    <3>1. ASSUME NEW i \in 1 .. D PROVE acts[i].entry \in Int
      <4>1. acts[i].entry \in Addresses
        BY <1>2, Geometry
      <4>2. QED
        BY <4>1 DEF Addresses
    <3>2. \A i \in 1 .. D : i = D \/ i \in 1 .. D - 1
      OBVIOUS
    <3>3. QED
      BY <1>15, <1>18, <3>1, <3>2
  <2>2. ASSUME NEW i \in 1 .. D + 1, NEW j \in 1 .. D + 1, i < j
        PROVE  acts'[j].entry <= acts'[i].entry - 20
    <3>1. i \in 1 .. D
      BY <2>2
    <3>2. CASE j = D + 1
      <4>1. acts'[j].entry = e - 20 - size
        BY <1>9, <1>11, <1>14, <3>2
      <4>2. i = D \/ acts[D].entry <= acts[i].entry - 20
        BY <1>1, <1>2, <3>1 DEF OrderInv
      <4>3. acts'[i].entry = acts[i].entry /\ acts[i].entry \in Int
        BY <2>1, <3>1
      <4> DEFINE f == acts[i].entry
      <4>4. f \in Int /\ e <= f
        <5>1. CASE i = D
          BY <1>1, <4>3, <5>1 DEF e
        <5>2. CASE e <= f - 20
          <6>1. f \in Int
            BY <4>3
          <6> HIDE DEF f
          <6>2. QED
            BY ONLY <1>1, <5>2, <6>1
        <5>3. QED
          BY <4>2, <5>1, <5>2 DEF e
      <4> HIDE DEF f
      <4>5. e - 20 - size <= f - 20
        BY ONLY <1>1, <4>4
      <4>6. QED
        BY <4>1, <4>3, <4>5 DEF f
    <3>3. CASE j # D + 1
      <4>1. j \in 1 .. D
        BY <3>3
      <4>2. QED
        BY <1>2, <2>1, <2>2, <3>1, <4>1 DEF OrderInv
    <3>4. QED
      BY <3>2, <3>3
  <2>3. QED
    BY <1>14, <2>2 DEF OrderInv
<1>25. StepInv'
  <2>1. /\ sp' = acts'[D + 1].entry /\ bp' = acts'[D + 1].found.bp
        /\ reg' = acts'[D + 1].found.reg /\ acts'[D + 1].cells \in [{} -> Words]
    BY <1>11, <1>14
  <2>2. D + 1 >= 1
    OBVIOUS
  <2>3. QED
    BY <1>14, <2>1, <2>2 DEF StepInv
<1>26. QED
  BY <1>16, <1>23, <1>24, <1>25 DEF IInv
\* The words a call pushes are within the stack.
LEMMA PushedRoom ==
  ASSUME CallsAgree, StackSuffices, IInv, step = "push", Now.next = 0,
         NEW D \in Nat, D = Depth
  PROVE  sp - 4 \in Addresses /\ sp \in Int /\ bp \in Int
<1> DEFINE e == acts[D].entry
           size == StackBytes(Now.call)
<1>1. /\ e \in Nat /\ e % 2 = 0 /\ e <= Top - 4 /\ Top \in Nat /\ Top % 2 = 0
      /\ size \in Nat /\ size % 2 = 0 /\ size + 48 <= e
      /\ Bottom(D) = e - 16 /\ bp = e - 2 /\ Now.call \in Calls /\ PushedInv
  BY PushFacts
<1>2. Before(Now.call, 1) = 0
  BY <1>1, CallFacts
<1>3. sp = e - 16 - size + Before(Now.call, 0 + 1)
  BY <1>1 DEF PushedInv
<1> HIDE DEF e, size
<1>4. sp = e - 16 - size
  BY <1>1, <1>2, <1>3
<1>5. QED
  BY ONLY <1>1, <1>4 DEF Addresses

LEMMA CallByNameStep ==
  ASSUME CallsAgree, StackSuffices, IInv, CallByName
  PROVE  IInv'
<1>1. PICK D \in Nat : D = Depth
  BY LenProperties DEF IInv, CallTypeOK, Depth
<1>2. step = "push" /\ Now.next = 0
  BY DEF CallByName
<1>3. /\ acts' = Append([acts EXCEPT ![D].now.ip = made],
                        Active(Now.call, Now.args, sp - 4, [reg |-> reg', bp |-> bp]))
      /\ step' = "enter" /\ bp' = bp /\ reg' = reg /\ made' = made /\ returned' = returned
  BY <1>1 DEF CallByName
<1>4. /\ mem' = [mem EXCEPT ![sp - 2] = Word("cs", 0, 0), ![sp - 4] = Word("ip", made, 0)]
      /\ sp' = sp - 4
  BY DEF CallByName, PushPair, ReturnAddress
<1>5. mem \in [Addresses -> Words] /\ reg \in [Regs -> Words] /\ made \in Int
  BY DEF IInv, CallTypeOK
<1>6. sp - 4 \in Addresses /\ sp \in Int
  BY <1>1, <1>2, PushedRoom
<1>7. Word("cs", 0, 0) \in Words /\ Word("ip", made, 0) \in Words
  BY <1>5, WordFacts DEF Kinds
<1>8. mem' \in [Addresses -> Words] /\ mem'[sp - 4] = Word("ip", made, 0)
  BY <1>4, <1>5, <1>6, <1>7
<1>9. ASSUME NEW a \in Addresses, a >= sp PROVE mem'[a] = mem[a]
  <2>1. a \in Int
    BY DEF Addresses
  <2>2. a # sp - 2 /\ a # sp - 4
    BY ONLY <1>6, <1>9, <2>1
  <2>3. QED
    BY <1>4, <1>5, <2>2
<1>10. QED
  BY <1>1, <1>2, <1>3, <1>4, <1>5, <1>8, <1>9, CalledStep

LEMMA CallByPointerStep ==
  ASSUME CallsAgree, StackSuffices, IInv, CallByPointer
  PROVE  IInv'
<1>1. PICK D \in Nat : D = Depth
  BY LenProperties DEF IInv, CallTypeOK, Depth
<1> DEFINE lo == Word("target", 0, 0)
           hi == Word("cs", 1, 0)
<1>2. step = "push" /\ Now.next = 0
  BY DEF CallByPointer
<1>3. reg' = [reg EXCEPT !["bx"] = Address(bp + Local), !["ax"] = lo, !["dx"] = hi]
  BY DEF CallByPointer
<1>4. /\ acts' = Append([acts EXCEPT ![D].now.ip = made],
                        Active(Now.call, Now.args, sp - 4, [reg |-> reg', bp |-> bp]))
      /\ step' = "enter" /\ bp' = bp /\ made' = made /\ returned' = returned
  BY <1>1 DEF CallByPointer
<1>5. /\ mem' = [mem EXCEPT ![sp - 2] = Word("cs", 0, 0), ![sp - 4] = Word("ip", made, 0),
                            ![sp - 6] = hi, ![sp - 8] = lo]
      /\ sp' = sp - 4
  BY DEF CallByPointer, ReturnAddress
<1>6. mem \in [Addresses -> Words] /\ reg \in [Regs -> Words] /\ made \in Int
  BY DEF IInv, CallTypeOK
<1>7. sp - 4 \in Addresses /\ sp \in Int /\ bp \in Int
  BY <1>1, <1>2, PushedRoom
<1>8. Word("cs", 0, 0) \in Words /\ Word("ip", made, 0) \in Words /\ lo \in Words /\ hi \in Words
  BY <1>6, WordFacts DEF Kinds
<1>9. Address(bp + Local) \in Words
  <2>1. bp + Local \in Int
    BY <1>7 DEF Local
  <2>2. QED
    BY <2>1, WordFacts
<1> HIDE DEF lo, hi
<1>10. reg' \in [Regs -> Words]
  BY <1>3, <1>6, <1>8, <1>9
<1>11. mem' \in [Addresses -> Words] /\ mem'[sp - 4] = Word("ip", made, 0)
  <2>1. sp - 4 # sp - 6 /\ sp - 4 # sp - 8
    BY ONLY <1>7
  <2>2. QED
    BY <1>5, <1>6, <1>7, <1>8, <2>1
<1>12. ASSUME NEW a \in Addresses, a >= sp PROVE mem'[a] = mem[a]
  <2>1. a \in Int
    BY DEF Addresses
  <2>2. a # sp - 2 /\ a # sp - 4 /\ a # sp - 6 /\ a # sp - 8
    BY ONLY <1>7, <1>12, <2>1
  <2>3. QED
    BY <1>5, <1>6, <2>2
<1>13. QED
  BY <1>1, <1>2, <1>4, <1>5, <1>10, <1>11, <1>12, CalledStep

-----------------------------------------------------------------------------
(* The theorems *)

LEMMA NextInv ==
  ASSUME CallsAgree, StackSuffices, IInv, [Next]_vars
  PROVE  IInv'
<1>1. CASE Prologue
  BY <1>1, PrologueStep
<1>2. CASE Work
  BY <1>2, WorkStep
<1>3. ASSUME NEW call \in Calls, BeginCall(call) PROVE IInv'
  BY <1>3, BeginCallStep
<1>4. CASE PushArgument
  BY <1>4, PushArgumentStep
<1>5. CASE CallByName
  BY <1>5, CallByNameStep
<1>6. CASE CallByPointer
  BY <1>6, CallByPointerStep
<1>7. CASE Return
  BY <1>7, ReturnStep
<1>8. CASE CleanUp
  BY <1>8, CleanUpStep
<1>9. CASE KeepResult
  BY <1>9, KeepResultStep
<1>10. CASE Exit
  BY <1>10, ExitStep
<1>11. CASE Stopped \/ UNCHANGED vars
  <2>1. UNCHANGED <<mem, sp, bp, reg, step, acts, made, returned>>
    BY <1>11 DEF Stopped, vars
  <2>2. CallTypeOK'
    BY <2>1 DEF IInv, CallTypeOK, Depth
  <2>3. FramesInv' /\ OrderInv'
    BY <2>1 DEF IInv, FramesInv, OrderInv, Entered, Saved, Filled, Kept, HoldsArg, Depth, Base, Bottom
  <2>4. StepInv'
    BY <2>1, ZenonT(40) DEF IInv, StepInv, PushedInv, HoldsArg, WordsOf, Now, Depth, Base, Bottom
  <2>5. QED
    BY <2>2, <2>3, <2>4 DEF IInv
<1>12. QED
  BY <1>1, <1>2, <1>3, <1>4, <1>5, <1>6, <1>7, <1>8, <1>9, <1>10, <1>11 DEF Next

LEMMA Invariance ==
  ASSUME CallsAgree, StackSuffices
  PROVE  Spec => []IInv
<1>1. Init => IInv
  BY InitInv
<1>2. IInv /\ [Next]_vars => IInv'
  BY NextInv
<1>3. QED
  BY <1>1, <1>2, PTL DEF Spec

\* Whatever calls a program makes, sp and bp are within the stack, words are stored
\* at even addresses of it, and no more functions are active than it has room for.
THEOREM CallTypesOK ==
  ASSUME CallsAgree, StackSuffices
  PROVE  Spec => []CallTypeOK
<1>1. IInv => CallTypeOK
  BY DEF IInv
<1>2. QED
  BY <1>1, Invariance, PTL

\* lowerCall, analyzeParams, computeLayout: whenever the sizes of caller and callee
\* agree, every active function finds its arguments where it looks for them, however
\* deep the calls and however many.
THEOREM ParamsAreFound ==
  ASSUME CallsAgree, StackSuffices
  PROVE  Spec => []ParamsFound
<1>1. IInv => ParamsFound
  <2>1. SUFFICES ASSUME IInv, NEW i \in 1 .. Depth, NEW k \in DOMAIN acts[i].call.args,
                        acts[i].call.args[k] # "float"
                 PROVE  LET call == acts[i].call
                            a == Base(i) + ParamOffset(call.params, k)
                        IN /\ ParamReg(call.params, k) = NoReg
                           /\ mem[a] = acts[i].args[k][1]
                           /\ ParamBytes(call.params, k) = 4 => mem[a + 2] = acts[i].args[k][2]
    BY DEF ParamsFound
  <2> DEFINE call == acts[i].call
             e == acts[i].entry
             before == Before(call, k)
  <2>2. CallTypeOK /\ FramesInv
    BY <2>1 DEF IInv
  <2>3. call \in Calls \cup {Main} /\ e \in Addresses /\ Base(i) = e - 2
    BY <2>2, Geometry
  <2>4. call \in Call /\ Agreed(call)
    BY <2>3, CallFacts
  <2>5. k \in 1 .. Len(call.args)
    BY <2>4, LenProperties DEF Call
  <2>6. ParamReg(call.params, k) = NoReg /\ ParamBytes(call.params, k) = BytesPushed(call, k)
    BY <2>4, <2>5 DEF Agreed
  <2>7. ParamOffset(call.params, k) = 6 + before
    BY <2>3, <2>5, CallFacts DEF FirstParam
  <2>8. before \in Nat
    <3>1. k \in 1 .. Len(call.args) + 1
      <4>1. Len(call.args) \in Nat
        BY <2>3, CallFacts
      <4>2. QED
        BY <2>5, <4>1
    <3>2. QED
      BY <2>3, <3>1, CallFacts
  <2>9. HoldsArg(e + 4 + before, call, k, acts[i].args[k])
    BY <2>2, <2>5 DEF FramesInv, Entered
  <2>10. Base(i) + ParamOffset(call.params, k) = e + 4 + before
    <3>1. e \in Int
      BY <2>3 DEF Addresses
    <3> HIDE DEF e, before
    <3>2. (e - 2) + (6 + before) = e + 4 + before
      BY ONLY <3>1, <2>8
    <3>3. QED
      BY <2>3, <2>7, <3>2
  <2>11. QED
    BY <2>1, <2>6, <2>9, <2>10 DEF HoldsArg
<1>2. QED
  BY <1>1, Invariance, PTL

\* No push, call or return writes into the frame of an active function.
THEOREM FramesAreIntact ==
  ASSUME CallsAgree, StackSuffices
  PROVE  Spec => []FrameIntact
<1>1. IInv => FrameIntact
  BY DEF IInv, FramesInv, Kept, FrameIntact
<1>2. QED
  BY <1>1, Invariance, PTL

\* The caller takes from the stack what it has put there: between two calls sp is at
\* the bottom of the frame.
THEOREM CallsBalance ==
  ASSUME CallsAgree, StackSuffices
  PROVE  Spec => []Balanced
<1>1. IInv => Balanced
  <2>1. SUFFICES ASSUME IInv, step = "body"
                 PROVE  bp = Base(Depth) /\ sp = bp - SavedRegs - FrameSize
    BY DEF Balanced
  <2>2. QED
    BY <2>1 DEF IInv, StepInv, Bottom
<1>2. QED
  BY <1>1, Invariance, PTL

\* Every return goes on in the caller, behind the call, or ends the program.
THEOREM ControlComesBack ==
  ASSUME CallsAgree, StackSuffices
  PROVE  Spec => [](step # "astray")
<1>1. IInv => step # "astray"
  BY DEF IInv, StepInv
<1>2. QED
  BY <1>1, Invariance, PTL

\* No other step ends an activation.
LEMMA SameLength ==
  ASSUME NEW s \in Seq(Activations), NEW i, NEW b
  PROVE  /\ Len([s EXCEPT ![i] = b]) = Len(s)
         /\ [s EXCEPT ![i] = b] \in Seq(Activations \cup {b})
<1> DEFINE S == Activations \cup {b}
<1>1. s \in Seq(S) /\ b \in S
  OBVIOUS
<1>2. CASE i \in 1 .. Len(s)
  <2> HIDE DEF S
  <2>1. QED
    BY <1>1, <1>2, ExceptSeq DEF S
<1>3. CASE i \notin 1 .. Len(s)
  <2>1. DOMAIN s = 1 .. Len(s)
    BY LenProperties
  <2>2. [s EXCEPT ![i] = b] = s
    BY <1>3, <2>1
  <2>3. QED
    BY <1>1, <2>2
<1>4. QED
  BY <1>2, <1>3

LEMMA OnlyReturnsEnd ==
  ASSUME CallsAgree, StackSuffices, IInv, [Next]_vars, acts' # acts, ~Return
  PROVE  Depth' >= Depth
<1>1. acts \in Seq(Activations) /\ Depth \in Nat
  BY LenProperties DEF IInv, CallTypeOK, Depth
<1>2. ASSUME NEW b, acts' = [acts EXCEPT ![Depth] = b] PROVE Depth' >= Depth
  BY <1>1, <1>2, SameLength DEF Depth
<1>3. ASSUME NEW b, NEW x, acts' = Append([acts EXCEPT ![Depth] = b], x) PROVE Depth' >= Depth
  <2> DEFINE middle == [acts EXCEPT ![Depth] = b]
             S == (Activations \cup {b}) \cup {x}
  <2>1. Len(middle) = Depth /\ middle \in Seq(S) /\ x \in S
    <3>1. Len(middle) = Depth /\ middle \in Seq(Activations \cup {b})
      BY <1>1, SameLength DEF Depth
    <3> HIDE DEF middle
    <3>2. QED
      BY <3>1
  <2> HIDE DEF middle, S
  <2>2. Len(Append(middle, x)) = Depth + 1
    BY <2>1, AppendProperties
  <2>3. QED
    BY <1>1, <1>3, <2>2 DEF middle, Depth
<1>4. CASE Work
  BY <1>2, <1>4 DEF Work
<1>5. ASSUME NEW call \in Calls, BeginCall(call) PROVE Depth' >= Depth
  BY <1>2, <1>5 DEF BeginCall
<1>6. CASE PushArgument
  BY <1>2, <1>6 DEF PushArgument
<1>7. CASE CallByName
  BY <1>3, <1>7 DEF CallByName
<1>8. CASE CallByPointer
  BY <1>3, <1>8 DEF CallByPointer
<1>9. CASE KeepResult
  <2> DEFINE old == acts[Depth].cells
             new == IF Now.call.res = 32
                      THEN [old EXCEPT ![Temp] = returned[1], ![Temp + 2] = returned[2]]
                      ELSE [old EXCEPT ![Temp] = returned[1]]
             b == [acts[Depth] EXCEPT !.cells = new]
  <2>1. acts' = [acts EXCEPT ![Depth] = b]
    <3>1. CASE Now.call.res = 32
      BY <1>9, <3>1, ZenonT(40) DEF KeepResult
    <3>2. CASE Now.call.res # 32
      BY <1>9, <3>2 DEF KeepResult
    <3>3. QED
      BY <3>1, <3>2
  <2> HIDE DEF b
  <2>2. QED
    BY <1>2, <2>1
<1>10. CASE Prologue \/ CleanUp \/ Exit \/ Stopped \/ UNCHANGED vars
  BY <1>10 DEF Prologue, CleanUp, Exit, Stopped, vars
<1>11. QED
  BY <1>4, <1>5, <1>6, <1>7, <1>8, <1>9, <1>10 DEF Next

\* A function returns with bx, si, di and bp as it found them, and with nothing of
\* its own on the stack.
THEOREM RegistersAreKept ==
  ASSUME CallsAgree, StackSuffices
  PROVE  Spec => RegistersKept
<1> DEFINE Kept3 == LET found == acts[Depth].found IN
                    /\ bp' = found.bp /\ sp' = acts[Depth].entry + 4
                    /\ \A r \in {"bx", "si", "di"} : reg'[r] = found.reg[r]
<1>1. ASSUME IInv, [Next]_vars, Depth' < Depth PROVE Kept3
  <2>1. PICK D \in Nat : D = Depth
    BY <1>1, LenProperties DEF IInv, CallTypeOK, Depth
  <2>2. acts # acts'
    BY <1>1, <2>1 DEF Depth
  <2>3. CASE Return
    <3>1. LET found == acts[D].found
          IN /\ bp' = found.bp /\ sp' = acts[D].entry + 4
             /\ reg' = [reg EXCEPT !["di"] = found.reg["di"], !["si"] = found.reg["si"],
                                   !["bx"] = found.reg["bx"],
                                   !["ax"] = IF acts[D].call.res = 0 THEN reg["ax"] ELSE returned'[1],
                                   !["dx"] = IF acts[D].call.res = 32 THEN returned'[2] ELSE reg["dx"]]
      BY <1>1, <2>1, <2>3, ReturnFacts
    <3>2. reg \in [Regs -> Words]
      BY <1>1 DEF IInv, CallTypeOK
    <3>3. QED
      BY <2>1, <3>1, <3>2 DEF Regs
  <2>4. CASE ~Return
    <3>1. Depth' >= Depth
      BY <1>1, <2>2, <2>4, OnlyReturnsEnd
    <3>2. Depth' \in Nat /\ Depth \in Nat
      <4>1. CallTypeOK /\ CallTypeOK'
        BY <1>1, NextInv DEF IInv
      <4>2. QED
        BY <4>1, LenProperties DEF CallTypeOK, Depth
    <3>3. QED
      BY <1>1, <3>1, <3>2
  <2>5. QED
    BY <2>3, <2>4
<1>2. IInv /\ [Next]_vars => [Depth' < Depth => Kept3]_vars
  BY <1>1
<1>3. QED
  BY <1>2, Invariance, PTL DEF Spec, RegistersKept
=============================================================================
