------------------------- MODULE DaqSession_proofs -------------------------
(* What invocations leave behind: proofs about DaqSession, for any number  *)
(* of overlapping invocations, any command lines and any kills and faults. *)
EXTENDS DaqSession, TLAPS

-----------------------------------------------------------------------------
(* Sequences of anything                                                   *)

IsSeq(s) == s \in Seq({s[i] : i \in DOMAIN s})

LEMMA SeqParts ==
    ASSUME NEW s, IsSeq(s)
    PROVE  /\ Len(s) \in Nat /\ DOMAIN s = 1 .. Len(s)
           /\ s = << >> <=> Len(s) = 0
BY DEF IsSeq

LEMMA Widen ==
    ASSUME NEW s, IsSeq(s), NEW S, \A i \in 1 .. Len(s) : s[i] \in S
    PROVE  s \in Seq(S)
BY DEF IsSeq

LEMMA Narrow ==
    ASSUME NEW S, NEW s \in Seq(S)
    PROVE  IsSeq(s)
<1>1. \A i \in 1 .. Len(s) : s[i] \in {s[j] : j \in DOMAIN s}
  OBVIOUS
<1> QED BY <1>1 DEF IsSeq

LEMMA Cat ==
    ASSUME NEW s, NEW t, IsSeq(s), IsSeq(t)
    PROVE  /\ IsSeq(s \o t)
           /\ Len(s \o t) = Len(s) + Len(t)
           /\ \A i \in 1 .. Len(s) : (s \o t)[i] = s[i]
           /\ \A i \in Len(s) + 1 .. Len(s) + Len(t) : (s \o t)[i] = t[i - Len(s)]
<1> DEFINE S == {s[i] : i \in DOMAIN s} \cup {t[i] : i \in DOMAIN t}
<1>1. s \in Seq(S)
  BY Widen, SeqParts
<1>2. t \in Seq(S)
  BY Widen, SeqParts
<1> HIDE DEF S
<1>3. s \o t \in Seq(S)
  BY <1>1, <1>2
<1>4. IsSeq(s \o t)
  BY <1>3, Narrow
<1> QED BY <1>1, <1>2, <1>4

LEMMA One ==
    ASSUME NEW x
    PROVE  IsSeq(<<x>>) /\ Len(<<x>>) = 1 /\ <<x>>[1] = x
<1>1. <<x>> \in Seq({x})
  OBVIOUS
<1> QED BY <1>1, Narrow

LEMMA TailParts ==
    ASSUME NEW s, IsSeq(s), s # << >>
    PROVE  /\ IsSeq(Tail(s)) /\ Len(s) >= 1 /\ Len(Tail(s)) = Len(s) - 1
           /\ Head(s) = s[1]
           /\ \A i \in 1 .. Len(s) - 1 : Tail(s)[i] = s[i + 1]
<1> DEFINE S == {s[i] : i \in DOMAIN s}
<1>1. s \in Seq(S)
  BY DEF IsSeq
<1> HIDE DEF S
<1>2. Tail(s) \in Seq(S)
  BY <1>1
<1>3. IsSeq(Tail(s))
  BY <1>2, Narrow
<1> QED BY <1>1, <1>3

-----------------------------------------------------------------------------
(* Blocks: parts of a program in which every write of a register follows   *)
(* the read it needs.                                                      *)

Opening == {"map", "alloc", "addr"}
Second == {"set", "clear", "hput"}

\* y may come after x in a program of release r
After(r, x, y) ==
    /\ y.op \in {"set", "clear"} => x.op = "get"
    /\ y.op = "hput" => x.op = "hget" /\ x.arg = y.arg.reg
    /\ y.op # "map" /\ x.op # "end"
    /\ y.op = "alloc" <=> x.op = "map" /\ r # "v1_0"
    /\ y.op = "addr" <=> x.op = "alloc"

Sets(x, b) == x.op = "set" /\ x.arg = b
Clears(x, b) == x.op = "clear" /\ x.arg = b

\* a block of steps in X that sets the bits S, those in B for good, and clears the
\* bits D
Block(X, s, B, D, S) ==
    /\ s \in Seq(X)
    /\ \A i \in 1 .. Len(s) :
         /\ s[i].op \in Second => i > 1 /\ \A r : After(r, s[i - 1], s[i])
         /\ s[i].op = "set" => \/ s[i].arg \in B
                               \/ \E j \in i + 1 .. Len(s) : Clears(s[j], s[i].arg)
         /\ s[i].op = "set" => s[i].arg \in S
         /\ s[i].op = "clear" => s[i].arg \in D
    /\ \A b \in D : \E i \in 1 .. Len(s) : Clears(s[i], b)
    /\ \A b \in S : \E i \in 1 .. Len(s) : Sets(s[i], b)

LEMMA BlockCat ==
    ASSUME NEW X, NEW s, NEW t, NEW B, NEW C, NEW D, NEW E, NEW S, NEW T,
           Block(X, s, B, D, S), Block(X, t, C, E, T)
    PROVE  Block(X, s \o t, (B \ E) \cup C, D \cup E, S \cup T)
<1> DEFINE u == s \o t
<1>1. s \in Seq(X) /\ t \in Seq(X) /\ Len(s) \in Nat /\ Len(t) \in Nat
  BY DEF Block
<1>2. /\ u \in Seq(X) /\ Len(u) = Len(s) + Len(t)
      /\ \A i \in 1 .. Len(s) : u[i] = s[i]
      /\ \A i \in Len(s) + 1 .. Len(s) + Len(t) : u[i] = t[i - Len(s)]
  BY <1>1
<1>3. \A i \in 1 .. Len(t) : i + Len(s) \in 1 .. Len(u) /\ u[i + Len(s)] = t[i]
  BY <1>1, <1>2
<1> HIDE DEF u
<1>4. ASSUME NEW i \in 1 .. Len(u)
      PROVE  /\ u[i].op \in Second => i > 1 /\ \A r : After(r, u[i - 1], u[i])
             /\ u[i].op = "set" => \/ u[i].arg \in (B \ E) \cup C
                                   \/ \E j \in i + 1 .. Len(u) : Clears(u[j], u[i].arg)
             /\ u[i].op = "set" => u[i].arg \in S \cup T
             /\ u[i].op = "clear" => u[i].arg \in D \cup E
  <2>1. CASE i \in 1 .. Len(s)
    <3>1. u[i] = s[i] /\ (i > 1 => u[i - 1] = s[i - 1])
      BY <1>1, <1>2, <2>1
    <3>2. /\ s[i].op \in Second => i > 1 /\ \A r : After(r, s[i - 1], s[i])
          /\ s[i].op = "set" => s[i].arg \in S
          /\ s[i].op = "clear" => s[i].arg \in D
      BY <2>1 DEF Block
    <3>3. ASSUME s[i].op = "set", s[i].arg \notin (B \ E) \cup C
          PROVE  \E j \in i + 1 .. Len(u) : Clears(u[j], u[i].arg)
      <4>1. CASE s[i].arg \in E
        <5>1. PICK k \in 1 .. Len(t) : Clears(t[k], s[i].arg)
          BY <4>1 DEF Block
        <5>2. k + Len(s) \in i + 1 .. Len(u)
          BY <1>1, <1>2, <2>1
        <5> QED BY <1>3, <3>1, <5>1, <5>2
      <4>2. CASE s[i].arg \notin B
        <5>1. PICK j \in i + 1 .. Len(s) : Clears(s[j], s[i].arg)
          BY <2>1, <3>3, <4>2 DEF Block
        <5>2. j \in i + 1 .. Len(u) /\ j \in 1 .. Len(s)
          BY <1>1, <1>2, <2>1
        <5> QED BY <1>2, <3>1, <5>1, <5>2
      <4> QED BY <3>3, <4>1, <4>2
    <3> QED BY <3>1, <3>2, <3>3
  <2>2. CASE i \in Len(s) + 1 .. Len(u)
    <3> DEFINE k == i - Len(s)
    <3>1. k \in 1 .. Len(t) /\ i = k + Len(s) /\ u[i] = t[k]
      BY <1>1, <1>2, <2>2
    <3>2. k > 1 => i > 1 /\ i - 1 = (k - 1) + Len(s) /\ k - 1 \in 1 .. Len(t)
      BY <1>1, <3>1
    <3> HIDE DEF k
    <3>3. k > 1 => i > 1 /\ u[i - 1] = t[k - 1]
      BY <1>3, <3>2
    <3>4. /\ t[k].op \in Second => k > 1 /\ \A r : After(r, t[k - 1], t[k])
          /\ t[k].op = "set" => t[k].arg \in T
          /\ t[k].op = "clear" => t[k].arg \in E
          /\ t[k].op = "set" /\ t[k].arg \notin C =>
               \E j \in k + 1 .. Len(t) : Clears(t[j], t[k].arg)
      BY <3>1 DEF Block
    <3>5. ASSUME t[k].op = "set", t[k].arg \notin C
          PROVE  \E j \in i + 1 .. Len(u) : Clears(u[j], u[i].arg)
      <4>1. PICK j \in k + 1 .. Len(t) : Clears(t[j], t[k].arg)
        BY <3>4, <3>5
      <4>2. j + Len(s) \in i + 1 .. Len(u) /\ j \in 1 .. Len(t)
        BY <1>1, <1>2, <3>1
      <4> QED BY <1>3, <3>1, <4>1, <4>2
    <3> QED BY <3>1, <3>3, <3>4, <3>5
  <2> QED BY <1>1, <1>2, <2>1, <2>2
<1>5. ASSUME NEW b \in D \cup E
      PROVE  \E i \in 1 .. Len(u) : Clears(u[i], b)
  <2>1. CASE b \in D
    <3>1. PICK i \in 1 .. Len(s) : Clears(s[i], b)
      BY <2>1 DEF Block
    <3>2. i \in 1 .. Len(u)
      BY <1>1, <1>2
    <3> QED BY <1>2, <3>1, <3>2
  <2>2. CASE b \in E
    <3>1. PICK i \in 1 .. Len(t) : Clears(t[i], b)
      BY <2>2 DEF Block
    <3> QED BY <1>3, <3>1
  <2> QED BY <2>1, <2>2
<1>6. ASSUME NEW b \in S \cup T
      PROVE  \E i \in 1 .. Len(u) : Sets(u[i], b)
  <2>1. CASE b \in S
    <3>1. PICK i \in 1 .. Len(s) : Sets(s[i], b)
      BY <2>1 DEF Block
    <3>2. i \in 1 .. Len(u)
      BY <1>1, <1>2
    <3> QED BY <1>2, <3>1, <3>2
  <2>2. CASE b \in T
    <3>1. PICK i \in 1 .. Len(t) : Sets(t[i], b)
      BY <2>2 DEF Block
    <3> QED BY <1>3, <3>1
  <2> QED BY <2>1, <2>2
<1> QED BY <1>2, <1>4, <1>5, <1>6 DEF Block, u

LEMMA BlockStep ==
    ASSUME NEW X, NEW x \in X, x.op \notin Second
    PROVE  Block(X, <<x>>, {}, {}, {})
<1>1. <<x>> \in Seq(X) /\ Len(<<x>>) = 1 /\ <<x>>[1] = x
  OBVIOUS
<1>2. x.op # "set" /\ x.op # "clear"
  BY DEF Second
<1> QED BY <1>1, <1>2 DEF Block

LEMMA BlockEmpty ==
    ASSUME NEW X
    PROVE  Block(X, << >>, {}, {}, {})
<1>1. << >> \in Seq(X) /\ Len(<< >>) = 0
  OBVIOUS
<1> QED BY <1>1 DEF Block

\* a read and the write that follows it
LEMMA BlockPair ==
    ASSUME NEW X, NEW x \in X, NEW y \in X,
           x.op \notin Second, y.op \in Second, \A r : After(r, x, y)
    PROVE  /\ y.op = "set" => Block(X, <<x>> \o <<y>>, {y.arg}, {}, {y.arg})
           /\ y.op = "clear" => Block(X, <<x>> \o <<y>>, {}, {y.arg}, {})
           /\ y.op = "hput" => Block(X, <<x>> \o <<y>>, {}, {}, {})
<1> DEFINE u == <<x>> \o <<y>>
<1>1. u \in Seq(X) /\ Len(u) = 2 /\ u[1] = x /\ u[2] = y
  OBVIOUS
<1>2. 1 .. 2 = {1, 2} /\ 1 + 1 .. 2 = {2} /\ 2 + 1 .. 2 = {}
  OBVIOUS
<1>3. x.op # "set" /\ x.op # "clear"
  BY DEF Second
<1> HIDE DEF u
<1>4. y.op = "set" => Block(X, u, {y.arg}, {}, {y.arg})
  BY <1>1, <1>2, <1>3 DEF Block, Sets
<1>5. y.op = "clear" => Block(X, u, {}, {y.arg}, {})
  BY <1>1, <1>2, <1>3 DEF Block, Clears
<1>6. y.op = "hput" => Block(X, u, {}, {}, {})
  BY <1>1, <1>2, <1>3 DEF Block
<1> QED BY <1>4, <1>5, <1>6 DEF u

\* the steps by name
GetS == [op |-> "get", needs |-> {"cfg"}, arg |-> {}]
SetS(b) == [op |-> "set", needs |-> {"cfg"}, arg |-> b]
ClearS(b) == [op |-> "clear", needs |-> {"cfg"}, arg |-> b]
WriteS(f) == [op |-> "write", needs |-> {"cfg"}, arg |-> f]
HgetS(reg) == [op |-> "hget", needs |-> {"cfg"}, arg |-> reg]
HputS(reg, n) == [op |-> "hput", needs |-> {"cfg"}, arg |-> [reg |-> reg, n |-> n]]

LEMMA AddStep ==
    ASSUME NEW X, NEW s, NEW B, NEW D, NEW S, Block(X, s, B, D, S),
           NEW x \in X, x.op \notin Second
    PROVE  Block(X, s \o <<x>>, B, D, S)
<1>1. Block(X, <<x>>, {}, {}, {})
  BY BlockStep
<1>2. (B \ {}) \cup {} = B /\ D \cup {} = D /\ S \cup {} = S
  OBVIOUS
<1> QED BY <1>1, <1>2, BlockCat

LEMMA SetBlock ==
    ASSUME NEW X, NEW b, GetS \in X, SetS(b) \in X
    PROVE  Block(X, SetBit(b), {b}, {}, {b})
<1>1. GetS.op = "get" /\ SetS(b).op = "set" /\ SetS(b).arg = b
  BY DEF GetS, SetS
<1>2. SetBit(b) = <<GetS>> \o <<SetS(b)>>
  BY DEF SetBit, Step, GetS, SetS
<1>3. GetS.op \notin Second /\ SetS(b).op \in Second /\ \A r : After(r, GetS, SetS(b))
  BY <1>1 DEF Second, After
<1> QED BY <1>1, <1>2, <1>3, BlockPair

LEMMA ClearBlock ==
    ASSUME NEW X, NEW b, GetS \in X, ClearS(b) \in X
    PROVE  Block(X, ClearBit(b), {}, {b}, {})
<1>1. GetS.op = "get" /\ ClearS(b).op = "clear" /\ ClearS(b).arg = b
  BY DEF GetS, ClearS
<1>2. ClearBit(b) = <<GetS>> \o <<ClearS(b)>>
  BY DEF ClearBit, Step, GetS, ClearS
<1>3. GetS.op \notin Second /\ ClearS(b).op \in Second /\ \A r : After(r, GetS, ClearS(b))
  BY <1>1 DEF Second, After
<1> QED BY <1>1, <1>2, <1>3, BlockPair

LEMMA AddSet ==
    ASSUME NEW X, NEW s, NEW B, NEW D, NEW S, Block(X, s, B, D, S), NEW b,
           GetS \in X, SetS(b) \in X
    PROVE  Block(X, s \o SetBit(b), B \cup {b}, D, S \cup {b})
<1>1. Block(X, SetBit(b), {b}, {}, {b})
  BY SetBlock
<1>2. (B \ {}) \cup {b} = B \cup {b} /\ D \cup {} = D
  OBVIOUS
<1> QED BY <1>1, <1>2, BlockCat

LEMMA AddClear ==
    ASSUME NEW X, NEW s, NEW B, NEW D, NEW S, Block(X, s, B, D, S), NEW b,
           GetS \in X, ClearS(b) \in X
    PROVE  Block(X, s \o ClearBit(b), B \ {b}, D \cup {b}, S)
<1>1. Block(X, ClearBit(b), {}, {b}, {})
  BY ClearBlock
<1>2. (B \ {b}) \cup {} = B \ {b} /\ S \cup {} = S
  OBVIOUS
<1> QED BY <1>1, <1>2, BlockCat

LEMMA AddLimit ==
    ASSUME NEW X, NEW s, NEW B, NEW D, NEW S, Block(X, s, B, D, S), NEW reg, NEW n,
           HgetS(reg) \in X, HputS(reg, n) \in X
    PROVE  Block(X, s \o V15!SetLimit(reg, n), B, D, S)
<1> DEFINE x == HgetS(reg)
           y == HputS(reg, n)
<1>1. x.op = "hget" /\ x.arg = reg /\ y.op = "hput" /\ y.arg.reg = reg
  BY DEF HgetS, HputS
<1>2. V15!SetLimit(reg, n) = <<x>> \o <<y>>
  BY DEF V15!SetLimit, V15!Step, HgetS, HputS
<1> HIDE DEF x, y
<1>3. x.op \notin Second /\ y.op \in Second /\ \A r : After(r, x, y)
  BY <1>1 DEF Second, After
<1>4. Block(X, V15!SetLimit(reg, n), {}, {}, {})
  BY <1>1, <1>2, <1>3, BlockPair DEF x, y
<1>5. (B \ {}) \cup {} = B /\ D \cup {} = D /\ S \cup {} = S
  OBVIOUS
<1> QED BY <1>4, <1>5, BlockCat

-----------------------------------------------------------------------------
(* The parts of the programs                                               *)

Levels == [TRLVL_1 |-> 8190, TRLVL_2 |-> 8190, STRLVL_1 |-> 8190, STRLVL_2 |-> 8190, HV1 |-> 0, HV2 |-> 0]
Samples == [NSAMPLES |-> 1048576, TR_SCAL_A |-> 1, TR_SCAL_B |-> 1]

BitsOf(r) == {"fgps", "ramp"} \cup (CASE r = "v1_0" -> {}
                                      [] r = "v1_5" -> {"b11"}
                                      [] OTHER -> {"b5"})

\* init_system(): the registers and the clears, then the sets
ResetPart ==
  Write(Levels) \o ClearBit("ramp") \o ClearBit("trg") \o ClearBit("wr") \o ClearBit("tlast")
  \o Write(Samples)

InitSystem(r) ==
  IF r = "v1_0" THEN ResetPart \o SetBit("fgps") \o SetBit("ramp")
  ELSE ResetPart \o SetBit("fgps") \o SetBit("ramp") \o SetBit(IF r = "v1_5" THEN "b11" ELSE "b5")

Cleared == {"ramp", "trg", "wr", "tlast"}
IrqS(v) == [op |-> "irq", needs |-> {"intc"}, arg |-> v]
InitSteps(r) == {GetS, WriteS(Levels), WriteS(Samples), IrqS(TRUE)}
                \cup {ClearS(b) : b \in Cleared} \cup {SetS(b) : b \in BitsOf(r)}

LEMMA ResetBlock ==
    ASSUME NEW r
    PROVE  Block(InitSteps(r), ResetPart, {}, Cleared, {})
<1> DEFINE X == InitSteps(r)
           c1 == Write(Levels)
           c2 == c1 \o ClearBit("ramp")
           c3 == c2 \o ClearBit("trg")
           c4 == c3 \o ClearBit("wr")
           c5 == c4 \o ClearBit("tlast")
<1>1. ResetPart = c5 \o <<WriteS(Samples)>> /\ c1 = <<WriteS(Levels)>>
  BY DEF ResetPart, Write, Step, WriteS
<1>2. /\ GetS \in X /\ WriteS(Levels) \in X /\ WriteS(Samples) \in X
      /\ \A b \in Cleared : ClearS(b) \in X
  BY DEF InitSteps
<1>3. WriteS(Levels).op \notin Second /\ WriteS(Samples).op \notin Second
  BY DEF WriteS, Second
<1> HIDE DEF X
<1>4. Block(X, c1, {}, {}, {})
  BY <1>1, <1>2, <1>3, BlockStep
<1> HIDE DEF c1
<1>5. Block(X, c2, {}, {"ramp"}, {})
  <2>1. {} \ {"ramp"} = {} /\ {} \cup {"ramp"} = {"ramp"} /\ "ramp" \in Cleared
    BY DEF Cleared
  <2> QED BY <1>2, <1>4, <2>1, AddClear
<1> HIDE DEF c2
<1>6. Block(X, c3, {}, {"ramp", "trg"}, {})
  <2>1. {} \ {"trg"} = {} /\ {"ramp"} \cup {"trg"} = {"ramp", "trg"} /\ "trg" \in Cleared
    BY DEF Cleared
  <2> QED BY <1>2, <1>5, <2>1, AddClear
<1> HIDE DEF c3
<1>7. Block(X, c4, {}, {"ramp", "trg", "wr"}, {})
  <2>1. {} \ {"wr"} = {} /\ {"ramp", "trg"} \cup {"wr"} = {"ramp", "trg", "wr"} /\ "wr" \in Cleared
    BY DEF Cleared
  <2> QED BY <1>2, <1>6, <2>1, AddClear
<1> HIDE DEF c4
<1>8. Block(X, c5, {}, Cleared, {})
  <2>1. {} \ {"tlast"} = {} /\ {"ramp", "trg", "wr"} \cup {"tlast"} = Cleared /\ "tlast" \in Cleared
    BY DEF Cleared
  <2> QED BY <1>2, <1>7, <2>1, AddClear
<1> HIDE DEF c5
<1> QED BY <1>1, <1>2, <1>3, <1>8, AddStep DEF X

LEMMA Assoc ==
    ASSUME NEW X, NEW s \in Seq(X), NEW t \in Seq(X), NEW u \in Seq(X)
    PROVE  (s \o t) \o u = s \o (t \o u)
OBVIOUS

\* the sets of init_system() come after its clears, that of fgps first
Ordered(s) ==
  /\ \A i \in 1 .. Len(s) : s[i].op = "set" => \E j \in 1 .. i : Sets(s[j], "fgps")
  /\ \A i, j \in 1 .. Len(s) : s[i].op = "clear" /\ s[j].op = "set" => i < j

\* ClearsFirst: two blocks, the first without sets and the second without clears
LEMMA InOrder ==
    ASSUME NEW X, NEW s, NEW t, NEW D, NEW B, NEW S,
           Block(X, s, {}, D, {}), Block(X, t, B, {}, S), Len(t) > 1, Sets(t[2], "fgps")
    PROVE  Ordered(s \o t)
<1> DEFINE u == s \o t
<1>1. s \in Seq(X) /\ t \in Seq(X) /\ Len(s) \in Nat /\ Len(t) \in Nat
  BY DEF Block
<1>2. /\ Len(u) = Len(s) + Len(t)
      /\ \A i \in 1 .. Len(s) : u[i] = s[i]
      /\ \A i \in Len(s) + 1 .. Len(s) + Len(t) : u[i] = t[i - Len(s)]
  BY <1>1
<1> HIDE DEF u
<1>3. \A i \in 1 .. Len(s) : s[i].op # "set"
  BY DEF Block
<1>4. \A i \in 1 .. Len(t) : t[i].op # "clear" /\ (t[i].op = "set" => i > 1)
  BY DEF Block, Second
<1>5. ASSUME NEW i \in 1 .. Len(u), u[i].op = "set"
      PROVE  i \in Len(s) + 2 .. Len(u)
  <2>1. i \in Len(s) + 1 .. Len(u)
    BY <1>1, <1>2, <1>3, <1>5
  <2>2. i - Len(s) \in 1 .. Len(t) /\ u[i] = t[i - Len(s)]
    BY <1>1, <1>2, <2>1
  <2>3. i - Len(s) > 1
    BY <1>4, <1>5, <2>2
  <2> QED BY <1>1, <2>1, <2>3
<1>6. ASSUME NEW i \in 1 .. Len(u), u[i].op = "clear"
      PROVE  i \in 1 .. Len(s)
  <2>1. i \in 1 .. Len(s) \/ i \in Len(s) + 1 .. Len(s) + Len(t)
    BY <1>1, <1>2
  <2>2. ASSUME i \in Len(s) + 1 .. Len(s) + Len(t)
        PROVE  FALSE
    <3>1. i - Len(s) \in 1 .. Len(t)
      BY <1>1, <2>2
    <3>2. u[i] = t[i - Len(s)]
      BY <1>2, <2>2
    <3> QED BY <1>4, <1>6, <3>1, <3>2
  <2> QED BY <2>1, <2>2
<1>7. Sets(u[Len(s) + 2], "fgps")
  BY <1>1, <1>2
<1>8. \A i \in 1 .. Len(u) : u[i].op = "set" => \E j \in 1 .. i : Sets(u[j], "fgps")
  BY <1>1, <1>2, <1>5, <1>7
<1>9. \A i, j \in 1 .. Len(u) : u[i].op = "clear" /\ u[j].op = "set" => i < j
  BY <1>1, <1>2, <1>5, <1>6
<1> QED BY <1>8, <1>9 DEF Ordered, u

LEMMA InitBlock ==
    ASSUME NEW r
    PROVE  /\ Block(InitSteps(r), InitSystem(r), BitsOf(r), Cleared, BitsOf(r))
           /\ Ordered(InitSystem(r))
<1> DEFINE X == InitSteps(r)
           m == IF r = "v1_5" THEN "b11" ELSE "b5"
           t2 == SetBit("fgps") \o SetBit("ramp")
           t3 == t2 \o SetBit(m)
           t == IF r = "v1_0" THEN t2 ELSE t3
<1>1. /\ GetS \in X /\ SetS("fgps") \in X /\ SetS("ramp") \in X
      /\ r # "v1_0" => SetS(m) \in X
  BY DEF InitSteps, BitsOf
<1>2. Block(X, ResetPart, {}, Cleared, {})
  BY ResetBlock
<1> HIDE DEF X
<1>3. Block(X, SetBit("fgps"), {"fgps"}, {}, {"fgps"})
  BY <1>1, SetBlock
<1>4. Block(X, t2, {"fgps", "ramp"}, {}, {"fgps", "ramp"})
  <2>1. {"fgps"} \cup {"ramp"} = {"fgps", "ramp"}
    OBVIOUS
  <2> QED BY <1>1, <1>3, <2>1, AddSet
<1>5. Block(X, SetBit("ramp"), {"ramp"}, {}, {"ramp"})
  BY <1>1, SetBlock
<1>6. r # "v1_0" => Block(X, SetBit(m), {m}, {}, {m})
  BY <1>1, SetBlock
<1>7. Block(X, t, BitsOf(r), {}, BitsOf(r))
  <2>1. CASE r = "v1_0"
    <3>1. BitsOf(r) = {"fgps", "ramp"}
      BY <2>1 DEF BitsOf
    <3> QED BY <1>4, <2>1, <3>1
  <2>2. CASE r # "v1_0"
    <3>1. BitsOf(r) = {"fgps", "ramp"} \cup {m}
      BY <2>2 DEF BitsOf
    <3>2. Block(X, t3, {"fgps", "ramp"} \cup {m}, {}, {"fgps", "ramp"} \cup {m})
      BY <1>1, <1>4, <2>2, AddSet
    <3> QED BY <2>2, <3>1, <3>2
  <2> QED BY <2>1, <2>2
<1>8. InitSystem(r) = ResetPart \o t
  <2> DEFINE R == ResetPart
             F == SetBit("fgps")
             Q == SetBit("ramp")
             M == SetBit(m)
  <2>1. R \in Seq(X) /\ F \in Seq(X) /\ Q \in Seq(X) /\ (r # "v1_0" => M \in Seq(X))
    BY <1>2, <1>3, <1>5, <1>6 DEF Block
  <2>2. InitSystem(r) = IF r = "v1_0" THEN (R \o F) \o Q ELSE ((R \o F) \o Q) \o M
    BY DEF InitSystem
  <2>3. t = IF r = "v1_0" THEN F \o Q ELSE (F \o Q) \o M
    OBVIOUS
  <2> HIDE DEF R, F, Q, M, t
  <2> DEFINE FQ == F \o Q
  <2>4. (R \o F) \o Q = R \o FQ /\ FQ \in Seq(X)
    BY <2>1
  <2>5. InitSystem(r) = (IF r = "v1_0" THEN R \o FQ ELSE (R \o FQ) \o M) /\ t = (IF r = "v1_0" THEN FQ ELSE FQ \o M)
    BY <2>2, <2>3, <2>4
  <2> HIDE DEF FQ
  <2>6. InitSystem(r) = R \o t
    <3>1. CASE r = "v1_0"
      BY <2>5, <3>1
    <3>2. CASE r # "v1_0"
      <4>1. M \in Seq(X)
        BY <2>1, <3>2
      <4>2. (R \o FQ) \o M = R \o (FQ \o M)
        BY <2>1, <2>4, <4>1
      <4> QED BY <2>5, <3>2, <4>2
    <3> QED BY <3>1, <3>2
  <2> QED BY <2>6 DEF R
<1>9. Len(t) > 1 /\ Sets(t[2], "fgps")
  <2>1. SetBit("fgps") = <<GetS>> \o <<SetS("fgps")>>
    BY DEF SetBit, Step, GetS, SetS
  <2>2. Len(SetBit("fgps")) = 2 /\ SetBit("fgps")[2] = SetS("fgps")
    BY <2>1, One, Cat
  <2>3. /\ SetBit("fgps") \in Seq(X) /\ SetBit("ramp") \in Seq(X) /\ t2 \in Seq(X)
        /\ r # "v1_0" => SetBit(m) \in Seq(X)
    BY <1>3, <1>4, <1>5, <1>6 DEF Block
  <2>4. Len(t2) > 1 /\ t2[2] = SetS("fgps")
    BY <2>2, <2>3
  <2> HIDE DEF t2
  <2>5. r # "v1_0" => Len(t3) > 1 /\ t3[2] = SetS("fgps")
    BY <2>3, <2>4
  <2>6. Sets(SetS("fgps"), "fgps")
    BY DEF Sets, SetS
  <2> QED BY <2>4, <2>5, <2>6
<1> HIDE DEF t
<1>10. Ordered(InitSystem(r))
  BY <1>2, <1>7, <1>8, <1>9, InOrder
<1>11. Block(X, ResetPart \o t, ({} \ {}) \cup BitsOf(r), Cleared \cup {}, {} \cup BitsOf(r))
  BY <1>2, <1>7, BlockCat
<1>12. ({} \ {}) \cup BitsOf(r) = BitsOf(r) /\ Cleared \cup {} = Cleared /\ {} \cup BitsOf(r) = BitsOf(r)
  OBVIOUS
<1> QED BY <1>8, <1>10, <1>11, <1>12 DEF X

\* what is done at the first access
FirstArg(r) == InitSystem(r) \o Step("irq", {"intc"}, TRUE)

LEMMA FirstBlock ==
    ASSUME NEW r
    PROVE  /\ Block(InitSteps(r), FirstArg(r), BitsOf(r), Cleared, BitsOf(r))
           /\ Ordered(FirstArg(r))
           /\ \E i \in 1 .. Len(FirstArg(r)) : FirstArg(r)[i] = IrqS(TRUE)
<1> DEFINE X == InitSteps(r)
           s == InitSystem(r)
           u == FirstArg(r)
           e == IrqS(TRUE)
<1>1. e \in X /\ e.op = "irq" /\ u = s \o <<e>>
  BY DEF InitSteps, IrqS, FirstArg, Step
<1>2. Block(X, s, BitsOf(r), Cleared, BitsOf(r)) /\ Ordered(s)
  BY InitBlock
<1> HIDE DEF X, s, u, e
<1>3. Block(X, u, BitsOf(r), Cleared, BitsOf(r))
  BY <1>1, <1>2, AddStep DEF Second
<1>4. s \in Seq(X) /\ Len(s) \in Nat
  BY <1>2 DEF Block
<1>5. /\ Len(u) = Len(s) + 1 /\ u[Len(u)] = e
      /\ \A i \in 1 .. Len(s) : u[i] = s[i]
  BY <1>1, <1>4, One, Cat, Narrow
<1>6. \A i \in 1 .. Len(u) : u[i].op \in {"set", "clear"} => i \in 1 .. Len(s)
  BY <1>1, <1>4, <1>5
<1>7. \A i \in 1 .. Len(u) : u[i].op = "set" => \E j \in 1 .. i : Sets(u[j], "fgps")
  <2> SUFFICES ASSUME NEW i \in 1 .. Len(u), u[i].op = "set"
               PROVE  \E j \in 1 .. i : Sets(u[j], "fgps")
    OBVIOUS
  <2>1. i \in 1 .. Len(s)
    BY <1>6
  <2>2. PICK j \in 1 .. i : Sets(s[j], "fgps")
    BY <1>2, <1>5, <2>1 DEF Ordered
  <2>3. u[j] = s[j]
    BY <1>4, <1>5, <2>1
  <2> QED BY <2>2, <2>3
<1>8. \A i, j \in 1 .. Len(u) : u[i].op = "clear" /\ u[j].op = "set" => i < j
  BY <1>2, <1>5, <1>6 DEF Ordered
<1>9. Len(u) \in 1 .. Len(u)
  BY <1>4, <1>5
<1> QED BY <1>3, <1>5, <1>7, <1>8, <1>9 DEF Ordered, X, u, e

Acquire ==
  SetBit("tlast") \o SetBit("trg") \o SetBit("wr")
  \o Step("loop", {"intc", "sts", "xadc", "buffer"}, {})
  \o ClearBit("trg") \o ClearBit("wr") \o ClearBit("tlast")

LoopS == [op |-> "loop", needs |-> {"intc", "sts", "xadc", "buffer"}, arg |-> {}]
AcquireSteps == {GetS, LoopS} \cup {SetS(b) : b \in RunBits} \cup {ClearS(b) : b \in RunBits}

LEMMA AcquireBlock == Block(AcquireSteps, Acquire, {}, RunBits, RunBits)
<1> DEFINE X == AcquireSteps
           c1 == SetBit("tlast")
           c2 == c1 \o SetBit("trg")
           c3 == c2 \o SetBit("wr")
           c4 == c3 \o <<LoopS>>
           c5 == c4 \o ClearBit("trg")
           c6 == c5 \o ClearBit("wr")
<1>1. Acquire = c6 \o ClearBit("tlast")
  BY DEF Acquire, Step, LoopS
<1>2. /\ GetS \in X /\ LoopS \in X /\ LoopS.op \notin Second
      /\ \A b \in RunBits : SetS(b) \in X /\ ClearS(b) \in X
  BY DEF AcquireSteps, LoopS, Second
<1>3. "tlast" \in RunBits /\ "trg" \in RunBits /\ "wr" \in RunBits
  BY DEF RunBits
<1> HIDE DEF X
<1>4. Block(X, c1, {"tlast"}, {}, {"tlast"})
  BY <1>2, <1>3, SetBlock
<1> HIDE DEF c1
<1>5. Block(X, c2, {"tlast"} \cup {"trg"}, {}, {"tlast"} \cup {"trg"})
  BY <1>2, <1>3, <1>4, AddSet
<1> HIDE DEF c2
<1>6. Block(X, c3, RunBits, {}, RunBits)
  <2>1. ({"tlast"} \cup {"trg"}) \cup {"wr"} = RunBits
    BY DEF RunBits
  <2> QED BY <1>2, <1>3, <1>5, <2>1, AddSet
<1> HIDE DEF c3
<1>7. Block(X, c4, RunBits, {}, RunBits)
  BY <1>2, <1>6, AddStep
<1> HIDE DEF c4
<1>8. Block(X, c5, RunBits \ {"trg"}, {"trg"}, RunBits)
  <2>1. {} \cup {"trg"} = {"trg"}
    OBVIOUS
  <2> QED BY <1>2, <1>3, <1>7, <2>1, AddClear
<1> HIDE DEF c5
<1>9. Block(X, c6, (RunBits \ {"trg"}) \ {"wr"}, {"trg"} \cup {"wr"}, RunBits)
  BY <1>2, <1>3, <1>8, AddClear
<1> HIDE DEF c6
<1>10. Block(X, c6 \o ClearBit("tlast"), ((RunBits \ {"trg"}) \ {"wr"}) \ {"tlast"},
                ({"trg"} \cup {"wr"}) \cup {"tlast"}, RunBits)
  BY <1>2, <1>3, <1>9, AddClear
<1>11. /\ ((RunBits \ {"trg"}) \ {"wr"}) \ {"tlast"} = {}
       /\ ({"trg"} \cup {"wr"}) \cup {"tlast"} = RunBits
  BY DEF RunBits
<1> QED BY <1>1, <1>10, <1>11 DEF X

Histo(n) ==
  ClearBit("b5") \o ClearBit("b6")
  \o V15!SetLimit("HST0", n - 1) \o V15!SetLimit("HST1", n - 1)
  \o SetBit("b5") \o SetBit("b6")
  \o Step("poll", {"sts", "hst0", "hst1"}, n - 2)
  \o ClearBit("b5") \o ClearBit("b6")

Cores == {"b5", "b6"}
PollS(n) == [op |-> "poll", needs |-> {"sts", "hst0", "hst1"}, arg |-> n]
HistoSteps(n) == {GetS, PollS(n - 2)}
                 \cup {SetS(b) : b \in Cores} \cup {ClearS(b) : b \in Cores}
                 \cup {HgetS(h) : h \in {"HST0", "HST1"}} \cup {HputS(h, n - 1) : h \in {"HST0", "HST1"}}

LEMMA HistoBlock ==
    ASSUME NEW n
    PROVE  Block(HistoSteps(n), Histo(n), {}, Cores, Cores)
<1> DEFINE X == HistoSteps(n)
           c1 == ClearBit("b5")
           c2 == c1 \o ClearBit("b6")
           c3 == c2 \o V15!SetLimit("HST0", n - 1)
           c4 == c3 \o V15!SetLimit("HST1", n - 1)
           c5 == c4 \o SetBit("b5")
           c6 == c5 \o SetBit("b6")
           c7 == c6 \o <<PollS(n - 2)>>
           c8 == c7 \o ClearBit("b5")
<1>1. Histo(n) = c8 \o ClearBit("b6")
  BY DEF Histo, Step, PollS
<1>2. /\ GetS \in X /\ PollS(n - 2) \in X /\ PollS(n - 2).op \notin Second
      /\ \A b \in Cores : SetS(b) \in X /\ ClearS(b) \in X
      /\ \A h \in {"HST0", "HST1"} : HgetS(h) \in X /\ HputS(h, n - 1) \in X
  BY DEF HistoSteps, PollS, Second
<1>3. "b5" \in Cores /\ "b6" \in Cores
  BY DEF Cores
<1> HIDE DEF X
<1>4. Block(X, c1, {}, {"b5"}, {})
  BY <1>2, <1>3, ClearBlock
<1> HIDE DEF c1
<1>5. Block(X, c2, {}, Cores, {})
  <2>1. {} \ {"b6"} = {} /\ {"b5"} \cup {"b6"} = Cores
    BY DEF Cores
  <2> QED BY <1>2, <1>3, <1>4, <2>1, AddClear
<1> HIDE DEF c2
<1>6. Block(X, c3, {}, Cores, {})
  BY <1>2, <1>5, AddLimit
<1> HIDE DEF c3
<1>7. Block(X, c4, {}, Cores, {})
  BY <1>2, <1>6, AddLimit
<1> HIDE DEF c4
<1>8. Block(X, c5, {} \cup {"b5"}, Cores, {} \cup {"b5"})
  BY <1>2, <1>3, <1>7, AddSet
<1> HIDE DEF c5
<1>9. Block(X, c6, Cores, Cores, Cores)
  <2>1. ({} \cup {"b5"}) \cup {"b6"} = Cores
    BY DEF Cores
  <2> QED BY <1>2, <1>3, <1>8, <2>1, AddSet
<1> HIDE DEF c6
<1>10. Block(X, c7, Cores, Cores, Cores)
  BY <1>2, <1>9, AddStep
<1> HIDE DEF c7
<1>11. Block(X, c8, Cores \ {"b5"}, Cores \cup {"b5"}, Cores)
  BY <1>2, <1>3, <1>10, AddClear
<1> HIDE DEF c8
<1>12. Block(X, c8 \o ClearBit("b6"), (Cores \ {"b5"}) \ {"b6"}, (Cores \cup {"b5"}) \cup {"b6"}, Cores)
  BY <1>2, <1>3, <1>11, AddClear
<1>13. (Cores \ {"b5"}) \ {"b6"} = {} /\ (Cores \cup {"b5"}) \cup {"b6"} = Cores
  BY DEF Cores
<1> QED BY <1>1, <1>12, <1>13 DEF X

\* set_voltage()
Dac(r, value) ==
  IF r = "v1_0" THEN (IF value < 5 THEN 0 ELSE ((value - 5) * 26174) \div 1000)
  ELSE (IF value < 8 THEN 0 ELSE ((value - 8) * 11338) \div 1000)

ShowS(d) == [op |-> "show", needs |-> {d}, arg |-> {}]

\* the step of a command line that has only one
OneStep(r, c) ==
  CASE c.what = "read"                          -> ShowS(c.dev)
    [] c.what \in {"write", "set"} /\ c.dev = "cfg"  -> WriteS(Value(c.reg, c.val))
    [] c.what \in {"write", "set"} /\ c.dev = "intc" -> IrqS(c.val = 1)
    [] c.what \in {"write", "set"} /\ c.dev \notin {"cfg", "intc"} -> ShowS(c.dev)
    [] c.what = "voltage"                       -> WriteS(Value(c.reg, Dac(r, c.val)))
    [] c.what \in {"status", "gps"}             -> ShowS("cfg")
    [] c.what = "xadc"                          -> ShowS("xadc")

Body(r, c) ==
  IF c.what = "init" THEN InitSystem(r)
  ELSE IF c.what = "acquire" THEN Acquire
  ELSE IF c.what = "histogram" THEN Histo(c.val)
  ELSE IF c.what = "pressure" THEN << >>
  ELSE <<OneStep(r, c)>>

BodySteps(r, c) ==
  IF c.what = "init" THEN InitSteps(r)
  ELSE IF c.what = "acquire" THEN AcquireSteps
  ELSE IF c.what = "histogram" THEN HistoSteps(c.val)
  ELSE IF c.what = "pressure" THEN {}
  ELSE {OneStep(r, c)}

Whats == {"read", "write", "set", "voltage", "status", "pressure", "gps", "init", "xadc", "acquire",
          "histogram"}

LastingBits(r, c) == IF c.what = "init" THEN BitsOf(r) ELSE {}
ClearedBits(c) ==
  IF c.what = "init" THEN Cleared ELSE IF c.what = "acquire" THEN RunBits
  ELSE IF c.what = "histogram" THEN Cores ELSE {}
SetBits(r, c) ==
  IF c.what = "init" THEN BitsOf(r) ELSE IF c.what = "acquire" THEN RunBits
  ELSE IF c.what = "histogram" THEN Cores ELSE {}

LEMMA OneStepOp ==
    ASSUME NEW r, NEW c, c.what \in Whats \ {"init", "acquire", "histogram", "pressure"}
    PROVE  OneStep(r, c).op \in {"show", "write", "irq"}
<1>1. \A d : ShowS(d).op = "show" /\ WriteS(d).op = "write" /\ IrqS(d).op = "irq"
  BY DEF ShowS, WriteS, IrqS
<1> QED BY <1>1 DEF OneStep, Whats

LEMMA BodyBlock ==
    ASSUME NEW r, NEW c, c.what \in Whats
    PROVE  Block(BodySteps(r, c), Body(r, c), LastingBits(r, c), ClearedBits(c), SetBits(r, c))
<1>1. CASE c.what = "init"
  BY <1>1, InitBlock DEF BodySteps, Body, LastingBits, ClearedBits, SetBits
<1>2. CASE c.what = "acquire"
  BY <1>2, AcquireBlock DEF BodySteps, Body, LastingBits, ClearedBits, SetBits
<1>3. CASE c.what = "histogram"
  BY <1>3, HistoBlock DEF BodySteps, Body, LastingBits, ClearedBits, SetBits
<1>4. CASE c.what = "pressure"
  BY <1>4, BlockEmpty DEF Body, LastingBits, ClearedBits, SetBits
<1>5. CASE c.what \in Whats \ {"init", "acquire", "histogram", "pressure"}
  <2>1. OneStep(r, c).op \notin Second
    BY <1>5, OneStepOp DEF Second
  <2>2. /\ BodySteps(r, c) = {OneStep(r, c)} /\ Body(r, c) = <<OneStep(r, c)>>
        /\ LastingBits(r, c) = {} /\ ClearedBits(c) = {} /\ SetBits(r, c) = {}
    BY <1>5 DEF BodySteps, Body, LastingBits, ClearedBits, SetBits
  <2> QED BY <2>1, <2>2, BlockStep
<1> QED BY <1>1, <1>2, <1>3, <1>4, <1>5

-----------------------------------------------------------------------------
(* main() of each release                                                  *)

MapS(r) == [op |-> "map", needs |-> {},
            arg |-> {"intc", "cfg", "sts", "xadc"}
                    \cup (IF r = "v1_0" THEN {"buffer"} ELSE IF r = "v1_5" THEN {"hst0", "hst1"} ELSE {})]
Simply(op) == [op |-> op, needs |-> {}, arg |-> {}]
AddrS == [op |-> "addr", needs |-> {"cfg"}, arg |-> {}]
FirstS(r) == [op |-> "first", needs |-> {"cfg"}, arg |-> FirstArg(r)]

Opens(r) == IF r = "v1_0" THEN <<MapS(r)>> ELSE <<MapS(r)>> \o <<Simply("alloc")>> \o <<AddrS>>

Main(r, c) ==
  Opens(r) \o (<<FirstS(r)>> \o <<Simply("handler")>>) \o Body(r, c) \o <<Simply("end")>>

LEMMA Main10 ==
    ASSUME NEW c, c.what \in Whats \ {"histogram"}
    PROVE  V10!main(c) = Main("v1_0", c)
<1>1. V10!init_system = InitSystem("v1_0")
  BY DEF V10!init_system, V10!Write, V10!SetBit, V10!ClearBit, V10!Step, InitSystem, ResetPart,
         Levels, Samples, Write, SetBit, ClearBit, Step
<1>2. V10!first_access = <<FirstS("v1_0")>> \o <<Simply("handler")>>
  BY <1>1 DEF V10!first_access, V10!enable_interrupt, V10!Step, FirstS, FirstArg, Simply, Step
<1>3. V10!open_devices = Opens("v1_0")
  <2>1. V10!mem_init \cup V10!intc_init \cup V10!cfg_init \cup V10!sts_init \cup V10!xadc_init
          = {"intc", "cfg", "sts", "xadc"} \cup {"buffer"}
    BY DEF V10!mem_init, V10!intc_init, V10!cfg_init, V10!sts_init, V10!xadc_init
  <2> QED BY <2>1 DEF V10!open_devices, V10!Step, Opens, MapS
<1>4. V10!acquire = Acquire
  BY DEF V10!acquire, V10!SetBit, V10!ClearBit, V10!Step, Acquire, SetBit, ClearBit, Step
<1>5. ASSUME c.what \in {"read", "write", "set", "voltage"}
      PROVE  V10!settings(c) = <<OneStep("v1_0", c)>>
  <2>1. CASE c.what = "read"
    BY <2>1 DEF V10!settings, V10!rd_reg_value, V10!Show, V10!Step, OneStep, ShowS
  <2>2. CASE c.what \in {"write", "set"}
    <3>1. V10!settings(c) = V10!WriteReg(c.dev, c.reg, c.val)
      BY <2>2 DEF V10!settings, V10!wr_reg_value
    <3>2. CASE c.dev = "cfg"
      BY <2>2, <3>1, <3>2 DEF V10!WriteReg, V10!Write, V10!Value, V10!Step, OneStep, WriteS, Value
    <3>3. CASE c.dev = "intc"
      BY <2>2, <3>1, <3>3 DEF V10!WriteReg, V10!Step, OneStep, IrqS
    <3>4. CASE c.dev \notin {"cfg", "intc"}
      BY <2>2, <3>1, <3>4 DEF V10!WriteReg, V10!Show, V10!Step, OneStep, ShowS
    <3> QED BY <3>2, <3>3, <3>4
  <2>3. CASE c.what = "voltage"
    <3>1. V10!settings(c) = V10!set_voltage(c.reg, c.val)
      BY <2>3 DEF V10!settings
    <3>2. OneStep("v1_0", c) = WriteS(Value(c.reg, Dac("v1_0", c.val)))
      BY <2>3 DEF OneStep
    <3> QED BY <3>1, <3>2 DEF V10!set_voltage, V10!Write, V10!Value, V10!Step, WriteS, Value, Dac
  <2> QED BY <1>5, <2>1, <2>2, <2>3
<1>6. /\ c.what \in {"status", "gps", "xadc"} => V10!show_sensors(c.what) = <<OneStep("v1_0", c)>>
      /\ c.what = "pressure" => V10!show_sensors(c.what) = << >>
  BY DEF V10!show_sensors, V10!Show, V10!Nothing, V10!Step, OneStep, ShowS
<1>7. V10!close_devices = <<Simply("end")>>
  BY DEF V10!close_devices, V10!Step, Simply
<1>8. (IF c.what \in {"read", "write", "set", "voltage"} THEN V10!settings(c)
       ELSE IF c.what = "init" THEN V10!init_system
       ELSE IF c.what = "acquire" THEN V10!acquire
       ELSE V10!show_sensors(c.what)) = Body("v1_0", c)
  BY <1>1, <1>4, <1>5, <1>6 DEF Body, Whats
<1> QED BY <1>2, <1>3, <1>7, <1>8 DEF V10!main, Main

LEMMA Main12 ==
    ASSUME NEW c, c.what \in Whats \ {"histogram"}
    PROVE  V12!main(c) = Main("v1_2", c)
<1>1. V12!init_system = InitSystem("v1_2")
  BY DEF V12!init_system, V12!Write, V12!SetBit, V12!ClearBit, V12!Step, InitSystem, ResetPart,
         Levels, Samples, Write, SetBit, ClearBit, Step
<1>2. V12!first_access = <<FirstS("v1_2")>> \o <<Simply("handler")>>
  BY <1>1 DEF V12!first_access, V12!enable_interrupt, V12!Step, FirstS, FirstArg, Simply, Step
<1>3. V12!open_devices = Opens("v1_2")
  <2>1. V12!intc_init \cup V12!cfg_init \cup V12!sts_init \cup V12!xadc_init
          = {"intc", "cfg", "sts", "xadc"} \cup {}
    BY DEF V12!intc_init, V12!cfg_init, V12!sts_init, V12!xadc_init
  <2> QED BY <2>1 DEF V12!open_devices, V12!cma_init, V12!set_address, V12!Step, Opens, MapS, Simply, AddrS
<1>4. V12!acquire = Acquire
  BY DEF V12!acquire, V12!SetBit, V12!ClearBit, V12!Step, Acquire, SetBit, ClearBit, Step
<1>5. ASSUME c.what \in {"read", "write", "set", "voltage"}
      PROVE  V12!settings(c) = <<OneStep("v1_2", c)>>
  <2>1. CASE c.what = "read"
    BY <2>1 DEF V12!settings, V12!rd_reg_value, V12!Show, V12!Step, OneStep, ShowS
  <2>2. CASE c.what \in {"write", "set"}
    <3>1. V12!settings(c) = V12!WriteReg(c.dev, c.reg, c.val)
      BY <2>2 DEF V12!settings, V12!wr_reg_value
    <3>2. CASE c.dev = "cfg"
      BY <2>2, <3>1, <3>2 DEF V12!WriteReg, V12!Write, V12!Value, V12!Step, OneStep, WriteS, Value
    <3>3. CASE c.dev = "intc"
      BY <2>2, <3>1, <3>3 DEF V12!WriteReg, V12!Step, OneStep, IrqS
    <3>4. CASE c.dev \notin {"cfg", "intc"}
      BY <2>2, <3>1, <3>4 DEF V12!WriteReg, V12!Show, V12!Step, OneStep, ShowS
    <3> QED BY <3>2, <3>3, <3>4
  <2>3. CASE c.what = "voltage"
    <3>1. V12!settings(c) = V12!set_voltage(c.reg, c.val)
      BY <2>3 DEF V12!settings
    <3>2. OneStep("v1_2", c) = WriteS(Value(c.reg, Dac("v1_2", c.val)))
      BY <2>3 DEF OneStep
    <3> QED BY <3>1, <3>2 DEF V12!set_voltage, V12!Write, V12!Value, V12!Step, WriteS, Value, Dac
  <2> QED BY <1>5, <2>1, <2>2, <2>3
<1>6. /\ c.what \in {"status", "gps", "xadc"} => V12!show_sensors(c.what) = <<OneStep("v1_2", c)>>
      /\ c.what = "pressure" => V12!show_sensors(c.what) = << >>
  BY DEF V12!show_sensors, V12!Show, V12!Nothing, V12!Step, OneStep, ShowS
<1>7. V12!close_devices = <<Simply("end")>>
  BY DEF V12!close_devices, V12!Step, Simply
<1>8. (IF c.what \in {"read", "write", "set", "voltage"} THEN V12!settings(c)
       ELSE IF c.what = "init" THEN V12!init_system
       ELSE IF c.what = "acquire" THEN V12!acquire
       ELSE V12!show_sensors(c.what)) = Body("v1_2", c)
  BY <1>1, <1>4, <1>5, <1>6 DEF Body, Whats
<1> QED BY <1>2, <1>3, <1>7, <1>8 DEF V12!main, Main

LEMMA Main13 ==
    ASSUME NEW c, c.what \in Whats \ {"histogram"}
    PROVE  V13!main(c) = Main("v1_3", c)
<1>1. V13!init_system = InitSystem("v1_3")
  BY DEF V13!init_system, V13!Write, V13!SetBit, V13!ClearBit, V13!Step, InitSystem, ResetPart,
         Levels, Samples, Write, SetBit, ClearBit, Step
<1>2. V13!first_access = <<FirstS("v1_3")>> \o <<Simply("handler")>>
  BY <1>1 DEF V13!first_access, V13!enable_interrupt, V13!Step, FirstS, FirstArg, Simply, Step
<1>3. V13!open_devices = Opens("v1_3")
  <2>1. V13!intc_init \cup V13!cfg_init \cup V13!sts_init \cup V13!xadc_init
          = {"intc", "cfg", "sts", "xadc"} \cup {}
    BY DEF V13!intc_init, V13!cfg_init, V13!sts_init, V13!xadc_init
  <2> QED BY <2>1 DEF V13!open_devices, V13!cma_init, V13!set_address, V13!Step, Opens, MapS, Simply, AddrS
<1>4. V13!acquire = Acquire
  BY DEF V13!acquire, V13!SetBit, V13!ClearBit, V13!Step, Acquire, SetBit, ClearBit, Step
<1>5. ASSUME c.what \in {"read", "write", "set", "voltage"}
      PROVE  V13!settings(c) = <<OneStep("v1_3", c)>>
  <2>1. CASE c.what = "read"
    BY <2>1 DEF V13!settings, V13!rd_reg_value, V13!Show, V13!Step, OneStep, ShowS
  <2>2. CASE c.what \in {"write", "set"}
    <3>1. V13!settings(c) = V13!WriteReg(c.dev, c.reg, c.val)
      BY <2>2 DEF V13!settings, V13!wr_reg_value
    <3>2. CASE c.dev = "cfg"
      BY <2>2, <3>1, <3>2 DEF V13!WriteReg, V13!Write, V13!Value, V13!Step, OneStep, WriteS, Value
    <3>3. CASE c.dev = "intc"
      BY <2>2, <3>1, <3>3 DEF V13!WriteReg, V13!Step, OneStep, IrqS
    <3>4. CASE c.dev \notin {"cfg", "intc"}
      BY <2>2, <3>1, <3>4 DEF V13!WriteReg, V13!Show, V13!Step, OneStep, ShowS
    <3> QED BY <3>2, <3>3, <3>4
  <2>3. CASE c.what = "voltage"
    <3>1. V13!settings(c) = V13!set_voltage(c.reg, c.val)
      BY <2>3 DEF V13!settings
    <3>2. OneStep("v1_3", c) = WriteS(Value(c.reg, Dac("v1_3", c.val)))
      BY <2>3 DEF OneStep
    <3> QED BY <3>1, <3>2 DEF V13!set_voltage, V13!Write, V13!Value, V13!Step, WriteS, Value, Dac
  <2> QED BY <1>5, <2>1, <2>2, <2>3
<1>6. /\ c.what \in {"status", "gps", "xadc"} => V13!show_sensors(c.what) = <<OneStep("v1_3", c)>>
      /\ c.what = "pressure" => V13!show_sensors(c.what) = << >>
  BY DEF V13!show_sensors, V13!Show, V13!Nothing, V13!Step, OneStep, ShowS
<1>7. V13!close_devices = <<Simply("end")>>
  BY DEF V13!close_devices, V13!Step, Simply
<1>8. (IF c.what \in {"read", "write", "set", "voltage"} THEN V13!settings(c)
       ELSE IF c.what = "init" THEN V13!init_system
       ELSE IF c.what = "acquire" THEN V13!acquire
       ELSE V13!show_sensors(c.what)) = Body("v1_3", c)
  BY <1>1, <1>4, <1>5, <1>6 DEF Body, Whats
<1> QED BY <1>2, <1>3, <1>7, <1>8 DEF V13!main, Main

LEMMA Main15 ==
    ASSUME NEW c, c.what \in Whats
    PROVE  V15!main(c) = Main("v1_5", c)
<1>1. V15!init_system = InitSystem("v1_5")
  BY DEF V15!init_system, V15!Write, V15!SetBit, V15!ClearBit, V15!Step, InitSystem, ResetPart,
         Levels, Samples, Write, SetBit, ClearBit, Step
<1>2. V15!first_access = <<FirstS("v1_5")>> \o <<Simply("handler")>>
  BY <1>1 DEF V15!first_access, V15!enable_interrupt, V15!Step, FirstS, FirstArg, Simply, Step
<1>3. V15!open_devices = Opens("v1_5")
  <2>1. V15!intc_init \cup V15!hst0_init \cup V15!hst1_init \cup V15!cfg_init
          \cup V15!sts_init \cup V15!xadc_init
          = {"intc", "cfg", "sts", "xadc"} \cup {"hst0", "hst1"}
    BY DEF V15!intc_init, V15!hst0_init, V15!hst1_init, V15!cfg_init, V15!sts_init, V15!xadc_init
  <2> QED BY <2>1 DEF V15!open_devices, V15!cma_init, V15!set_address, V15!Step, Opens, MapS, Simply, AddrS
<1>4. V15!acquire = Acquire
  BY DEF V15!acquire, V15!SetBit, V15!ClearBit, V15!Step, Acquire, SetBit, ClearBit, Step
<1>h. V15!histogram(c.val) = Histo(c.val)
  BY DEF V15!histogram, V15!SetBit, V15!ClearBit, V15!Step, Histo, SetBit, ClearBit, Step
<1>5. ASSUME c.what \in {"read", "write", "set", "voltage"}
      PROVE  V15!settings(c) = <<OneStep("v1_5", c)>>
  <2>1. CASE c.what = "read"
    BY <2>1 DEF V15!settings, V15!rd_reg_value, V15!Show, V15!Step, OneStep, ShowS
  <2>2. CASE c.what \in {"write", "set"}
    <3>1. V15!settings(c) = V15!WriteReg(c.dev, c.reg, c.val)
      BY <2>2 DEF V15!settings, V15!wr_reg_value
    <3>2. CASE c.dev = "cfg"
      BY <2>2, <3>1, <3>2 DEF V15!WriteReg, V15!Write, V15!Value, V15!Step, OneStep, WriteS, Value
    <3>3. CASE c.dev = "intc"
      BY <2>2, <3>1, <3>3 DEF V15!WriteReg, V15!Step, OneStep, IrqS
    <3>4. CASE c.dev \notin {"cfg", "intc"}
      BY <2>2, <3>1, <3>4 DEF V15!WriteReg, V15!Show, V15!Step, OneStep, ShowS
    <3> QED BY <3>2, <3>3, <3>4
  <2>3. CASE c.what = "voltage"
    <3>1. V15!settings(c) = V15!set_voltage(c.reg, c.val)
      BY <2>3 DEF V15!settings
    <3>2. OneStep("v1_5", c) = WriteS(Value(c.reg, Dac("v1_5", c.val)))
      BY <2>3 DEF OneStep
    <3> QED BY <3>1, <3>2 DEF V15!set_voltage, V15!Write, V15!Value, V15!Step, WriteS, Value, Dac
  <2> QED BY <1>5, <2>1, <2>2, <2>3
<1>6. /\ c.what \in {"status", "gps", "xadc"} => V15!show_sensors(c.what) = <<OneStep("v1_5", c)>>
      /\ c.what = "pressure" => V15!show_sensors(c.what) = << >>
  BY DEF V15!show_sensors, V15!Show, V15!Nothing, V15!Step, OneStep, ShowS
<1>7. V15!close_devices = <<Simply("end")>>
  BY DEF V15!close_devices, V15!Step, Simply
<1>8. (IF c.what \in {"read", "write", "set", "voltage"} THEN V15!settings(c)
       ELSE IF c.what = "init" THEN V15!init_system
       ELSE IF c.what = "histogram" THEN V15!histogram(c.val)
       ELSE IF c.what = "acquire" THEN V15!acquire
       ELSE V15!show_sensors(c.what)) = Body("v1_5", c)
  BY <1>1, <1>4, <1>5, <1>6, <1>h DEF Body, Whats
<1> QED BY <1>2, <1>3, <1>7, <1>8 DEF V15!main, Main

-----------------------------------------------------------------------------
(* What the command line can be                                            *)

HVs == {"HV1", "HV2", "HV3", "HV4"}

\* a command that is executed
Command(r, c) ==
  /\ c.what \in Whats /\ (c.what = "histogram" => r = "v1_5" /\ c.val \in Int)
  /\ c.what = "set" => c.dev = "cfg" /\ c.reg \notin HVs /\ c.val \in Int
  /\ c.what = "voltage" => c.reg \in HVs /\ c.val \in Int /\ c.val <= 2500

LEMMA RunParts ==
    ASSUME NEW w, NEW d, NEW g, NEW v
    PROVE  Run(w, d, g, v).what = w /\ Run(w, d, g, v).dev = d
           /\ Run(w, d, g, v).reg = g /\ Run(w, d, g, v).val = v
BY DEF Run

LEMMA Scanned ==
    ASSUME NEW r, NEW argv \in Commands, NEW c,
           \/ c \in {Usage, Crash, Error}
           \/ c = ScanAccess(argv)
           \/ argv[1] = "-s" /\ c = ScanSet(argv)
           \/ argv[1] = "-m" /\ r = "v1_5" /\ c = V15!parse_histogram(argv)
           \/ c = Outcome("acquire")
           \/ argv[1] \in DOMAIN Simple /\ c = Outcome(Simple[argv[1]])
    PROVE  c.what \in {"usage", "crash", "error"} \/ Command(r, c)
<1>1. CASE c \in {Usage, Crash, Error}
  BY <1>1, RunParts DEF Usage, Crash, Error, Outcome
<1>2. CASE c = ScanAccess(argv)
  <2>1. \/ c \in {Usage, Crash}
        \/ c = Run("read", argv[2], argv[3], 0) \/ c = Run("write", argv[2], argv[3], argv[4])
    BY <1>2 DEF ScanAccess
  <2> QED BY <1>1, <2>1, RunParts DEF Command, Whats
<1>3. CASE argv[1] = "-s" /\ c = ScanSet(argv)
  <2> SUFFICES ASSUME c \notin {Usage, Crash, Error}
               PROVE  Command(r, c)
    BY <1>1
  <2>1. argv[2] \in DOMAIN SettableRegister /\ ~(Len(argv) < 2) /\ ~(Len(argv) < 3)
    BY <1>3 DEF ScanSet
  <2>2. argv[3] \in Int
    BY <1>3, <2>1, SessionAssumption
  <2>3. /\ \A n \in Voltages : SettableRegister[n] \in HVs
        /\ \A n \in DOMAIN SettableRegister \ Voltages : SettableRegister[n] \notin HVs
    BY DEF SettableRegister, Voltages, HVs
  <2>4. CASE argv[2] \in Voltages
    <3>1. ~(argv[3] > 2500) /\ c = Run("voltage", "cfg", SettableRegister[argv[2]], argv[3])
      BY <1>3, <2>1, <2>4 DEF ScanSet
    <3> QED BY <2>2, <2>3, <2>4, <3>1, RunParts DEF Command, Whats
  <2>5. CASE argv[2] \notin Voltages
    <3>1. c = Run("set", "cfg", SettableRegister[argv[2]], argv[3])
      BY <1>3, <2>1, <2>5 DEF ScanSet
    <3> QED BY <2>1, <2>2, <2>3, <2>5, <3>1, RunParts DEF Command, Whats
  <2> QED BY <2>4, <2>5
<1>4. CASE argv[1] = "-m" /\ r = "v1_5" /\ c = V15!parse_histogram(argv)
  <2>1. \/ c \in {Usage, Error}
        \/ Len(argv) >= 2 /\ c = Run("histogram", "none", "none", argv[2])
    BY <1>4 DEF V15!parse_histogram, V15!Usage, V15!Error, V15!Outcome, V15!Run, Usage, Error, Outcome, Run
  <2> QED BY <1>1, <1>4, <2>1, RunParts, SessionAssumption DEF Command, Whats
<1>5. CASE c = Outcome("acquire")
  BY <1>5, RunParts DEF Outcome, Command, Whats
<1>6. CASE argv[1] \in DOMAIN Simple /\ c = Outcome(Simple[argv[1]])
  <2>1. \A o \in DOMAIN Simple : Simple[o] \in {"status", "acquire", "pressure", "gps", "init", "xadc"}
    BY DEF Simple
  <2>2. c.what \in {"status", "acquire", "pressure", "gps", "init", "xadc"}
    BY <1>6, <2>1, RunParts DEF Outcome
  <2> QED BY <2>2 DEF Command, Whats
<1> QED BY <1>1, <1>2, <1>3, <1>4, <1>5, <1>6

LEMMA Parsed ==
    ASSUME release \in Releases, NEW argv \in Commands
    PROVE  \/ parse_param(argv).what \in {"usage", "crash", "error"}
           \/ Command(release, parse_param(argv))
<1>1. CASE release = "v1_0"
  <2> DEFINE c == V10!parse_param(argv)
  <2>1. parse_param(argv) = c
    BY <1>1 DEF parse_param
  <2>2. /\ V10!Usage = Usage /\ V10!ScanAccess(argv) = ScanAccess(argv)
        /\ V10!ScanSet(argv) = ScanSet(argv) /\ V10!Simple = Simple
        /\ \A w : V10!Outcome(w) = Outcome(w)
    BY DEF V10!Usage, V10!ScanAccess, V10!ScanSet, V10!Simple, V10!Outcome, V10!Run, V10!Crash, V10!Error,
           V10!SettableRegister, V10!Voltages, Usage, ScanAccess, ScanSet, Simple, Outcome, Run, Crash,
           Error, SettableRegister, Voltages
  <2>3. \/ c = V10!Usage
        \/ c = V10!ScanAccess(argv)
        \/ argv[1] = "-s" /\ c = V10!ScanSet(argv)
        \/ c = V10!Outcome("acquire")
        \/ argv[1] \in DOMAIN V10!Simple /\ c = V10!Outcome(V10!Simple[argv[1]])
    BY DEF V10!parse_param, V10!parse_access, V10!parse_set, V10!parse_file
  <2> HIDE DEF c
  <2> QED BY <1>1, <2>1, <2>2, <2>3, Scanned
<1>2. CASE release = "v1_2"
  <2> DEFINE c == V12!parse_param(argv)
  <2>1. parse_param(argv) = c
    BY <1>2 DEF parse_param
  <2>2. /\ V12!Usage = Usage /\ V12!ScanAccess(argv) = ScanAccess(argv)
        /\ V12!ScanSet(argv) = ScanSet(argv) /\ V12!Simple = Simple
        /\ \A w : V12!Outcome(w) = Outcome(w)
    BY DEF V12!Usage, V12!ScanAccess, V12!ScanSet, V12!Simple, V12!Outcome, V12!Run, V12!Crash, V12!Error,
           V12!SettableRegister, V12!Voltages, Usage, ScanAccess, ScanSet, Simple, Outcome, Run, Crash,
           Error, SettableRegister, Voltages
  <2>3. \/ c = V12!Usage
        \/ c = V12!ScanAccess(argv)
        \/ argv[1] = "-s" /\ c = V12!ScanSet(argv)
        \/ c = V12!Outcome("acquire")
        \/ argv[1] \in DOMAIN V12!Simple /\ c = V12!Outcome(V12!Simple[argv[1]])
    BY DEF V12!parse_param, V12!parse_access, V12!parse_set, V12!parse_file
  <2> HIDE DEF c
  <2> QED BY <1>2, <2>1, <2>2, <2>3, Scanned
<1>3. CASE release = "v1_3"
  <2> DEFINE c == V13!parse_param(argv)
  <2>1. parse_param(argv) = c
    BY <1>3 DEF parse_param
  <2>2. /\ V13!Usage = Usage /\ V13!ScanAccess(argv) = ScanAccess(argv)
        /\ V13!ScanSet(argv) = ScanSet(argv) /\ V13!Simple = Simple
        /\ \A w : V13!Outcome(w) = Outcome(w)
    BY DEF V13!Usage, V13!ScanAccess, V13!ScanSet, V13!Simple, V13!Outcome, V13!Run, V13!Crash, V13!Error,
           V13!SettableRegister, V13!Voltages, Usage, ScanAccess, ScanSet, Simple, Outcome, Run, Crash,
           Error, SettableRegister, Voltages
  <2>3. \/ c = V13!Usage
        \/ c = V13!ScanAccess(argv)
        \/ argv[1] = "-s" /\ c = V13!ScanSet(argv)
        \/ c = V13!Outcome("acquire")
        \/ argv[1] \in DOMAIN V13!Simple /\ c = V13!Outcome(V13!Simple[argv[1]])
    BY DEF V13!parse_param, V13!parse_access, V13!parse_set, V13!parse_file
  <2> HIDE DEF c
  <2> QED BY <1>3, <2>1, <2>2, <2>3, Scanned
<1>4. CASE release = "v1_5"
  <2> DEFINE c == V15!parse_param(argv)
  <2>1. parse_param(argv) = c
    BY <1>4 DEF parse_param
  <2>2. /\ V15!Usage = Usage /\ V15!ScanAccess(argv) = ScanAccess(argv)
        /\ V15!ScanSet(argv) = ScanSet(argv) /\ V15!Simple = Simple
        /\ \A w : V15!Outcome(w) = Outcome(w)
    BY DEF V15!Usage, V15!ScanAccess, V15!ScanSet, V15!Simple, V15!Outcome, V15!Run, V15!Crash, V15!Error,
           V15!SettableRegister, V15!Voltages, Usage, ScanAccess, ScanSet, Simple, Outcome, Run, Crash,
           Error, SettableRegister, Voltages
  <2>3. \/ c = V15!Usage
        \/ c = V15!ScanAccess(argv)
        \/ argv[1] = "-s" /\ c = V15!ScanSet(argv)
        \/ argv[1] = "-m" /\ c = V15!parse_histogram(argv)
        \/ c = V15!Outcome("acquire")
        \/ argv[1] \in DOMAIN V15!Simple /\ c = V15!Outcome(V15!Simple[argv[1]])
    BY DEF V15!parse_param, V15!parse_access, V15!parse_set, V15!parse_file
  <2> HIDE DEF c
  <2> QED BY <1>4, <2>1, <2>2, <2>3, Scanned
<1> QED BY <1>1, <1>2, <1>3, <1>4, SessionAssumption

LEMMA Mains ==
    ASSUME release \in Releases, NEW c, Command(release, c)
    PROVE  main(c) = Main(release, c)
<1>1. c.what \in Whats /\ (c.what = "histogram" => release = "v1_5")
  BY DEF Command
<1>2. release \in {"v1_0", "v1_2", "v1_3", "v1_5"}
  BY SessionAssumption
<1> QED BY <1>1, <1>2, Main10, Main12, Main13, Main15 DEF main

-----------------------------------------------------------------------------
(* Programs: what is left of main()                                        *)

Plain == {"get", "set", "clear", "write", "hget", "hput", "poll", "irq", "show", "loop"}

\* the bits that do not stay set behind an invocation
Watched(r) == RunBits \cup IF r = "v1_5" THEN {"b5", "b6"} ELSE {}

Chain(r, s) == \A i \in 2 .. Len(s) : After(r, s[i - 1], s[i])

Program(r, s) ==
  /\ IsSeq(s)
  /\ s # << >> => s[Len(s)].op = "end"
  /\ Chain(r, s)
  /\ \A i \in 1 .. Len(s) :
       /\ s[i].op = "set" /\ s[i].arg \in Watched(r) =>
            \E j \in i + 1 .. Len(s) : Clears(s[j], s[i].arg)
       /\ s[i].op = "first" => s[i].arg = FirstArg(r) /\ \A j \in 1 .. i - 1 : s[j].op \in Opening
       /\ r = "v1_0" => s[i].op \notin {"alloc", "addr"}
       /\ s[i].op = "map" => s[i] = MapS(r)

LEMMA PlainSteps ==
    /\ \A r : \A x \in InitSteps(r) : x.op \in Plain \ {"loop"}
    /\ \A r, c : c.what \in Whats => \A x \in BodySteps(r, c) :
                    x.op \in Plain /\ (x.op = "loop" => c.what = "acquire")
<1>1. /\ GetS.op = "get" /\ LoopS.op = "loop"
      /\ \A b : /\ SetS(b).op = "set" /\ ClearS(b).op = "clear" /\ WriteS(b).op = "write"
                /\ IrqS(b).op = "irq" /\ HgetS(b).op = "hget" /\ PollS(b).op = "poll"
      /\ \A b, n : HputS(b, n).op = "hput"
  BY DEF GetS, LoopS, SetS, ClearS, WriteS, IrqS, HgetS, PollS, HputS
<1>2. \A r : \A x \in InitSteps(r) : x.op \in Plain \ {"loop"}
  BY <1>1, ZenonT(30) DEF InitSteps, Plain
<1>3. ASSUME NEW r, NEW c, c.what \in Whats
      PROVE  \A x \in BodySteps(r, c) : x.op \in Plain /\ (x.op = "loop" => c.what = "acquire")
  <2>1. CASE c.what = "init"
    BY <1>2, <2>1 DEF BodySteps
  <2>2. CASE c.what = "acquire"
    BY <1>1, <2>2 DEF BodySteps, AcquireSteps, Plain
  <2>3. CASE c.what = "histogram"
    BY <1>1, <2>3 DEF BodySteps, HistoSteps, Plain
  <2>4. CASE c.what = "pressure"
    BY <2>4 DEF BodySteps
  <2>5. CASE c.what \in Whats \ {"init", "acquire", "histogram", "pressure"}
    BY <2>5, OneStepOp DEF BodySteps, Plain
  <2> QED BY <2>1, <2>2, <2>3, <2>4, <2>5, <1>3
<1> QED BY <1>2, <1>3

LEMMA ProgramTail ==
    ASSUME NEW r, NEW s, Program(r, s), s # << >>, s[1].op # "end"
    PROVE  /\ Program(r, Tail(s)) /\ Tail(s) # << >>
           /\ Tail(s)[1] = s[2] /\ After(r, s[1], s[2])
<1> DEFINE t == Tail(s)
<1>1. /\ IsSeq(s) /\ IsSeq(t) /\ Len(s) \in Nat /\ Len(s) >= 1 /\ Len(t) = Len(s) - 1
      /\ \A i \in 1 .. Len(s) - 1 : t[i] = s[i + 1]
  BY TailParts, SeqParts DEF Program
<1>2. Len(s) > 1
  BY <1>1 DEF Program
<1> HIDE DEF t
<1>3. t # << >> /\ t[Len(t)].op = "end"
  <2>1. Len(t) \in 1 .. Len(s) - 1 /\ Len(t) + 1 = Len(s)
    BY <1>1, <1>2
  <2>2. t[Len(t)] = s[Len(s)]
    BY <1>1, <2>1
  <2> QED BY <1>1, <2>1, <2>2, SeqParts DEF Program
<1>4. Chain(r, t)
  <2> SUFFICES ASSUME NEW i \in 2 .. Len(t) PROVE After(r, t[i - 1], t[i])
    BY DEF Chain
  <2>1. i + 1 \in 2 .. Len(s) /\ (i + 1) - 1 = i /\ t[i] = s[i + 1] /\ t[i - 1] = s[i]
    BY <1>1
  <2>2. After(r, s[(i + 1) - 1], s[i + 1])
    BY <2>1 DEF Program, Chain
  <2> QED BY <2>1, <2>2
<1>5. ASSUME NEW i \in 1 .. Len(t)
      PROVE  /\ t[i].op = "set" /\ t[i].arg \in Watched(r) =>
                  \E j \in i + 1 .. Len(t) : Clears(t[j], t[i].arg)
             /\ t[i].op = "first" => t[i].arg = FirstArg(r) /\ \A j \in 1 .. i - 1 : t[j].op \in Opening
             /\ r = "v1_0" => t[i].op \notin {"alloc", "addr"}
             /\ t[i].op = "map" => t[i] = MapS(r)
  <2>1. i + 1 \in 1 .. Len(s) /\ t[i] = s[i + 1]
    BY <1>1
  <2>2. /\ s[i + 1].op = "set" /\ s[i + 1].arg \in Watched(r) =>
             \E j \in (i + 1) + 1 .. Len(s) : Clears(s[j], s[i + 1].arg)
        /\ s[i + 1].op = "first" =>
             s[i + 1].arg = FirstArg(r) /\ \A j \in 1 .. (i + 1) - 1 : s[j].op \in Opening
        /\ r = "v1_0" => s[i + 1].op \notin {"alloc", "addr"}
        /\ s[i + 1].op = "map" => s[i + 1] = MapS(r)
    BY <2>1 DEF Program
  <2>3. ASSUME NEW j \in (i + 1) + 1 .. Len(s)
        PROVE  j - 1 \in i + 1 .. Len(t) /\ t[j - 1] = s[j]
    BY <1>1
  <2>4. ASSUME NEW j \in 1 .. i - 1
        PROVE  j + 1 \in 1 .. (i + 1) - 1 /\ t[j] = s[j + 1]
    BY <1>1
  <2> QED BY <2>1, <2>2, <2>3, <2>4
<1>6. t[1] = s[2] /\ After(r, s[1], s[2])
  <2>1. 2 \in 2 .. Len(s) /\ 2 - 1 = 1 /\ 1 \in 1 .. Len(s) - 1
    BY <1>1, <1>2
  <2> QED BY <1>1, <2>1 DEF Program, Chain
<1> QED BY <1>1, <1>3, <1>4, <1>5, <1>6 DEF Program, t

LEMMA ChainCat ==
    ASSUME NEW r, NEW s, NEW t, IsSeq(s), IsSeq(t), Chain(r, s), Chain(r, t),
           s # << >>, t # << >>, After(r, s[Len(s)], t[1])
    PROVE  Chain(r, s \o t)
<1> DEFINE u == s \o t
<1>1. /\ Len(s) \in Nat /\ Len(t) \in Nat /\ Len(s) > 0 /\ Len(u) = Len(s) + Len(t)
      /\ \A i \in 1 .. Len(s) : u[i] = s[i]
      /\ \A i \in Len(s) + 1 .. Len(s) + Len(t) : u[i] = t[i - Len(s)]
  BY SeqParts, Cat
<1> HIDE DEF u
<1> SUFFICES ASSUME NEW i \in 2 .. Len(u) PROVE After(r, u[i - 1], u[i])
  BY DEF Chain, u
<1>2. CASE i \in 2 .. Len(s)
  BY <1>1, <1>2 DEF Chain
<1>3. CASE i = Len(s) + 1
  <2>1. u[i] = t[1] /\ u[i - 1] = s[Len(s)]
    BY <1>1, <1>3
  <2> QED BY <2>1
<1>4. CASE i \in Len(s) + 2 .. Len(u)
  <2> DEFINE k == i - Len(s)
  <2>1. k \in 2 .. Len(t) /\ (i - 1) - Len(s) = k - 1 /\ i - 1 \in Len(s) + 1 .. Len(s) + Len(t)
    BY <1>1, <1>4
  <2>2. u[i] = t[k]
    <3>1. i \in Len(s) + 1 .. Len(s) + Len(t)
      BY <1>1, <1>4
    <3> QED BY <1>1, <3>1
  <2>3. u[i - 1] = t[k - 1]
    <3>1. u[i - 1] = t[(i - 1) - Len(s)]
      BY <1>1, <2>1
    <3> QED BY <2>1, <3>1
  <2> QED BY <2>1, <2>2, <2>3 DEF Chain
<1> QED BY <1>1, <1>2, <1>3, <1>4

LEMMA BlockChain ==
    ASSUME NEW r, NEW X, NEW s, NEW B, NEW D, NEW S, Block(X, s, B, D, S),
           \A x \in X : x.op \in Plain
    PROVE  Chain(r, s) /\ IsSeq(s) /\ (\A i \in 1 .. Len(s) : s[i].op \in Plain)
           /\ (s # << >> => s[1].op \notin Second)
<1>1. s \in Seq(X) /\ Len(s) \in Nat /\ \A i \in 1 .. Len(s) : s[i] \in X
  BY DEF Block
<1>2. \A i \in 1 .. Len(s) : s[i].op \in Plain
  BY <1>1
<1>3. ASSUME NEW i \in 2 .. Len(s) PROVE After(r, s[i - 1], s[i])
  <2>1. i \in 1 .. Len(s) /\ i - 1 \in 1 .. Len(s)
    BY <1>1
  <2>2. CASE s[i].op \in Second
    BY <2>1, <2>2 DEF Block
  <2>3. CASE s[i].op \notin Second
    BY <1>2, <2>1, <2>3 DEF After, Plain, Second
  <2> QED BY <2>2, <2>3
<1>4. s # << >> => s[1].op \notin Second
  <2>1. s # << >> => 1 \in 1 .. Len(s) /\ ~(1 > 1)
    BY <1>1
  <2> QED BY <2>1 DEF Block
<1> QED BY <1>1, <1>2, <1>3, <1>4, Narrow DEF Chain

\* the first access puts the initial configuration in front
LEMMA ProgramExpand ==
    ASSUME NEW r, NEW s, Program(r, s), s # << >>, s[1].op = "first"
    PROVE  /\ Program(r, FirstArg(r) \o Tail(s)) /\ FirstArg(r) \o Tail(s) # << >>
           /\ (FirstArg(r) \o Tail(s))[1].op \in Plain \ Second
<1> DEFINE a == FirstArg(r)
           t == Tail(s)
           u == a \o t
<1>1. /\ Block(InitSteps(r), a, BitsOf(r), Cleared, BitsOf(r))
      /\ \E i \in 1 .. Len(a) : a[i] = IrqS(TRUE)
  BY FirstBlock
<1>2. Program(r, t) /\ t # << >> /\ t[1] = s[2] /\ After(r, s[1], s[2])
  BY ProgramTail
<1> HIDE DEF a, t
<1>3. /\ Chain(r, a) /\ IsSeq(a) /\ (\A i \in 1 .. Len(a) : a[i].op \in Plain)
      /\ (a # << >> => a[1].op \notin Second)
  BY <1>1, BlockChain, PlainSteps
<1>4. IsSeq(t) /\ Chain(r, t) /\ t[Len(t)].op = "end"
  BY <1>2 DEF Program
<1>5. Len(a) \in Nat /\ Len(t) \in Nat /\ Len(a) > 0 /\ Len(t) > 0 /\ a # << >>
  BY <1>1, <1>2, <1>3, <1>4, SeqParts
<1>6. After(r, a[Len(a)], t[1])
  <2>1. a[Len(a)].op \in Plain
    BY <1>3, <1>5
  <2> QED BY <1>2, <2>1 DEF After, Plain
<1>7. /\ IsSeq(u) /\ Len(u) = Len(a) + Len(t)
      /\ \A i \in 1 .. Len(a) : u[i] = a[i]
      /\ \A i \in Len(a) + 1 .. Len(a) + Len(t) : u[i] = t[i - Len(a)]
  BY <1>3, <1>4, Cat
<1>8. Chain(r, u)
  BY <1>2, <1>3, <1>4, <1>5, <1>6, ChainCat
<1> HIDE DEF u
<1>9. u # << >> /\ u[Len(u)].op = "end" /\ u[1].op \in Plain \ Second
  <2>1. Len(u) > 0 /\ u[Len(u)] = t[Len(t)] /\ u[1] = a[1] /\ 1 \in 1 .. Len(a)
    BY <1>5, <1>7
  <2> QED BY <1>3, <1>4, <1>5, <1>7, <2>1, SeqParts
<1>10. ASSUME NEW i \in 1 .. Len(u)
       PROVE  /\ u[i].op = "set" /\ u[i].arg \in Watched(r) =>
                   \E j \in i + 1 .. Len(u) : Clears(u[j], u[i].arg)
              /\ u[i].op = "first" => u[i].arg = FirstArg(r) /\ \A j \in 1 .. i - 1 : u[j].op \in Opening
              /\ r = "v1_0" => u[i].op \notin {"alloc", "addr"}
              /\ u[i].op = "map" => u[i] = MapS(r)
  <2>1. CASE i \in 1 .. Len(a)
    <3>1. u[i] = a[i] /\ a[i].op \in Plain
      BY <1>3, <1>7, <2>1
    <3>2. a[i].op = "set" => a[i].arg \in BitsOf(r)
      BY <1>1, <2>1 DEF Block
    <3>3. BitsOf(r) \cap Watched(r) = {}
      BY DEF BitsOf, Watched, RunBits
    <3> QED BY <3>1, <3>2, <3>3 DEF Plain
  <2>2. CASE i \in Len(a) + 1 .. Len(u)
    <3> DEFINE k == i - Len(a)
    <3>1. k \in 1 .. Len(t) /\ u[i] = t[k] /\ i = k + Len(a)
      BY <1>5, <1>7, <2>2
    <3>2. /\ t[k].op = "set" /\ t[k].arg \in Watched(r) =>
               \E j \in k + 1 .. Len(t) : Clears(t[j], t[k].arg)
          /\ r = "v1_0" => t[k].op \notin {"alloc", "addr"}
          /\ t[k].op = "map" => t[k] = MapS(r)
      BY <1>2, <3>1 DEF Program
    <3> HIDE DEF k
    <3>3. ASSUME NEW j \in k + 1 .. Len(t)
          PROVE  j + Len(a) \in i + 1 .. Len(u) /\ u[j + Len(a)] = t[j]
      <4>1. /\ j + Len(a) \in i + 1 .. Len(u) /\ j + Len(a) \in Len(a) + 1 .. Len(a) + Len(t)
            /\ (j + Len(a)) - Len(a) = j
        BY <1>5, <1>7, <3>1
      <4> QED BY <1>7, <4>1
    <3>4. t[k].op # "first"
      <4>1. k + 1 \in 2 .. Len(s) /\ s[k + 1] = t[k]
        BY <1>5, <3>1, TailParts, SeqParts DEF t, Program
      <4>2. s[k + 1].op = "first" => s[1].op \in Opening
        <5>1. k + 1 \in 1 .. Len(s) /\ 1 \in 1 .. (k + 1) - 1
          BY <1>5, <3>1, <4>1
        <5> QED BY <5>1 DEF Program
      <4> QED BY <4>1, <4>2 DEF Opening
    <3> QED BY <3>1, <3>2, <3>3, <3>4
  <2> QED BY <1>5, <1>7, <2>1, <2>2
<1> QED BY <1>7, <1>8, <1>9, <1>10 DEF Program, u, a, t

\* main() up to the first-access test and the signal handler
Preamble(r) == Opens(r) \o (<<FirstS(r)>> \o <<Simply("handler")>>)

LEMMA PreambleShape ==
    ASSUME NEW r
    PROVE  LET p == Preamble(r) IN
           /\ IsSeq(p) /\ p # << >> /\ Len(p) > 1 /\ Chain(r, p)
           /\ p[1] = MapS(r) /\ p[1].op = "map" /\ p[Len(p)].op = "handler" /\ p[Len(p) - 1] = FirstS(r)
           /\ \A i \in 1 .. Len(p) : /\ p[i].op \in Opening \cup {"first", "handler"}
                                     /\ p[i].op = "map" <=> i = 1
                                     /\ p[i].op = "first" <=> i = Len(p) - 1
                                     /\ p[i].op = "handler" <=> i = Len(p)
                                     /\ r = "v1_0" => p[i].op \notin {"alloc", "addr"}
<1> DEFINE m == MapS(r)
           a == Simply("alloc")
           d == AddrS
           f == FirstS(r)
           h == Simply("handler")
           p == Preamble(r)
<1>1. m.op = "map" /\ a.op = "alloc" /\ d.op = "addr" /\ f.op = "first" /\ h.op = "handler"
  BY DEF MapS, Simply, AddrS, FirstS
<1>2. p = IF r = "v1_0" THEN <<m>> \o (<<f>> \o <<h>>) ELSE (<<m>> \o <<a>> \o <<d>>) \o (<<f>> \o <<h>>)
  BY DEF Preamble, Opens
<1> HIDE DEF m, a, d, f, h, p
<1> DEFINE fh == <<f>> \o <<h>>
<1>3. IsSeq(fh) /\ Len(fh) = 2 /\ fh[1] = f /\ fh[2] = h
  BY One, Cat
<1> HIDE DEF fh
<1>4. CASE r = "v1_0"
  <2>1. IsSeq(p) /\ Len(p) = 3 /\ p[1] = m /\ p[2] = f /\ p[3] = h
    <3> DEFINE mm == <<m>>
    <3>1. p = mm \o fh
      BY <1>2, <1>4 DEF fh
    <3>2. IsSeq(mm) /\ Len(mm) = 1 /\ mm[1] = m
      BY One
    <3> HIDE DEF mm
    <3>3. /\ IsSeq(mm \o fh) /\ Len(mm \o fh) = Len(mm) + Len(fh)
          /\ \A i \in 1 .. Len(mm) : (mm \o fh)[i] = mm[i]
          /\ \A i \in Len(mm) + 1 .. Len(mm) + Len(fh) : (mm \o fh)[i] = fh[i - Len(mm)]
      BY <1>3, <3>2, Cat, Zenon
    <3> QED BY <1>3, <3>1, <3>2, <3>3
  <2>2. 1 .. 3 = {1, 2, 3} /\ 2 .. 3 = {2, 3} /\ 3 - 1 = 2 /\ 2 - 1 = 1 /\ p # << >>
    BY <2>1, SeqParts
  <2>3. Chain(r, p)
    BY <1>1, <1>4, <2>1, <2>2 DEF Chain, After
  <2> QED BY <1>1, <2>1, <2>2, <2>3 DEF Opening, p, f, m
<1>5. CASE r # "v1_0"
  <2> DEFINE ma == <<m>> \o <<a>>
  <2>1. IsSeq(ma) /\ Len(ma) = 2 /\ ma[1] = m /\ ma[2] = a
    BY One, Cat
  <2> HIDE DEF ma
  <2> DEFINE mad == ma \o <<d>>
  <2>2. IsSeq(mad) /\ Len(mad) = 3 /\ mad[1] = m /\ mad[2] = a /\ mad[3] = d
    <3>1. IsSeq(<<d>>) /\ Len(<<d>>) = 1 /\ <<d>>[1] = d
      BY One
    <3>2. /\ IsSeq(ma \o <<d>>) /\ Len(ma \o <<d>>) = Len(ma) + Len(<<d>>)
          /\ \A i \in 1 .. Len(ma) : (ma \o <<d>>)[i] = ma[i]
          /\ \A i \in Len(ma) + 1 .. Len(ma) + Len(<<d>>) : (ma \o <<d>>)[i] = <<d>>[i - Len(ma)]
      BY <2>1, <3>1, Cat, Zenon
    <3> QED BY <2>1, <3>1, <3>2
  <2> HIDE DEF mad
  <2>3. IsSeq(p) /\ Len(p) = 5 /\ p[1] = m /\ p[2] = a /\ p[3] = d /\ p[4] = f /\ p[5] = h
    <3>1. p = mad \o fh
      BY <1>2, <1>5 DEF fh, mad, ma
    <3>2. /\ IsSeq(mad \o fh) /\ Len(mad \o fh) = Len(mad) + Len(fh)
          /\ \A i \in 1 .. Len(mad) : (mad \o fh)[i] = mad[i]
          /\ \A i \in Len(mad) + 1 .. Len(mad) + Len(fh) : (mad \o fh)[i] = fh[i - Len(mad)]
      BY <1>3, <2>2, Cat, Zenon
    <3> QED BY <1>3, <2>2, <3>1, <3>2
  <2>4. /\ 1 .. 5 = {1, 2, 3, 4, 5} /\ 2 .. 5 = {2, 3, 4, 5} /\ p # << >>
        /\ 5 - 1 = 4 /\ 4 - 1 = 3 /\ 3 - 1 = 2 /\ 2 - 1 = 1
    BY <2>3, SeqParts
  <2>5. Chain(r, p)
    BY <1>1, <1>5, <2>3, <2>4 DEF Chain, After
  <2> QED BY <1>1, <1>5, <2>3, <2>4, <2>5 DEF Opening, p, f, m
<1> QED BY <1>4, <1>5

\* the rest of main()
Rest(r, c) == Body(r, c) \o <<Simply("end")>>

LEMMA RestShape ==
    ASSUME NEW r, NEW c, c.what \in Whats
    PROVE  LET b == Body(r, c)
               e == Rest(r, c)
           IN  /\ IsSeq(e) /\ e # << >> /\ Len(b) \in Nat /\ Len(e) = Len(b) + 1 /\ Chain(r, e)
               /\ \A i \in 1 .. Len(b) : e[i] = b[i] /\ b[i].op \in Plain /\ b[i] \in BodySteps(r, c)
               /\ e[Len(e)] = Simply("end") /\ e[Len(e)].op = "end"
               /\ e[1].op \notin Second \cup Opening \cup {"first"}
<1> DEFINE b == Body(r, c)
           n == Simply("end")
           e == b \o <<n>>
<1>1. n.op = "end"
  BY DEF Simply
<1>2. Block(BodySteps(r, c), b, LastingBits(r, c), ClearedBits(c), SetBits(r, c))
  BY BodyBlock
<1>3. /\ Chain(r, b) /\ IsSeq(b) /\ (\A i \in 1 .. Len(b) : b[i].op \in Plain)
      /\ b # << >> => b[1].op \notin Second
  BY <1>2, BlockChain, PlainSteps
<1>4. \A i \in 1 .. Len(b) : b[i] \in BodySteps(r, c)
  BY <1>2 DEF Block
<1> HIDE DEF b, n
<1>5. Len(b) \in Nat /\ IsSeq(<<n>>) /\ Len(<<n>>) = 1 /\ <<n>>[1] = n /\ <<n>> # << >>
  BY <1>3, One, SeqParts
<1>6. /\ IsSeq(e) /\ Len(e) = Len(b) + 1 /\ e[Len(e)] = n
      /\ \A i \in 1 .. Len(b) : e[i] = b[i]
  BY <1>3, <1>5, Cat
<1>7. e # << >>
  BY <1>5, <1>6, SeqParts
<1>8. CASE b = << >>
  <2>1. Len(e) = 1 /\ e[1] = n
    BY <1>3, <1>6, <1>8, SeqParts
  <2>2. Chain(r, e)
    BY <2>1 DEF Chain
  <2> QED BY <1>1, <1>3, <1>4, <1>5, <1>6, <1>7, <2>1, <2>2 DEF Rest, b, n, Second, Opening
<1>9. CASE b # << >>
  <2>1. Len(b) > 0 /\ e[1] = b[1] /\ b[1].op \in Plain /\ b[Len(b)].op \in Plain
    BY <1>3, <1>5, <1>6, <1>9, SeqParts
  <2>2. After(r, b[Len(b)], <<n>>[1])
    BY <1>1, <1>5, <2>1 DEF After, Plain
  <2>3. Chain(r, <<n>>)
    BY <1>5 DEF Chain
  <2>4. Chain(r, e)
    BY <1>3, <1>5, <1>9, <2>2, <2>3, ChainCat
  <2> QED BY <1>1, <1>3, <1>4, <1>5, <1>6, <1>7, <1>9, <2>1, <2>4 DEF Rest, b, n, Plain, Second, Opening
<1> QED BY <1>8, <1>9

LEMMA MainParts ==
    ASSUME NEW r, NEW c, c.what \in Whats
    PROVE  Main(r, c) = Preamble(r) \o Rest(r, c)
<1> DEFINE p == Preamble(r)
           b == Body(r, c)
           n == <<Simply("end")>>
           X == {p[i] : i \in DOMAIN p} \cup {b[i] : i \in DOMAIN b} \cup {n[i] : i \in DOMAIN n}
<1>1. IsSeq(p)
  BY PreambleShape
<1>2. IsSeq(b)
  BY BodyBlock, BlockChain, PlainSteps
<1>3. IsSeq(n)
  BY One
<1>4. p \in Seq(X)
  BY <1>1, Widen, SeqParts
<1>5. b \in Seq(X)
  BY <1>2, Widen, SeqParts
<1>6. n \in Seq(X)
  BY <1>3, Widen, SeqParts
<1> HIDE DEF X
<1>7. (p \o b) \o n = p \o (b \o n)
  BY <1>4, <1>5, <1>6, Assoc
<1> QED BY <1>7 DEF Main, Preamble, Rest

\* main() as a whole, by its two parts
LEMMA MainAt ==
    ASSUME NEW r, NEW c, c.what \in Whats
    PROVE  LET p == Preamble(r)
               b == Body(r, c)
               e == Rest(r, c)
               m == Main(r, c)
           IN  /\ IsSeq(m) /\ m # << >> /\ Len(p) \in Nat /\ Len(e) \in Nat /\ Len(m) = Len(p) + Len(e)
               /\ \A i \in 1 .. Len(p) : m[i] = p[i]
               /\ \A i \in Len(p) + 1 .. Len(m) : i - Len(p) \in 1 .. Len(e) /\ m[i] = e[i - Len(p)]
               /\ \A i \in 1 .. Len(e) : i + Len(p) \in Len(p) + 1 .. Len(m) /\ m[i + Len(p)] = e[i]
               /\ Chain(r, m)
<1> DEFINE p == Preamble(r)
           e == Rest(r, c)
           m == Main(r, c)
<1>1. /\ IsSeq(p) /\ p # << >> /\ Len(p) > 1 /\ Chain(r, p) /\ p[Len(p)].op = "handler"
  BY PreambleShape
<1>2. /\ IsSeq(e) /\ e # << >> /\ Chain(r, e) /\ e[Len(e)].op = "end"
      /\ e[1].op \notin Second \cup Opening \cup {"first"}
  BY RestShape
<1>3. m = p \o e
  BY MainParts
<1> HIDE DEF p, e, m
<1>4. Len(p) \in Nat /\ Len(e) \in Nat
  BY <1>1, <1>2, SeqParts
<1>5. After(r, p[Len(p)], e[1])
  BY <1>1, <1>2 DEF After, Second, Opening
<1>6. Chain(r, m)
  BY <1>1, <1>2, <1>3, <1>5, ChainCat
<1>7. /\ IsSeq(m) /\ Len(m) = Len(p) + Len(e)
      /\ \A i \in 1 .. Len(p) : m[i] = p[i]
      /\ \A i \in Len(p) + 1 .. Len(p) + Len(e) : m[i] = e[i - Len(p)]
  BY <1>1, <1>2, <1>3, Cat
<1>8. m # << >>
  BY <1>1, <1>4, <1>7, SeqParts
<1>9. \A i \in Len(p) + 1 .. Len(m) : i - Len(p) \in 1 .. Len(e)
  BY <1>4, <1>7
<1>10. \A i \in 1 .. Len(e) : i + Len(p) \in Len(p) + 1 .. Len(m) /\ (i + Len(p)) - Len(p) = i
  BY <1>4, <1>7
<1>11. \A i \in 1 .. Len(e) : i + Len(p) \in Len(p) + 1 .. Len(m) /\ m[i + Len(p)] = e[i]
  BY <1>7, <1>10
<1> QED BY <1>4, <1>6, <1>7, <1>8, <1>9, <1>11 DEF p, e, m

LEMMA MainProgram ==
    ASSUME NEW r, NEW c, c.what \in Whats, c.what = "histogram" => r = "v1_5"
    PROVE  /\ Program(r, Main(r, c)) /\ Main(r, c) # << >> /\ Main(r, c)[1].op = "map"
           /\ \A b \in ClearedBits(c) : \E i \in 1 .. Len(Main(r, c)) : Clears(Main(r, c)[i], b)
<1> DEFINE p == Preamble(r)
           b == Body(r, c)
           e == Rest(r, c)
           m == Main(r, c)
<1>1. /\ IsSeq(m) /\ m # << >> /\ Len(p) \in Nat /\ Len(e) \in Nat /\ Len(m) = Len(p) + Len(e)
      /\ \A i \in 1 .. Len(p) : m[i] = p[i]
      /\ \A i \in Len(p) + 1 .. Len(m) : i - Len(p) \in 1 .. Len(e) /\ m[i] = e[i - Len(p)]
      /\ \A i \in 1 .. Len(e) : i + Len(p) \in Len(p) + 1 .. Len(m) /\ m[i + Len(p)] = e[i]
      /\ Chain(r, m)
  BY MainAt
<1>2. /\ Len(p) > 1 /\ p[1] = MapS(r) /\ p[1].op = "map" /\ p[Len(p) - 1] = FirstS(r)
      /\ \A i \in 1 .. Len(p) : /\ p[i].op \in Opening \cup {"first", "handler"}
                                /\ p[i].op = "map" <=> i = 1
                                /\ p[i].op = "first" <=> i = Len(p) - 1
                                /\ p[i].op = "handler" <=> i = Len(p)
                                /\ r = "v1_0" => p[i].op \notin {"alloc", "addr"}
  BY PreambleShape
<1>3. /\ e # << >> /\ Len(b) \in Nat /\ Len(e) = Len(b) + 1 /\ e[Len(e)].op = "end"
      /\ \A i \in 1 .. Len(b) : e[i] = b[i] /\ b[i].op \in Plain
  BY RestShape
<1>4. Block(BodySteps(r, c), b, LastingBits(r, c), ClearedBits(c), SetBits(r, c))
  BY BodyBlock
<1>5. LastingBits(r, c) \cap Watched(r) = {}
  BY DEF LastingBits, BitsOf, Watched, RunBits
<1> HIDE DEF p, b, e, m
<1>6. m[Len(m)].op = "end" /\ m[1].op = "map"
  <2>1. /\ Len(e) \in 1 .. Len(e) /\ Len(e) + Len(p) = Len(m) /\ 1 \in 1 .. Len(p)
    BY <1>1, <1>2, <1>3
  <2> QED BY <1>1, <1>2, <1>3, <2>1
<1>7. ASSUME NEW i \in 1 .. Len(m)
      PROVE  /\ m[i].op = "set" /\ m[i].arg \in Watched(r) =>
                  \E j \in i + 1 .. Len(m) : Clears(m[j], m[i].arg)
             /\ m[i].op = "first" => m[i].arg = FirstArg(r) /\ \A j \in 1 .. i - 1 : m[j].op \in Opening
             /\ r = "v1_0" => m[i].op \notin {"alloc", "addr"}
             /\ m[i].op = "map" => m[i] = MapS(r)
  <2>1. CASE i \in 1 .. Len(p)
    <3>1. m[i] = p[i] /\ p[i].op # "set"
      BY <1>1, <1>2, <2>1 DEF Opening
    <3>2. ASSUME p[i].op = "first"
          PROVE  p[i].arg = FirstArg(r) /\ \A j \in 1 .. i - 1 : m[j].op \in Opening
      <4>1. i = Len(p) - 1 /\ p[i] = FirstS(r)
        BY <1>2, <2>1, <3>2
      <4>2. \A j \in 1 .. i - 1 : j \in 1 .. Len(p) /\ j # Len(p) /\ j # Len(p) - 1
        BY <1>1, <4>1
      <4>3. p[i].arg = FirstArg(r)
        BY <4>1 DEF FirstS
      <4>4. \A j \in 1 .. i - 1 : p[j].op \in Opening /\ m[j] = p[j]
        BY <1>1, <1>2, <4>2
      <4> QED BY <4>3, <4>4
    <3> QED BY <1>2, <2>1, <3>1, <3>2
  <2>2. CASE i \in Len(p) + 1 .. Len(m)
    <3> DEFINE k == i - Len(p)
    <3>1. k \in 1 .. Len(e) /\ m[i] = e[k] /\ i = k + Len(p)
      BY <1>1, <2>2
    <3> HIDE DEF k
    <3>2. CASE k = Len(e)
      BY <1>3, <3>1, <3>2
    <3>3. CASE k \in 1 .. Len(b)
      <4>1. m[i] = b[k] /\ b[k].op \in Plain
        BY <1>3, <3>1, <3>3
      <4>2. ASSUME b[k].op = "set", b[k].arg \in Watched(r)
            PROVE  \E j \in i + 1 .. Len(m) : Clears(m[j], m[i].arg)
        <5>1. PICK j \in k + 1 .. Len(b) : Clears(b[j], b[k].arg)
          BY <1>4, <1>5, <3>3, <4>2 DEF Block
        <5>2. j \in 1 .. Len(e) /\ j \in 1 .. Len(b) /\ j + Len(p) \in i + 1 .. Len(m)
          BY <1>1, <1>3, <3>1, <3>3
        <5>3. m[j + Len(p)] = b[j]
          BY <1>1, <1>3, <5>2
        <5> QED BY <4>1, <5>1, <5>2, <5>3
      <4> QED BY <4>1, <4>2 DEF Plain
    <3> QED BY <1>1, <1>3, <3>1, <3>2, <3>3
  <2> QED BY <1>1, <2>1, <2>2
<1>8. ASSUME NEW x \in ClearedBits(c)
      PROVE  \E i \in 1 .. Len(m) : Clears(m[i], x)
  <2>1. PICK i \in 1 .. Len(b) : Clears(b[i], x)
    BY <1>4 DEF Block
  <2>2. i \in 1 .. Len(e) /\ i + Len(p) \in 1 .. Len(m)
    BY <1>1, <1>3
  <2> QED BY <1>1, <1>3, <2>1, <2>2
<1> QED BY <1>1, <1>6, <1>7, <1>8 DEF Program, m

-----------------------------------------------------------------------------
(* The invariant                                                           *)

Head1(p) == todo[p][1]

TypeInv ==
  /\ release \in Releases
  /\ todo = [p \in Procs |-> todo[p]] /\ cmd = [p \in Procs |-> cmd[p]]
  /\ dev = [p \in Procs |-> dev[p]] /\ map = [p \in Procs |-> map[p]]
  /\ got = [p \in Procs |-> got[p]] /\ alone \in [Procs -> BOOLEAN]

\* Every process has the rest of a program to do, of a command it may have been given;
\* one that has met no other is the only one.
ProgInv ==
  \A p \in Procs :
    /\ Program(release, todo[p])
    /\ todo[p] # << >> => Command(release, cmd[p])
    /\ alone[p] => todo[p] # << >> /\ \A q \in Procs : todo[q] # << >> => q = p

\* Who is alone writes back what is in the register, and its buffer, the driver's and
\* the writer's agree as far as it has come.
LinkInv ==
  /\ release = "v1_0" => wraddr = Fixed /\ \A p \in Procs : map[p] \in {None, Fixed}
  /\ \A p \in Procs : alone[p] =>
       /\ Head1(p).op \in {"set", "clear"} => got[p] = cfg
       /\ release # "v1_0" =>
            /\ Head1(p).op = "alloc" => map[p] = None
            /\ Head1(p).op \notin {"map", "alloc"} => map[p] = buf
            /\ Head1(p).op \notin Opening => wraddr = Address(p)

\* A bit that is set and not left over is cleared by a step to come, and before the
\* first access there is none; in an acquisition and an initialisation this holds for
\* the left-over ones too.
BitInv ==
  /\ Running = {} => Watched(release) \cap cfg \subseteq left
  /\ \A p \in Procs : alone[p] =>
       /\ Head1(p).op \in Opening => Watched(release) \cap cfg \subseteq left
       /\ \A b \in (Watched(release) \cap cfg) \ left :
            \E i \in 1 .. Len(todo[p]) : Clears(todo[p][i], b)
       /\ cmd[p].what \in {"acquire", "init"} =>
            \A b \in RunBits \cap cfg : \E i \in 1 .. Len(todo[p]) : Clears(todo[p][i], b)

IInv == TypeInv /\ ProgInv /\ LinkInv /\ BitInv

-----------------------------------------------------------------------------
(* Steps of a program                                                      *)

LEMMA Moved ==
    ASSUME TypeInv, ProgInv, NEW p \in Procs, NEW op, op # "end", At(p, op), Goes(p),
           UNCHANGED <<release, cmd, alone>>
    PROVE  /\ todo' = [q \in Procs |-> todo'[q]] /\ ProgInv'
           /\ todo[p] # << >> /\ Head1(p).op = op /\ Head(todo[p]) = Head1(p)
           /\ todo'[p] = Tail(todo[p]) /\ todo'[p] # << >>
           /\ todo'[p][1] = todo[p][2] /\ After(release, todo[p][1], todo[p][2])
           /\ \A q \in Procs \ {p} : todo'[q] = todo[q]
           /\ \A q \in Procs : alone'[q] => q = p
<1>1. todo[p] # << >> /\ Head(todo[p]).op = op /\ IsSeq(todo[p]) /\ Program(release, todo[p])
  BY DEF At, ProgInv, Program
<1>2. Head(todo[p]) = todo[p][1]
  BY <1>1, TailParts
<1>3. /\ Program(release, Tail(todo[p])) /\ Tail(todo[p]) # << >>
      /\ Tail(todo[p])[1] = todo[p][2] /\ After(release, todo[p][1], todo[p][2])
  BY <1>1, <1>2, ProgramTail
<1>4. /\ todo' = [q \in Procs |-> todo'[q]] /\ todo'[p] = Tail(todo[p])
      /\ \A q \in Procs \ {p} : todo'[q] = todo[q]
  BY DEF TypeInv, Goes
<1>5. ProgInv'
  <2> SUFFICES ASSUME NEW q \in Procs
               PROVE  /\ Program(release, todo'[q])
                      /\ todo'[q] # << >> => Command(release, cmd[q])
                      /\ alone[q] => todo'[q] # << >> /\ \A o \in Procs : todo'[o] # << >> => o = q
    BY DEF ProgInv
  <2>1. \A o \in Procs : todo'[o] # << >> => todo[o] # << >>
    BY <1>1, <1>4
  <2> QED BY <1>1, <1>3, <1>4, <2>1 DEF ProgInv
<1>6. \A q \in Procs : alone'[q] => q = p
  BY <1>1 DEF ProgInv
<1> QED BY <1>1, <1>2, <1>3, <1>4, <1>5, <1>6 DEF Head1

\* the clears to come, after a step
LEMMA StillClears ==
    ASSUME NEW s, IsSeq(s), s # << >>, NEW b, \E i \in 1 .. Len(s) : Clears(s[i], b), ~Clears(s[1], b)
    PROVE  \E i \in 1 .. Len(Tail(s)) : Clears(Tail(s)[i], b)
<1>1. PICK i \in 1 .. Len(s) : Clears(s[i], b)
  OBVIOUS
<1>2. /\ Len(s) \in Nat /\ Len(Tail(s)) = Len(s) - 1
      /\ \A j \in 1 .. Len(s) - 1 : Tail(s)[j] = s[j + 1]
  BY TailParts, SeqParts
<1>3. i # 1
  BY <1>1
<1>4. i - 1 \in 1 .. Len(s) - 1 /\ (i - 1) + 1 = i
  BY <1>2, <1>3
<1> QED BY <1>1, <1>2, <1>4

LEMMA CalmBits ==
    ASSUME IInv, NEW p \in Procs, NEW op, op \notin {"end", "set", "clear"},
           At(p, op), Goes(p), UNCHANGED <<release, cfg, cmd, left, alone>>
    PROVE  BitInv'
<1> USE DEF IInv
<1> DEFINE x == todo[p][1]
           y == todo[p][2]
<1>1. /\ todo[p] # << >> /\ x.op = op
      /\ todo'[p] = Tail(todo[p]) /\ todo'[p] # << >>
      /\ todo'[p][1] = y /\ After(release, x, y)
      /\ \A q \in Procs : alone'[q] => q = p
  BY Moved DEF Head1
<1> HIDE DEF x, y
<1>2. y.op \in Opening => x.op \in Opening
  BY <1>1 DEF After, Opening
<1>3. Running' # {}
  BY <1>1 DEF Running
<1>4. \A b : ~Clears(x, b)
  BY <1>1 DEF Clears
<1>5. IsSeq(todo[p])
  BY DEF ProgInv, Program
<1>6. \A b : (\E i \in 1 .. Len(todo[p]) : Clears(todo[p][i], b)) =>
               \E i \in 1 .. Len(todo'[p]) : Clears(todo'[p][i], b)
  BY <1>1, <1>4, <1>5, StillClears DEF x
<1> QED BY <1>1, <1>2, <1>3, <1>6 DEF BitInv, Head1, x

\* a step that touches neither the bits nor the buffer
LEMMA QuietStep ==
    ASSUME IInv, NEW p \in Procs, NEW op \in {"write", "hget", "hput", "poll", "irq", "show", "loop", "handler"},
           At(p, op), Goes(p), UNCHANGED <<release, cfg, wraddr, buf, cmd, dev, map, left, alone>>,
           got' = [q \in Procs |-> got'[q]]
    PROVE  IInv'
<1> USE DEF IInv
<1> DEFINE x == todo[p][1]
           y == todo[p][2]
<1>1. /\ todo' = [q \in Procs |-> todo'[q]] /\ ProgInv'
      /\ todo[p] # << >> /\ x.op = op
      /\ todo'[p] = Tail(todo[p]) /\ todo'[p] # << >>
      /\ todo'[p][1] = y /\ After(release, x, y)
      /\ \A q \in Procs : alone'[q] => q = p
  BY Moved DEF Head1
<1>2. TypeInv'
  BY <1>1 DEF TypeInv
<1> HIDE DEF x, y
<1>3. y.op \notin {"set", "clear"} /\ y.op \notin Opening
  BY <1>1 DEF After, Opening
<1>4. LinkInv'
  <2>1. release = "v1_0" => wraddr = Fixed /\ \A q \in Procs : map[q] \in {None, Fixed}
    BY DEF LinkInv
  <2>2. ASSUME alone[p], release # "v1_0" PROVE map[p] = buf /\ wraddr = Address(p)
    BY <1>1, <2>2 DEF LinkInv, Head1, Opening, x
  <2>3. Address(p)' = Address(p)
    BY DEF Address
  <2> QED BY <1>1, <1>3, <2>1, <2>2, <2>3 DEF LinkInv, Head1, Opening
<1>5. BitInv'
  BY CalmBits
<1> QED BY <1>1, <1>2, <1>4, <1>5

LEMMA MapStep ==
    ASSUME IInv, NEW p \in Procs, MapDevices(p)
    PROVE  IInv'
<1> USE DEF IInv
<1> DEFINE x == todo[p][1]
           y == todo[p][2]
<1>1. /\ todo' = [q \in Procs |-> todo'[q]] /\ ProgInv'
      /\ todo[p] # << >> /\ x.op = "map" /\ Head(todo[p]) = x
      /\ todo'[p][1] = y /\ After(release, x, y)
      /\ \A q \in Procs : alone'[q] => q = p
  BY Moved DEF Head1, MapDevices, history
<1>2. TypeInv'
  BY <1>1 DEF TypeInv, MapDevices, history
<1>3. BitInv'
  BY CalmBits DEF MapDevices, history, board
<1>4. x = MapS(release)
  <2>1. 1 \in 1 .. Len(todo[p])
    BY <1>1, SeqParts DEF ProgInv, Program
  <2> QED BY <1>1, <2>1 DEF ProgInv, Program
<1> HIDE DEF x, y
<1>5. y.op \notin {"set", "clear"} /\ (release # "v1_0" => y.op = "alloc")
  BY <1>1 DEF After
<1>6. /\ map'[p] \in {None, Fixed} /\ (release # "v1_0" => map'[p] = None)
      /\ \A q \in Procs \ {p} : map'[q] = map[q]
  <2>1. Arg(p) = MapS(release).arg
    BY <1>1, <1>4 DEF Arg
  <2>2. release # "v1_0" => "buffer" \notin Arg(p)
    BY <2>1 DEF MapS
  <2>3. dev'[p] = Arg(p) \/ \E d \in Arg(p) : dev'[p] = Arg(p) \ {d}
    BY DEF MapDevices, TypeInv
  <2>4. release # "v1_0" => "buffer" \notin dev'[p]
    BY <2>2, <2>3
  <2> QED BY <2>4 DEF MapDevices, TypeInv
<1>7. release' = release /\ wraddr' = wraddr /\ alone' = alone
  BY DEF MapDevices, board, history
<1>8. LinkInv'
  BY <1>1, <1>5, <1>6, <1>7 DEF LinkInv, Head1, Opening
<1> QED BY <1>1, <1>2, <1>3, <1>8

LEMMA AllocStep ==
    ASSUME IInv, NEW p \in Procs, (\E a \in Addrs : cma_ioctl(p, a)) \/ cma_ioctl_fails(p)
    PROVE  IInv'
<1> USE DEF IInv
<1> DEFINE x == todo[p][1]
           y == todo[p][2]
<1>1. /\ At(p, "alloc") /\ Goes(p) /\ UNCHANGED <<release, cfg, wraddr, cmd, got, left, alone>>
      /\ dev' = [q \in Procs |-> dev'[q]] /\ map' = [q \in Procs |-> map'[q]]
      /\ \A q \in Procs \ {p} : map'[q] = map[q]
      /\ map'[p] = buf' \/ (buf' = None /\ map' = map)
  BY DEF TypeInv, cma_ioctl, cma_ioctl_fails, board, history
<1>2. /\ todo' = [q \in Procs |-> todo'[q]] /\ ProgInv'
      /\ todo[p] # << >> /\ x.op = "alloc"
      /\ todo'[p][1] = y /\ After(release, x, y)
      /\ \A q \in Procs : alone'[q] => q = p
  BY <1>1, Moved DEF Head1
<1>3. TypeInv'
  BY <1>1, <1>2 DEF TypeInv
<1>4. BitInv'
  BY <1>1, CalmBits
<1>5. release # "v1_0"
  <2>1. 1 \in 1 .. Len(todo[p])
    BY <1>2, SeqParts DEF ProgInv, Program
  <2> QED BY <1>2, <2>1 DEF ProgInv, Program
<1>6. alone[p] => map'[p] = buf'
  BY <1>1, <1>2, <1>5 DEF LinkInv, Head1
<1> HIDE DEF x, y
<1>7. y.op = "addr"
  BY <1>2 DEF After
<1>8. LinkInv'
  BY <1>1, <1>2, <1>5, <1>6, <1>7 DEF LinkInv, Head1, Opening
<1> QED BY <1>2, <1>3, <1>4, <1>8

LEMMA AddressStep ==
    ASSUME IInv, NEW p \in Procs, WriteAddress(p)
    PROVE  IInv'
<1> USE DEF IInv
<1> DEFINE x == todo[p][1]
           y == todo[p][2]
<1>1. /\ At(p, "addr") /\ Goes(p) /\ wraddr' = Address(p)
      /\ UNCHANGED <<release, cfg, buf, map, cmd, dev, got, left, alone>>
  BY DEF WriteAddress, history
<1>2. /\ todo' = [q \in Procs |-> todo'[q]] /\ ProgInv'
      /\ todo[p] # << >> /\ x.op = "addr"
      /\ todo'[p][1] = y /\ After(release, x, y)
      /\ \A q \in Procs : alone'[q] => q = p
  BY <1>1, Moved DEF Head1
<1>3. TypeInv'
  BY <1>1, <1>2 DEF TypeInv
<1>4. BitInv'
  BY <1>1, CalmBits
<1>5. release # "v1_0"
  <2>1. 1 \in 1 .. Len(todo[p])
    BY <1>2, SeqParts DEF ProgInv, Program
  <2> QED BY <1>2, <2>1 DEF ProgInv, Program
<1>6. alone[p] => map[p] = buf
  BY <1>2, <1>5 DEF LinkInv, Head1
<1> HIDE DEF x, y
<1>7. y.op \notin Opening /\ y.op \notin {"set", "clear"}
  BY <1>2 DEF After, Opening
<1>8. Address(p)' = Address(p)
  BY <1>1 DEF Address
<1>9. LinkInv'
  BY <1>1, <1>2, <1>5, <1>6, <1>7, <1>8 DEF LinkInv, Head1, Opening
<1> QED BY <1>2, <1>3, <1>4, <1>9

LEMMA ReadStep ==
    ASSUME IInv, NEW p \in Procs, ReadGral(p)
    PROVE  IInv'
<1> USE DEF IInv
<1> DEFINE x == todo[p][1]
           y == todo[p][2]
<1>1. /\ At(p, "get") /\ Goes(p)
      /\ got' = [q \in Procs |-> got'[q]] /\ got'[p] = cfg
      /\ UNCHANGED <<release, cfg, wraddr, buf, map, cmd, dev, left, alone>>
  BY DEF ReadGral, history, board, TypeInv
<1>2. /\ todo' = [q \in Procs |-> todo'[q]] /\ ProgInv'
      /\ todo[p] # << >> /\ x.op = "get"
      /\ todo'[p][1] = y /\ After(release, x, y)
      /\ \A q \in Procs : alone'[q] => q = p
  BY <1>1, Moved DEF Head1
<1>3. TypeInv'
  BY <1>1, <1>2 DEF TypeInv
<1>4. BitInv'
  BY <1>1, CalmBits
<1>5. release # "v1_0" /\ alone[p] => map[p] = buf /\ wraddr = Address(p)
  BY <1>2 DEF LinkInv, Head1, Opening
<1> HIDE DEF x, y
<1>6. y.op \notin Opening
  BY <1>2 DEF After, Opening
<1>7. Address(p)' = Address(p)
  BY <1>1 DEF Address
<1>8. LinkInv'
  BY <1>1, <1>2, <1>5, <1>6, <1>7 DEF LinkInv, Head1, Opening
<1> QED BY <1>2, <1>3, <1>4, <1>8

\* the test for the first access: nothing, or the initial configuration, comes before
\* the rest of the program
LEMMA FirstRest ==
    ASSUME NEW r, NEW s, Program(r, s), s # << >>, s[1].op = "first", NEW a \in {FirstArg(r), << >>}
    PROVE  /\ Program(r, a \o Tail(s)) /\ a \o Tail(s) # << >>
           /\ (a \o Tail(s))[1].op \notin {"set", "clear"} \cup Opening
           /\ \A b : (\E i \in 1 .. Len(s) : Clears(s[i], b)) =>
                       \E i \in 1 .. Len(a \o Tail(s)) : Clears((a \o Tail(s))[i], b)
<1> DEFINE t == Tail(s)
           u == a \o t
<1>1. IsSeq(s) /\ IsSeq(t)
  BY TailParts DEF Program
<1>2. \A b : ~Clears(s[1], b)
  BY DEF Clears
<1>3. ASSUME NEW b, \E i \in 1 .. Len(s) : Clears(s[i], b)
      PROVE  \E i \in 1 .. Len(t) : Clears(t[i], b)
  BY <1>1, <1>2, <1>3, StillClears
<1>4. CASE a = << >>
  <2>1. t \in Seq({t[i] : i \in DOMAIN t})
    BY <1>1 DEF IsSeq
  <2>2. u = t
    BY <1>4, <2>1
  <2>3. Program(r, t) /\ t # << >> /\ t[1] = s[2] /\ After(r, s[1], s[2])
    BY ProgramTail
  <2>4. t[1].op \notin {"set", "clear"} \cup Opening
    BY <2>3 DEF After, Opening
  <2> QED BY <1>3, <2>2, <2>3, <2>4
<1>5. CASE a = FirstArg(r)
  <2>1. Program(r, u) /\ u # << >> /\ u[1].op \in Plain \ Second
    BY <1>5, ProgramExpand
  <2>2. u[1].op \notin {"set", "clear"} \cup Opening
    BY <2>1 DEF Plain, Second, Opening
  <2>3. IsSeq(a)
    BY <1>5, FirstBlock, Narrow DEF Block
  <2>4. /\ Len(a) \in Nat /\ Len(t) \in Nat /\ Len(u) = Len(a) + Len(t)
        /\ \A i \in Len(a) + 1 .. Len(a) + Len(t) : u[i] = t[i - Len(a)]
    BY <1>1, <2>3, SeqParts, Cat
  <2> HIDE DEF t, u
  <2>5. ASSUME NEW i \in 1 .. Len(t)
        PROVE  i + Len(a) \in 1 .. Len(u) /\ u[i + Len(a)] = t[i]
    <3>1. /\ i + Len(a) \in 1 .. Len(u) /\ i + Len(a) \in Len(a) + 1 .. Len(a) + Len(t)
          /\ (i + Len(a)) - Len(a) = i
      BY <2>4
    <3> QED BY <2>4, <3>1
  <2>6. \A b : (\E i \in 1 .. Len(s) : Clears(s[i], b)) => \E i \in 1 .. Len(u) : Clears(u[i], b)
    BY <1>3, <2>5
  <2> QED BY <2>1, <2>2, <2>6 DEF t, u
<1> QED BY <1>4, <1>5

LEMMA FirstStep ==
    ASSUME IInv, NEW p \in Procs, FirstAccess(p)
    PROVE  IInv'
<1> USE DEF IInv
<1> DEFINE s == todo[p]
           a == IF First THEN Arg(p) ELSE << >>
           u == a \o Tail(s)
<1>1. /\ At(p, "first") /\ todo' = [todo EXCEPT ![p] = u]
      /\ UNCHANGED <<release, cfg, wraddr, buf, map, cmd, dev, got, left, alone>>
  BY DEF FirstAccess, history, board
<1>2. s # << >> /\ Head(s).op = "first" /\ IsSeq(s) /\ Program(release, s)
  BY <1>1 DEF At, ProgInv, Program
<1>3. Head(s) = s[1] /\ 1 \in 1 .. Len(s)
  BY <1>2, TailParts, SeqParts
<1>4. Arg(p) = FirstArg(release)
  BY <1>2, <1>3 DEF Arg, Program
<1>5. a \in {FirstArg(release), << >>}
  BY <1>4
<1> HIDE DEF a
<1>6. /\ Program(release, u) /\ u # << >> /\ u[1].op \notin {"set", "clear"} \cup Opening
      /\ \A b : (\E i \in 1 .. Len(s) : Clears(s[i], b)) => \E i \in 1 .. Len(u) : Clears(u[i], b)
  BY <1>2, <1>3, <1>5, FirstRest
<1> HIDE DEF u
<1>7. /\ todo' = [q \in Procs |-> todo'[q]] /\ todo'[p] = u
      /\ \A q \in Procs \ {p} : todo'[q] = todo[q]
  BY <1>1 DEF TypeInv
<1>8. TypeInv'
  BY <1>1, <1>7 DEF TypeInv
<1>9. ProgInv'
  <2> SUFFICES ASSUME NEW q \in Procs
               PROVE  /\ Program(release, todo'[q])
                      /\ todo'[q] # << >> => Command(release, cmd[q])
                      /\ alone[q] => todo'[q] # << >> /\ \A o \in Procs : todo'[o] # << >> => o = q
    BY <1>1 DEF ProgInv
  <2>1. \A o \in Procs : todo'[o] # << >> => todo[o] # << >>
    BY <1>2, <1>7
  <2> QED BY <1>2, <1>6, <1>7, <2>1 DEF ProgInv
<1>10. \A q \in Procs : alone'[q] => q = p
  BY <1>1, <1>2 DEF ProgInv
<1>11. LinkInv'
  <2>1. release # "v1_0" /\ alone[p] => map[p] = buf /\ wraddr = Address(p)
    BY <1>2, <1>3 DEF LinkInv, Head1, Opening
  <2>2. Address(p)' = Address(p)
    BY <1>1 DEF Address
  <2> QED BY <1>1, <1>6, <1>7, <1>10, <2>1, <2>2 DEF LinkInv, Head1, Opening
<1>12. BitInv'
  <2>1. Running' # {}
    BY <1>6, <1>7 DEF Running
  <2>2. Head1(p)'.op \notin Opening
    BY <1>6, <1>7 DEF Head1
  <2>3. ASSUME alone[p]
        PROVE  /\ \A b \in (Watched(release) \cap cfg) \ left : \E i \in 1 .. Len(u) : Clears(u[i], b)
               /\ cmd[p].what \in {"acquire", "init"} =>
                    \A b \in RunBits \cap cfg : \E i \in 1 .. Len(u) : Clears(u[i], b)
    BY <1>6, <2>3 DEF BitInv
  <2> QED BY <1>1, <1>7, <1>10, <2>1, <2>2, <2>3 DEF BitInv
<1> QED BY <1>8, <1>9, <1>11, <1>12

\* a bit that is set by who is alone has a clear to come, one that is cleared needs none
LEMMA WriteStep ==
    ASSUME IInv, NEW p \in Procs, WriteGral(p)
    PROVE  IInv'
<1> USE DEF IInv
<1> DEFINE x == todo[p][1]
           y == todo[p][2]
           t == Tail(todo[p])
<1>1. /\ Goes(p) /\ got' = [q \in Procs |-> got'[q]]
      /\ UNCHANGED <<release, wraddr, buf, map, cmd, dev, alone>>
      /\ \/ At(p, "set") /\ cfg' = got[p] \cup {Arg(p)} /\ left' = left
         \/ At(p, "clear") /\ cfg' = got[p] \ {Arg(p)} /\ left' = left \ {Arg(p)}
  BY DEF WriteGral, TypeInv
<1>2. /\ todo' = [q \in Procs |-> todo'[q]] /\ ProgInv'
      /\ todo[p] # << >> /\ x.op \in {"set", "clear"} /\ Head(todo[p]) = x
      /\ todo'[p] = t /\ todo'[p] # << >>
      /\ todo'[p][1] = y /\ After(release, x, y)
      /\ \A q \in Procs : alone'[q] => q = p
  <2>1. CASE At(p, "set")
    BY <1>1, <2>1, Moved DEF Head1
  <2>2. CASE At(p, "clear")
    BY <1>1, <2>2, Moved DEF Head1
  <2> QED BY <1>1, <2>1, <2>2
<1>3. TypeInv'
  BY <1>1, <1>2 DEF TypeInv
<1>4. Program(release, todo[p]) /\ IsSeq(todo[p]) /\ Arg(p) = x.arg
  BY <1>2 DEF ProgInv, Program, Arg
<1>5. /\ Len(todo[p]) \in Nat /\ Len(todo[p]) >= 1 /\ Len(t) = Len(todo[p]) - 1
      /\ \A i \in 1 .. Len(todo[p]) - 1 : t[i] = todo[p][i + 1]
  BY <1>2, <1>4, TailParts, SeqParts
<1>6. x.op = "set" /\ x.arg \in Watched(release) => \E i \in 1 .. Len(t) : Clears(t[i], x.arg)
  <2> SUFFICES ASSUME x.op = "set", x.arg \in Watched(release)
               PROVE  \E i \in 1 .. Len(t) : Clears(t[i], x.arg)
    OBVIOUS
  <2>1. 1 \in 1 .. Len(todo[p])
    BY <1>5
  <2>2. PICK j \in 1 + 1 .. Len(todo[p]) : Clears(todo[p][j], x.arg)
    BY <1>4, <2>1 DEF Program
  <2>3. j - 1 \in 1 .. Len(todo[p]) - 1 /\ (j - 1) + 1 = j
    BY <1>5
  <2> QED BY <1>5, <2>2, <2>3
<1>7. \A b : (\E i \in 1 .. Len(todo[p]) : Clears(todo[p][i], b)) /\ ~Clears(x, b) =>
               \E i \in 1 .. Len(t) : Clears(t[i], b)
  BY <1>2, <1>4, StillClears
<1>8. alone[p] => got[p] = cfg
  BY <1>2 DEF LinkInv, Head1
<1>9. release # "v1_0" /\ alone[p] => map[p] = buf /\ wraddr = Address(p)
  BY <1>2 DEF LinkInv, Head1, Opening
<1>10. At(p, "set") => x.op = "set"
  BY <1>2 DEF At
<1>11. At(p, "clear") => x.op = "clear"
  BY <1>2 DEF At
<1> HIDE DEF x, y, t
<1>12. y.op \notin Opening /\ y.op \notin {"set", "clear"}
  BY <1>2 DEF After, Opening
<1>13. Address(p)' = Address(p)
  BY <1>1 DEF Address
<1>14. LinkInv'
  BY <1>1, <1>2, <1>9, <1>12, <1>13 DEF LinkInv, Head1, Opening
<1>15. BitInv'
  <2>1. Running' # {}
    BY <1>2 DEF Running
  <2>2. ASSUME alone[p], NEW b \in cfg', b \in Watched(release),
               b \notin left' \/ (cmd[p].what \in {"acquire", "init"} /\ b \in RunBits)
        PROVE  \E i \in 1 .. Len(t) : Clears(t[i], b)
    <3>1. CASE b = x.arg /\ x.op = "set"
      BY <1>6, <2>2, <3>1
    <3>2. CASE ~(b = x.arg /\ x.op = "set")
      <4>1. b \in cfg /\ ~Clears(x, b)
        BY <1>1, <1>4, <1>8, <1>10, <1>11, <2>2, <3>2 DEF Clears
      <4>2. b \notin left' => b \notin left
        BY <1>1, <1>4, <1>10, <1>11, <3>2, <1>8, <2>2
      <4>3. \E i \in 1 .. Len(todo[p]) : Clears(todo[p][i], b)
        BY <2>2, <4>1, <4>2 DEF BitInv
      <4> QED BY <1>7, <4>1, <4>3
    <3> QED BY <3>1, <3>2
  <2>3. RunBits \subseteq Watched(release)
    BY DEF Watched
  <2> QED BY <1>1, <1>2, <1>12, <2>1, <2>2, <2>3 DEF BitInv, Head1
<1> QED BY <1>2, <1>3, <1>14, <1>15

\* the steps that touch neither the bits nor the buffer
LEMMA QuietSteps ==
    ASSUME IInv, NEW p \in Procs,
           WriteRegs(p) \/ ReadLimit(p) \/ WriteLimit(p) \/ Poll(p) \/ EnableInterrupt(p) \/ Silent(p)
    PROVE  IInv'
<1>1. /\ Goes(p) /\ UNCHANGED <<release, cfg, wraddr, buf, cmd, dev, map, left, alone>>
      /\ got' = [q \in Procs |-> got'[q]]
  BY DEF WriteRegs, ReadLimit, WriteLimit, Poll, EnableInterrupt, Silent, board, history, IInv, TypeInv
<1>2. PICK op \in {"write", "hget", "hput", "poll", "irq", "show", "loop", "handler"} : At(p, op)
  BY DEF WriteRegs, ReadLimit, WriteLimit, Poll, EnableInterrupt, Silent
<1> QED BY <1>1, <1>2, QuietStep

-----------------------------------------------------------------------------
(* The start and the end of an invocation                                  *)

\* after the last step nothing is to come
LEMMA LastStep ==
    ASSUME NEW r, NEW s, Program(r, s), s # << >>, s[1].op = "end"
    PROVE  Len(s) = 1
<1>1. Len(s) \in Nat /\ Len(s) >= 1
  BY TailParts, SeqParts DEF Program
<1> SUFFICES ASSUME Len(s) # 1 PROVE FALSE
  OBVIOUS
<1>2. 2 \in 2 .. Len(s) /\ 2 - 1 = 1
  BY <1>1, SMTT(30)
<1>3. After(r, s[1], s[2])
  BY <1>2 DEF Program, Chain
<1> QED BY <1>3 DEF After

\* the empty program
LEMMA NoProgram ==
    ASSUME NEW r
    PROVE  Program(r, << >>)
<1>1. << >> \in Seq({}) /\ Len(<< >>) = 0
  OBVIOUS
<1>2. IsSeq(<< >>)
  BY <1>1, Narrow
<1> QED BY <1>1, <1>2 DEF Program, Chain

\* a process that ends leaves no one alone, and what is on is left over
LEMMA GoneStep ==
    ASSUME IInv, NEW p \in Procs, todo[p] # << >>, Gone(p), UNCHANGED <<release, cfg, wraddr>>,
           Watched(release) \cap cfg \subseteq left'
    PROVE  IInv'
<1> USE DEF IInv
<1>1. /\ todo' = [todo EXCEPT ![p] = << >>] /\ map' = [map EXCEPT ![p] = None]
      /\ alone' = [alone EXCEPT ![p] = FALSE] /\ cmd' = [cmd EXCEPT ![p] = Outcome("none")]
      /\ dev' = [dev EXCEPT ![p] = {}] /\ got' = [got EXCEPT ![p] = {}]
  BY DEF Gone
<1>2. TypeInv'
  BY <1>1 DEF TypeInv
<1>3. \A q \in Procs : ~alone'[q]
  BY <1>1 DEF TypeInv, ProgInv
<1>4. /\ todo'[p] = << >>
      /\ \A q \in Procs \ {p} : todo'[q] = todo[q] /\ cmd'[q] = cmd[q] /\ map'[q] = map[q]
      /\ map'[p] = None
  BY <1>1 DEF TypeInv
<1>5. ProgInv'
  BY <1>3, <1>4, NoProgram DEF ProgInv
<1>6. LinkInv'
  BY <1>3, <1>4 DEF LinkInv
<1>7. BitInv'
  BY <1>3 DEF BitInv
<1> QED BY <1>2, <1>5, <1>6, <1>7

LEMMA EndStep ==
    ASSUME IInv, NEW p \in Procs, Exit(p) \/ Kill(p) \/ Segv(p)
    PROVE  IInv'
<1> USE DEF IInv
<1>1. CASE Kill(p) \/ Segv(p)
  <2>1. todo[p] # << >> /\ Gone(p) /\ UNCHANGED <<release, cfg, wraddr>> /\ left' = left \cup cfg
    BY <1>1 DEF Kill, Segv, Dies, Running, board
  <2> QED BY <2>1, GoneStep
<1>2. CASE Exit(p)
  <2>1. /\ todo[p] # << >> /\ Head(todo[p]).op = "end" /\ Gone(p) /\ UNCHANGED <<release, cfg, wraddr>>
        /\ left' = IF alone[p] THEN left ELSE left \cup cfg
    BY <1>2 DEF Exit, At, board
  <2>2. Program(release, todo[p]) /\ todo[p][1].op = "end"
    BY <2>1, TailParts DEF ProgInv, Program
  <2>3. alone[p] => Watched(release) \cap cfg \subseteq left
    BY <2>1, <2>2, LastStep DEF BitInv, Clears
  <2>4. Watched(release) \cap cfg \subseteq left'
    BY <2>1, <2>3
  <2> QED BY <2>1, <2>4, GoneStep
<1> QED BY <1>1, <1>2

LEMMA StartStep ==
    ASSUME IInv, NEW p \in Procs, NEW argv \in Commands, Start(p, argv)
    PROVE  IInv'
<1> USE DEF IInv
<1> DEFINE c == parse_param(argv)
           m == Main(release, c)
<1>1. /\ todo[p] = << >>
      /\ UNCHANGED <<release, cfg, wraddr, buf, dev, map, got, left>>
  BY DEF Start, Running, board
<1>2. CASE c.what \in {"usage", "crash", "error"}
  <2>1. UNCHANGED <<cmd, todo, alone>>
    BY <1>2 DEF Start
  <2>2. Running' = Running /\ (\A q : Head1(q)' = Head1(q)) /\ \A q : Address(q)' = Address(q)
    BY <1>1, <2>1 DEF Running, Head1, Address
  <2>3. TypeInv' /\ ProgInv'
    BY <1>1, <2>1 DEF TypeInv, ProgInv
  <2>4. LinkInv'
    BY <1>1, <2>1, <2>2 DEF LinkInv
  <2>5. BitInv'
    BY <1>1, <2>1, <2>2 DEF BitInv
  <2> QED BY <2>3, <2>4, <2>5
<1>3. CASE c.what \notin {"usage", "crash", "error"}
  <2>1. Command(release, c)
    BY <1>3, Parsed DEF TypeInv
  <2>2. main(c) = m
    BY <2>1, Mains DEF TypeInv
  <2>3. /\ Program(release, m) /\ m # << >> /\ m[1].op = "map"
        /\ \A b \in ClearedBits(c) : \E i \in 1 .. Len(m) : Clears(m[i], b)
    BY <2>1, MainProgram DEF Command
  <2>4. /\ cmd' = [cmd EXCEPT ![p] = c] /\ todo' = [todo EXCEPT ![p] = m]
        /\ alone' = [q \in Procs |-> q = p /\ Running = {}]
    BY <1>3, <2>2 DEF Start
  <2> HIDE DEF c, m
  <2>5. /\ todo'[p] = m /\ cmd'[p] = c
        /\ \A q \in Procs \ {p} : todo'[q] = todo[q] /\ cmd'[q] = cmd[q]
        /\ \A q \in Procs : alone'[q] => q = p /\ Running = {}
    BY <2>4 DEF TypeInv
  <2>6. TypeInv'
    BY <1>1, <2>4 DEF TypeInv
  <2>7. ProgInv'
    <3>1. \A q \in Procs : Program(release, todo'[q]) /\ (todo'[q] # << >> => Command(release, cmd'[q]))
      BY <2>1, <2>3, <2>5 DEF ProgInv
    <3>2. \A q \in Procs : alone'[q] => todo'[q] # << >> /\ \A o \in Procs : todo'[o] # << >> => o = q
      BY <2>3, <2>5 DEF Running
    <3> QED BY <1>1, <3>1, <3>2 DEF ProgInv
  <2>8. LinkInv'
    BY <1>1, <2>3, <2>5 DEF LinkInv, Head1, Opening
  <2>9. BitInv'
    <3>1. Running' # {}
      BY <2>3, <2>5 DEF Running
    <3>2. Running = {} => Watched(release) \cap cfg \subseteq left
      BY DEF BitInv
    <3>3. c.what \in {"acquire", "init"} => RunBits \subseteq ClearedBits(c)
      BY DEF ClearedBits, RunBits, Cleared
    <3> QED BY <1>1, <2>3, <2>5, <3>1, <3>2, <3>3 DEF BitInv
  <2> QED BY <2>6, <2>7, <2>8, <2>9
<1> QED BY <1>2, <1>3

LEMMA InitIInv == Init => IInv
<1> SUFFICES ASSUME Init PROVE IInv
  OBVIOUS
<1> USE DEF Init
<1>1. TypeInv
  BY DEF TypeInv
<1>2. Running = {}
  BY DEF Running
<1>3. ProgInv
  BY NoProgram DEF ProgInv
<1>4. LinkInv
  BY DEF LinkInv
<1>5. BitInv
  BY DEF BitInv
<1> QED BY <1>1, <1>3, <1>4, <1>5 DEF IInv

LEMMA NextIInv == IInv /\ [Next]_vars => IInv'
<1> SUFFICES ASSUME IInv, [Next]_vars PROVE IInv'
  OBVIOUS
<1>1. CASE UNCHANGED vars
  <2>1. UNCHANGED <<release, cfg, wraddr, buf, cmd, todo, dev, map, got, left, alone>>
    BY <1>1 DEF vars, board, process, history
  <2> QED BY <2>1 DEF IInv, TypeInv, ProgInv, LinkInv, BitInv, Running, Head1, Address
<1>2. CASE Next
  <2>1. PICK p \in Procs : \/ \E argv \in Commands : Start(p, argv)
                           \/ Execute(p) \/ Kill(p) \/ Segv(p)
    BY <1>2 DEF Next
  <2>2. CASE \E argv \in Commands : Start(p, argv)
    BY <2>2, StartStep
  <2>3. CASE Kill(p) \/ Segv(p)
    BY <2>3, EndStep
  <2>4. CASE Execute(p)
    BY <2>4, MapStep, AllocStep, AddressStep, FirstStep, ReadStep, WriteStep, QuietSteps, EndStep DEF Execute
  <2> QED BY <2>1, <2>2, <2>3, <2>4
<1> QED BY <1>1, <1>2

-----------------------------------------------------------------------------
(* Theorems                                                                *)

\* Every reachable state satisfies the invariant: each process has the rest of some
\* release's main() to do, who is alone writes back what it has just read, and a bit that
\* is set has a clear to come or is recorded as left over.
THEOREM SessionInvariant == Spec => []IInv
BY InitIInv, NextIInv, PTL DEF Spec

\* While a program acquires alone, the buffer it maps is the one the writer writes,
\* whatever earlier invocations did and wherever they died: lago_v1_0 because the address
\* is built in, the others because they write the address of the buffer they have just
\* been given before anything else.
THEOREM ReaderFollowsWriter == Spec => []ReaderSeesWriter
<1>1. IInv => ReaderSeesWriter
  <2> SUFFICES ASSUME IInv, NEW p \in Procs, Acquiring(p), alone[p], map[p] # None
               PROVE  wraddr = map[p]
    BY DEF ReaderSeesWriter
  <2>1. Head1(p).op = "loop"
    BY TailParts DEF Acquiring, IInv, ProgInv, Program, Head1
  <2>2. CASE release = "v1_0"
    BY <2>2 DEF IInv, LinkInv
  <2>3. CASE release # "v1_0"
    <3>1. wraddr = Address(p)
      BY <2>1, <2>3 DEF IInv, LinkInv, Opening
    <3> QED BY <3>1 DEF Address
  <2> QED BY <2>2, <2>3
<1> QED BY <1>1, SessionInvariant, PTL

\* The writer is out of reset only while it writes into the buffer the driver owns, or at
\* an address that was wrong from the start (no memory), or after an invocation was killed
\* or met another.
THEOREM WriterStaysInBuffer == Spec => []WriterInLiveBuffer
<1>1. IInv => WriterInLiveBuffer
  <2> SUFFICES ASSUME IInv, "wr" \in cfg, "wr" \notin left, ~Overlap
               PROVE  wraddr \in {buf, Fixed, Stray}
    BY DEF WriterInLiveBuffer
  <2>1. "wr" \in Watched(release)
    BY DEF Watched, RunBits
  <2>2. PICK p \in Procs : todo[p] # << >>
    BY <2>1 DEF IInv, BitInv, Running
  <2>3. alone[p]
    BY <2>2 DEF Overlap, Running, IInv, TypeInv
  <2>4. Head1(p).op \notin Opening
    BY <2>1, <2>3 DEF IInv, BitInv
  <2>5. CASE release = "v1_0"
    BY <2>5 DEF IInv, LinkInv
  <2>6. CASE release # "v1_0"
    <3>1. map[p] = buf /\ wraddr = Address(p)
      BY <2>3, <2>4, <2>6 DEF IInv, LinkInv, Opening
    <3> QED BY <3>1 DEF Address
  <2> QED BY <2>5, <2>6
<1> QED BY <1>1, SessionInvariant, PTL

\* When no invocation is under way, no bit of the data path, nor in lago_v1_5 of the
\* histograms, is set that a killed or overlapping invocation did not leave behind.
THEOREM QuietAfterwards == Spec => []QuietBetween
<1>1. IInv => QuietBetween
  BY DEF IInv, BitInv, Watched, QuietBetween
<1> QED BY <1>1, SessionInvariant, PTL

\* An acquisition or an initialisation that runs alone and comes to its end leaves the
\* data path in reset, also where it found it running.
THEOREM DataPathRecovers == Spec => Recovers
<1>1. IInv /\ [Next]_vars =>
        [\A p \in Procs :
           Exit(p) /\ alone[p] /\ cmd[p].what \in {"acquire", "init"} => cfg \cap RunBits = {}]_vars
  <2> SUFFICES ASSUME IInv, NEW p \in Procs, Exit(p), alone[p], cmd[p].what \in {"acquire", "init"}
               PROVE  cfg \cap RunBits = {}
    OBVIOUS
  <2>1. todo[p] # << >> /\ Head(todo[p]).op = "end"
    BY DEF Exit, At
  <2>2. Program(release, todo[p]) /\ todo[p][1].op = "end"
    BY <2>1, TailParts DEF IInv, ProgInv, Program
  <2>3. \A b \in RunBits \cap cfg : \E i \in 1 .. Len(todo[p]) : Clears(todo[p][i], b)
    BY DEF IInv, BitInv
  <2> QED BY <2>1, <2>2, <2>3, LastStep DEF Clears
<1> QED BY <1>1, SessionInvariant, PTL DEF Spec, Recovers

-----------------------------------------------------------------------------
(* The clock source                                                        *)

Ahead(s) == {s[i] : i \in 1 .. Len(s)}

\* a bit of init_system() is cleared
Reclears(r, x) == x.op = "clear" /\ x.arg \in BitsOf(r)

\* What is left of main() for command c: fgps is never cleared, a bit of init_system()
\* only to be set again, and outside -i only before the first set; the read-out loop
\* comes after all of it.
Clock(r, c, s) ==
  \A i \in 1 .. Len(s) :
    /\ s[i].op = "clear" => s[i].arg # "fgps"
    /\ Reclears(r, s[i]) => \E j \in i + 1 .. Len(s) : Sets(s[j], s[i].arg)
    /\ s[i].op = "irq" => s[i].arg \in BOOLEAN
    /\ s[i].op = "loop" => \A j \in i .. Len(s) : /\ s[j].op = "set" => s[j].arg \notin BitsOf(r)
                                                  /\ s[j].op \notin {"irq", "first"}
    /\ s[i].op \in {"set", "first"} /\ c.what # "init" => \A j \in i .. Len(s) : ~Reclears(r, s[j])

\* The handler is still to be installed, and nothing is set before the test for the
\* first access or fgps.
Led(s) ==
  /\ \E x \in Ahead(s) : x.op = "handler"
  /\ \A i \in 1 .. Len(s) : s[i].op \in {"set", "handler"} =>
       \E j \in 1 .. i : s[j].op = "first" \/ Sets(s[j], "fgps")

\* For who is alone: the register is 0 and fgps the first bit that will be set, or it is
\* set; unless something was cut, what is missing of the initial configuration is to
\* come; outside -i it is not taken back once it has begun.
Solo(p) ==
  /\ "fgps" \in cfg \/ (cfg = {} /\ Led(todo[p]))
  /\ cut = {} => \/ cfg = {} /\ \E x \in Ahead(todo[p]) : x.op = "first"
                 \/ /\ \A b \in BitsOf(release) : b \in cfg \/ \E x \in Ahead(todo[p]) : Sets(x, b)
                    /\ ier \/ \E x \in Ahead(todo[p]) : x.op = "irq" /\ x.arg = TRUE
  /\ cmd[p].what # "init" /\ (\E x \in Ahead(todo[p]) : Reclears(release, x)) => cfg = {}

\* For who is not: the configuration was complete when they met, and nobody takes a bit
\* of it back.
Mixed(p) ==
  /\ BitsOf(release) \subseteq cfg /\ (cut = {} => ier) /\ cmd[p].what # "init"
  /\ \A x \in Ahead(todo[p]) : ~Reclears(release, x)
  /\ Head1(p).op \in {"set", "clear"} => BitsOf(release) \subseteq got[p]

ClockInv ==
  /\ ier \in BOOLEAN
  /\ \A p \in Procs : Clock(release, cmd[p], todo[p])
  /\ "met" \notin cut =>
       /\ Running = {} => /\ cfg = {} \/ "fgps" \in cfg
                          /\ cut = {} => cfg = {} \/ (BitsOf(release) \subseteq cfg /\ ier)
       /\ \A p \in Procs : alone[p] => Solo(p)
       /\ \A p \in Procs : todo[p] # << >> /\ ~alone[p] => Mixed(p)

LEMMA AheadTail ==
    ASSUME NEW s, IsSeq(s), s # << >>
    PROVE  /\ Ahead(Tail(s)) \subseteq Ahead(s) /\ s[1] \in Ahead(s)
           /\ Ahead(s) \subseteq {s[1]} \cup Ahead(Tail(s))
<1>1. /\ Len(s) \in Nat /\ Len(s) >= 1 /\ Len(Tail(s)) = Len(s) - 1
      /\ \A i \in 1 .. Len(s) - 1 : Tail(s)[i] = s[i + 1]
  BY TailParts, SeqParts
<1>2. ASSUME NEW i \in 1 .. Len(s) - 1 PROVE i + 1 \in 1 .. Len(s)
  BY <1>1
<1>3. ASSUME NEW i \in 1 .. Len(s), i # 1
      PROVE  i - 1 \in 1 .. Len(s) - 1 /\ (i - 1) + 1 = i
  BY <1>1, <1>3
<1>4. Ahead(Tail(s)) \subseteq Ahead(s)
  BY <1>1, <1>2 DEF Ahead
<1>5. Ahead(s) \subseteq {s[1]} \cup Ahead(Tail(s))
  <2> SUFFICES ASSUME NEW i \in 1 .. Len(s), i # 1 PROVE s[i] \in Ahead(Tail(s))
    BY DEF Ahead
  <2>1. i - 1 \in 1 .. Len(Tail(s)) /\ Tail(s)[i - 1] = s[i]
    BY <1>1, <1>3
  <2> QED BY <2>1 DEF Ahead
<1>6. s[1] \in Ahead(s)
  BY <1>1 DEF Ahead
<1> QED BY <1>4, <1>5, <1>6

LEMMA AheadCat ==
    ASSUME NEW s, NEW t, IsSeq(s), IsSeq(t)
    PROVE  Ahead(s \o t) = Ahead(s) \cup Ahead(t)
<1> DEFINE u == s \o t
<1>1. /\ Len(s) \in Nat /\ Len(t) \in Nat /\ Len(u) = Len(s) + Len(t)
      /\ \A i \in 1 .. Len(s) : u[i] = s[i]
      /\ \A i \in Len(s) + 1 .. Len(s) + Len(t) : u[i] = t[i - Len(s)]
  BY SeqParts, Cat
<1> HIDE DEF u
<1>2. ASSUME NEW i \in 1 .. Len(u) PROVE u[i] \in Ahead(s) \cup Ahead(t)
  <2>1. CASE i \in 1 .. Len(s)
    BY <1>1, <2>1 DEF Ahead
  <2>2. CASE i \in Len(s) + 1 .. Len(s) + Len(t)
    <3>1. i - Len(s) \in 1 .. Len(t)
      BY <1>1, <2>2
    <3> QED BY <1>1, <2>2, <3>1 DEF Ahead
  <2> QED BY <1>1, <2>1, <2>2
<1>3. ASSUME NEW i \in 1 .. Len(s) PROVE s[i] \in Ahead(u)
  <2>1. i \in 1 .. Len(u)
    BY <1>1
  <2> QED BY <1>1, <2>1 DEF Ahead
<1>4. ASSUME NEW i \in 1 .. Len(t) PROVE t[i] \in Ahead(u)
  <2>1. /\ i + Len(s) \in 1 .. Len(u) /\ i + Len(s) \in Len(s) + 1 .. Len(s) + Len(t)
        /\ (i + Len(s)) - Len(s) = i
    BY <1>1
  <2>2. u[i + Len(s)] = t[i]
    BY <1>1, <2>1
  <2> QED BY <2>1, <2>2 DEF Ahead
<1> QED BY <1>2, <1>3, <1>4 DEF Ahead, u

LEMMA ClockTail ==
    ASSUME NEW r, NEW c, NEW s, IsSeq(s), s # << >>, Clock(r, c, s)
    PROVE  Clock(r, c, Tail(s))
<1> DEFINE t == Tail(s)
<1>1. /\ Len(s) \in Nat /\ Len(s) >= 1 /\ Len(t) = Len(s) - 1
      /\ \A i \in 1 .. Len(s) - 1 : t[i] = s[i + 1]
  BY TailParts, SeqParts
<1> HIDE DEF t
<1> SUFFICES ASSUME NEW i \in 1 .. Len(t)
             PROVE  /\ t[i].op = "clear" => t[i].arg # "fgps"
                    /\ Reclears(r, t[i]) => \E j \in i + 1 .. Len(t) : Sets(t[j], t[i].arg)
                    /\ t[i].op = "irq" => t[i].arg \in BOOLEAN
                    /\ t[i].op = "loop" => \A j \in i .. Len(t) :
                                              /\ t[j].op = "set" => t[j].arg \notin BitsOf(r)
                                              /\ t[j].op \notin {"irq", "first"}
                    /\ t[i].op \in {"set", "first"} /\ c.what # "init" =>
                         \A j \in i .. Len(t) : ~Reclears(r, t[j])
  BY DEF Clock, t
<1>2. i + 1 \in 1 .. Len(s) /\ t[i] = s[i + 1]
  BY <1>1
<1>3. ASSUME NEW j \in (i + 1) + 1 .. Len(s)
      PROVE  j - 1 \in i + 1 .. Len(t) /\ t[j - 1] = s[j]
  BY <1>1
<1>4. ASSUME NEW j \in i .. Len(t)
      PROVE  j + 1 \in i + 1 .. Len(s) /\ t[j] = s[j + 1]
  BY <1>1
<1>5. /\ s[i + 1].op = "clear" => s[i + 1].arg # "fgps"
      /\ Reclears(r, s[i + 1]) => \E j \in (i + 1) + 1 .. Len(s) : Sets(s[j], s[i + 1].arg)
      /\ s[i + 1].op = "irq" => s[i + 1].arg \in BOOLEAN
      /\ s[i + 1].op = "loop" => \A j \in i + 1 .. Len(s) : /\ s[j].op = "set" => s[j].arg \notin BitsOf(r)
                                                            /\ s[j].op \notin {"irq", "first"}
      /\ s[i + 1].op \in {"set", "first"} /\ c.what # "init" =>
           \A j \in i + 1 .. Len(s) : ~Reclears(r, s[j])
  BY <1>2 DEF Clock
<1>6. Reclears(r, t[i]) => \E j \in i + 1 .. Len(t) : Sets(t[j], t[i].arg)
  BY <1>2, <1>3, <1>5
<1>7. t[i].op = "loop" => \A j \in i .. Len(t) : /\ t[j].op = "set" => t[j].arg \notin BitsOf(r)
                                                 /\ t[j].op \notin {"irq", "first"}
  BY <1>2, <1>4, <1>5
<1>8. t[i].op \in {"set", "first"} /\ c.what # "init" => \A j \in i .. Len(t) : ~Reclears(r, t[j])
  BY <1>2, <1>4, <1>5
<1> QED BY <1>2, <1>5, <1>6, <1>7, <1>8

\* the steps of init_system() at the first access
LEMMA FirstClock ==
    ASSUME NEW r
    PROVE  LET a == FirstArg(r) IN
           /\ IsSeq(a) /\ Len(a) \in Nat
           /\ \A b \in BitsOf(r) : \E i \in 1 .. Len(a) : Sets(a[i], b)
           /\ \A i \in 1 .. Len(a) :
                /\ a[i].op \in Plain \ {"loop"}
                /\ a[i].op = "clear" => a[i].arg # "fgps"
                /\ a[i].op = "irq" => a[i].arg = TRUE
                /\ a[i].op = "set" => /\ \A j \in i .. Len(a) : a[j].op # "clear"
                                      /\ \E j \in 1 .. i : Sets(a[j], "fgps")
                /\ Reclears(r, a[i]) => \E j \in i + 1 .. Len(a) : Sets(a[j], a[i].arg)
<1> DEFINE a == FirstArg(r)
<1>1. /\ Block(InitSteps(r), a, BitsOf(r), Cleared, BitsOf(r)) /\ Ordered(a)
  BY FirstBlock
<1> HIDE DEF a
<1>2. a \in Seq(InitSteps(r)) /\ Len(a) \in Nat /\ \A i \in 1 .. Len(a) : a[i] \in InitSteps(r)
  BY <1>1 DEF Block
<1>3. IsSeq(a)
  BY <1>2, Narrow
<1>4. \A b \in BitsOf(r) : \E i \in 1 .. Len(a) : Sets(a[i], b)
  BY <1>1 DEF Block
<1>5. /\ GetS.op = "get"
      /\ \A b : /\ SetS(b).op = "set" /\ ClearS(b).op = "clear" /\ ClearS(b).arg = b
                /\ WriteS(b).op = "write" /\ IrqS(b).op = "irq" /\ IrqS(b).arg = b
  BY DEF GetS, SetS, ClearS, WriteS, IrqS
<1>6. ASSUME NEW x \in InitSteps(r)
      PROVE  (x.op = "clear" => x.arg # "fgps") /\ (x.op = "irq" => x.arg = TRUE)
  BY <1>5 DEF InitSteps, Cleared
<1>7. ASSUME NEW i \in 1 .. Len(a), a[i].op = "set"
      PROVE  /\ \A j \in i .. Len(a) : a[j].op # "clear"
             /\ \E j \in 1 .. i : Sets(a[j], "fgps")
  <2>1. ASSUME NEW j \in i .. Len(a), a[j].op = "clear" PROVE FALSE
    <3>1. j \in 1 .. Len(a) /\ ~(j < i)
      BY <1>2
    <3> QED BY <1>1, <1>7, <2>1, <3>1 DEF Ordered
  <2> QED BY <1>1, <1>7, <2>1 DEF Ordered
<1>8. ASSUME NEW i \in 1 .. Len(a), Reclears(r, a[i])
      PROVE  \E j \in i + 1 .. Len(a) : Sets(a[j], a[i].arg)
  <2>1. PICK j \in 1 .. Len(a) : Sets(a[j], a[i].arg)
    BY <1>4, <1>8 DEF Reclears
  <2>2. i < j
    BY <1>1, <1>8, <2>1 DEF Ordered, Reclears, Sets
  <2>3. j \in i + 1 .. Len(a)
    BY <1>2, <2>2
  <2> QED BY <2>1, <2>3
<1>9. \A i \in 1 .. Len(a) : a[i].op \in Plain \ {"loop"}
  BY <1>2, PlainSteps
<1> QED BY <1>2, <1>3, <1>4, <1>6, <1>7, <1>8, <1>9 DEF a

LEMMA ClockExpand ==
    ASSUME NEW r, NEW c, NEW s, IsSeq(s), s # << >>, s[1].op = "first", Clock(r, c, s)
    PROVE  Clock(r, c, FirstArg(r) \o Tail(s))
<1> DEFINE a == FirstArg(r)
           t == Tail(s)
           u == a \o t
<1>1. /\ IsSeq(a) /\ Len(a) \in Nat
      /\ \A i \in 1 .. Len(a) :
           /\ a[i].op \in Plain \ {"loop"}
           /\ a[i].op = "clear" => a[i].arg # "fgps"
           /\ a[i].op = "irq" => a[i].arg = TRUE
           /\ a[i].op = "set" => \A j \in i .. Len(a) : a[j].op # "clear"
           /\ Reclears(r, a[i]) => \E j \in i + 1 .. Len(a) : Sets(a[j], a[i].arg)
  BY FirstClock
<1>2. /\ IsSeq(t) /\ Len(t) \in Nat /\ Len(s) \in Nat /\ Len(s) >= 1 /\ Len(t) = Len(s) - 1
      /\ \A i \in 1 .. Len(s) - 1 : t[i] = s[i + 1]
  BY TailParts, SeqParts
<1>3. Clock(r, c, t)
  BY ClockTail
<1>4. c.what # "init" => \A i \in 1 .. Len(t) : ~Reclears(r, t[i])
  <2>1. 1 \in 1 .. Len(s) /\ \A i \in 1 .. Len(t) : i + 1 \in 1 .. Len(s) /\ t[i] = s[i + 1]
    BY <1>2
  <2> QED BY <2>1 DEF Clock
<1> HIDE DEF a, t
<1>5. /\ Len(u) = Len(a) + Len(t)
      /\ \A i \in 1 .. Len(a) : u[i] = a[i]
      /\ \A i \in Len(a) + 1 .. Len(a) + Len(t) : u[i] = t[i - Len(a)]
  <2>1. IsSeq(a) /\ IsSeq(t)
    BY <1>1, <1>2
  <2> QED BY <2>1, Cat
<1> HIDE DEF u
<1> SUFFICES ASSUME NEW i \in 1 .. Len(u)
             PROVE  /\ u[i].op = "clear" => u[i].arg # "fgps"
                    /\ Reclears(r, u[i]) => \E j \in i + 1 .. Len(u) : Sets(u[j], u[i].arg)
                    /\ u[i].op = "irq" => u[i].arg \in BOOLEAN
                    /\ u[i].op = "loop" => \A j \in i .. Len(u) :
                                              /\ u[j].op = "set" => u[j].arg \notin BitsOf(r)
                                              /\ u[j].op \notin {"irq", "first"}
                    /\ u[i].op \in {"set", "first"} /\ c.what # "init" =>
                         \A j \in i .. Len(u) : ~Reclears(r, u[j])
  BY DEF Clock, u, a, t
<1>6. CASE i \in 1 .. Len(a)
  <2>1. /\ u[i] = a[i] /\ a[i].op \in Plain \ {"loop"}
        /\ a[i].op = "clear" => a[i].arg # "fgps"
        /\ a[i].op = "irq" => a[i].arg = TRUE
    BY <1>1, <1>5, <1>6
  <2>2. ASSUME Reclears(r, u[i])
        PROVE  \E j \in i + 1 .. Len(u) : Sets(u[j], u[i].arg)
    <3>1. PICK j \in i + 1 .. Len(a) : Sets(a[j], a[i].arg)
      BY <1>1, <1>6, <2>1, <2>2
    <3>2. j \in i + 1 .. Len(u) /\ j \in 1 .. Len(a)
      BY <1>1, <1>2, <1>5, <1>6
    <3> QED BY <1>5, <2>1, <3>1, <3>2
  <2>3. ASSUME u[i].op = "set", c.what # "init", NEW j \in i .. Len(u)
        PROVE  ~Reclears(r, u[j])
    <3>1. CASE j \in i .. Len(a)
      <4>1. j \in 1 .. Len(a)
        BY <1>1, <1>6, <3>1
      <4>2. a[j].op # "clear"
        BY <1>1, <1>6, <2>1, <2>3, <3>1
      <4> QED BY <1>5, <4>1, <4>2 DEF Reclears
    <3>2. CASE j \in Len(a) + 1 .. Len(a) + Len(t)
      <4>1. j - Len(a) \in 1 .. Len(t)
        BY <1>1, <1>2, <3>2
      <4> QED BY <1>4, <1>5, <2>3, <3>2, <4>1
    <3> QED BY <1>1, <1>2, <1>5, <2>3, <3>1, <3>2
  <2>4. u[i].op \notin {"loop", "first"}
    BY <2>1 DEF Plain
  <2> QED BY <2>1, <2>2, <2>3, <2>4
<1>7. CASE i \in Len(a) + 1 .. Len(a) + Len(t)
  <2> DEFINE k == i - Len(a)
  <2>1. k \in 1 .. Len(t) /\ u[i] = t[k] /\ i = k + Len(a)
    BY <1>1, <1>2, <1>5, <1>7
  <2> HIDE DEF k
  <2>2. ASSUME NEW j \in k + 1 .. Len(t)
        PROVE  j + Len(a) \in i + 1 .. Len(u) /\ u[j + Len(a)] = t[j]
    <3>1. /\ j + Len(a) \in i + 1 .. Len(u) /\ j + Len(a) \in Len(a) + 1 .. Len(a) + Len(t)
          /\ (j + Len(a)) - Len(a) = j
      BY <1>1, <1>2, <1>5, <2>1
    <3> QED BY <1>5, <3>1
  <2>3. ASSUME NEW j \in i .. Len(u)
        PROVE  j - Len(a) \in k .. Len(t) /\ u[j] = t[j - Len(a)]
    <3>1. j \in Len(a) + 1 .. Len(a) + Len(t) /\ j - Len(a) \in k .. Len(t)
      BY <1>1, <1>2, <1>5, <1>7, <2>1
    <3> QED BY <1>5, <3>1
  <2>4. /\ t[k].op = "clear" => t[k].arg # "fgps"
        /\ Reclears(r, t[k]) => \E j \in k + 1 .. Len(t) : Sets(t[j], t[k].arg)
        /\ t[k].op = "irq" => t[k].arg \in BOOLEAN
        /\ t[k].op = "loop" => \A j \in k .. Len(t) : /\ t[j].op = "set" => t[j].arg \notin BitsOf(r)
                                                      /\ t[j].op \notin {"irq", "first"}
        /\ t[k].op \in {"set", "first"} /\ c.what # "init" =>
             \A j \in k .. Len(t) : ~Reclears(r, t[j])
    BY <1>3, <2>1 DEF Clock
  <2>5. Reclears(r, u[i]) => \E j \in i + 1 .. Len(u) : Sets(u[j], u[i].arg)
    BY <2>1, <2>2, <2>4
  <2>6. u[i].op = "loop" => \A j \in i .. Len(u) : /\ u[j].op = "set" => u[j].arg \notin BitsOf(r)
                                                   /\ u[j].op \notin {"irq", "first"}
    BY <2>1, <2>3, <2>4
  <2>7. u[i].op \in {"set", "first"} /\ c.what # "init" => \A j \in i .. Len(u) : ~Reclears(r, u[j])
    BY <2>1, <2>3, <2>4
  <2> QED BY <2>1, <2>4, <2>5, <2>6, <2>7
<1> QED BY <1>1, <1>2, <1>5, <1>6, <1>7

LEMMA LedTail ==
    ASSUME NEW s, IsSeq(s), s # << >>, Led(s), s[1].op # "first", ~Sets(s[1], "fgps")
    PROVE  Led(Tail(s)) /\ s[1].op \notin {"set", "handler"}
<1> DEFINE t == Tail(s)
<1>1. /\ Len(s) \in Nat /\ Len(s) >= 1 /\ Len(t) = Len(s) - 1
      /\ \A i \in 1 .. Len(s) - 1 : t[i] = s[i + 1]
  BY TailParts, SeqParts
<1>2. s[1].op \notin {"set", "handler"}
  <2>1. 1 \in 1 .. Len(s) /\ \A j \in 1 .. 1 : j = 1
    BY <1>1
  <2> QED BY <2>1 DEF Led
<1>3. \E x \in Ahead(t) : x.op = "handler"
  BY <1>2, AheadTail DEF Led
<1> HIDE DEF t
<1>4. ASSUME NEW i \in 1 .. Len(t), t[i].op \in {"set", "handler"}
      PROVE  \E j \in 1 .. i : t[j].op = "first" \/ Sets(t[j], "fgps")
  <2>1. i + 1 \in 1 .. Len(s) /\ s[i + 1] = t[i]
    BY <1>1
  <2>2. PICK j \in 1 .. i + 1 : s[j].op = "first" \/ Sets(s[j], "fgps")
    BY <1>4, <2>1 DEF Led
  <2>3. j # 1
    BY <2>2
  <2>4. j - 1 \in 1 .. i /\ j - 1 \in 1 .. Len(s) - 1 /\ (j - 1) + 1 = j
    BY <1>1, <2>3
  <2> QED BY <1>1, <2>2, <2>4
<1> QED BY <1>2, <1>3, <1>4 DEF Led, t

LEMMA LedExpand ==
    ASSUME NEW r, NEW s, IsSeq(s), s # << >>, s[1].op = "first", Led(s)
    PROVE  Led(FirstArg(r) \o Tail(s))
<1> DEFINE a == FirstArg(r)
           t == Tail(s)
           u == a \o t
<1>1. /\ IsSeq(a) /\ Len(a) \in Nat
      /\ \A b \in BitsOf(r) : \E i \in 1 .. Len(a) : Sets(a[i], b)
      /\ \A i \in 1 .. Len(a) : /\ a[i].op \in Plain \ {"loop"}
                                /\ a[i].op = "set" => \E j \in 1 .. i : Sets(a[j], "fgps")
  BY FirstClock
<1>2. IsSeq(t) /\ Len(t) \in Nat
  BY TailParts, SeqParts
<1>3. \E x \in Ahead(t) : x.op = "handler"
  BY AheadTail DEF Led
<1>4. Ahead(u) = Ahead(a) \cup Ahead(t)
  BY <1>1, <1>2, AheadCat
<1>5. PICK f \in 1 .. Len(a) : Sets(a[f], "fgps")
  BY <1>1 DEF BitsOf
<1> HIDE DEF a, t
<1>6. /\ Len(u) = Len(a) + Len(t) /\ \A i \in 1 .. Len(a) : u[i] = a[i]
  BY <1>1, <1>2, Cat
<1> HIDE DEF u
<1>7. ASSUME NEW i \in 1 .. Len(u), u[i].op \in {"set", "handler"}
      PROVE  \E j \in 1 .. i : u[j].op = "first" \/ Sets(u[j], "fgps")
  <2>1. CASE i \in 1 .. Len(a)
    <3>1. a[i].op = "set"
      BY <1>1, <1>6, <1>7, <2>1 DEF Plain
    <3>2. PICK j \in 1 .. i : Sets(a[j], "fgps")
      BY <1>1, <2>1, <3>1
    <3>3. j \in 1 .. Len(a)
      BY <1>1, <2>1
    <3> QED BY <1>6, <3>2, <3>3
  <2>2. CASE i > Len(a)
    <3>1. f \in 1 .. i
      BY <1>1, <2>2
    <3> QED BY <1>5, <1>6, <3>1
  <2> QED BY <1>1, <1>6, <2>1, <2>2
<1> QED BY <1>3, <1>4, <1>7 DEF Led, u, a, t

\* the steps of an action
LEMMA BodyClock ==
    ASSUME NEW r, NEW c, c.what \in Whats, c.what = "histogram" => r = "v1_5"
    PROVE  LET b == Body(r, c) IN
           /\ c.what # "init" => ClearedBits(c) \cap BitsOf(r) = {}
           /\ c.what = "acquire" => SetBits(r, c) \cap BitsOf(r) = {}
           /\ \A x \in BodySteps(r, c) : /\ x.op = "irq" => x.arg \in BOOLEAN /\ c.what # "acquire"
                                         /\ x.op = "loop" => c.what = "acquire"
           /\ \A i \in 1 .. Len(b) : /\ b[i].op = "clear" => b[i].arg # "fgps"
                                     /\ Reclears(r, b[i]) => \E j \in i + 1 .. Len(b) : Sets(b[j], b[i].arg)
<1> DEFINE b == Body(r, c)
<1>1. Block(BodySteps(r, c), b, LastingBits(r, c), ClearedBits(c), SetBits(r, c))
  BY BodyBlock
<1>2. c.what # "init" => ClearedBits(c) \cap BitsOf(r) = {}
  BY DEF ClearedBits, BitsOf, RunBits, Cores
<1>3. c.what = "acquire" => SetBits(r, c) \cap BitsOf(r) = {}
  BY DEF SetBits, BitsOf, RunBits
<1>4. /\ GetS.op = "get" /\ LoopS.op = "loop"
      /\ \A x : /\ SetS(x).op = "set" /\ ClearS(x).op = "clear" /\ WriteS(x).op = "write"
                /\ IrqS(x).op = "irq" /\ IrqS(x).arg = x /\ HgetS(x).op = "hget" /\ PollS(x).op = "poll"
                /\ ShowS(x).op = "show"
      /\ \A x, n : HputS(x, n).op = "hput"
  BY DEF GetS, LoopS, SetS, ClearS, WriteS, IrqS, HgetS, PollS, HputS, ShowS
<1>5. ASSUME NEW x \in BodySteps(r, c)
      PROVE  x.op = "irq" => x.arg \in BOOLEAN /\ c.what # "acquire"
  <2>1. CASE c.what = "init"
    BY <1>4, <2>1, <1>5 DEF BodySteps, InitSteps
  <2>2. CASE c.what = "acquire"
    BY <1>4, <2>2, <1>5 DEF BodySteps, AcquireSteps
  <2>3. CASE c.what = "histogram"
    BY <1>4, <2>3, <1>5 DEF BodySteps, HistoSteps
  <2>4. CASE c.what = "pressure"
    BY <2>4, <1>5 DEF BodySteps
  <2>5. CASE c.what \in Whats \ {"init", "acquire", "histogram", "pressure"}
    <3>1. x = OneStep(r, c)
      BY <1>5, <2>5 DEF BodySteps
    <3>2. OneStep(r, c).op = "irq" => OneStep(r, c) = IrqS(c.val = 1)
      BY <1>4, <2>5 DEF OneStep, Whats
    <3>3. (c.val = 1) \in BOOLEAN
      OBVIOUS
    <3> QED BY <1>4, <2>5, <3>1, <3>2, <3>3
  <2> QED BY <2>1, <2>2, <2>3, <2>4, <2>5
<1>6. \A i \in 1 .. Len(b) : b[i].op = "clear" => b[i].arg \in ClearedBits(c)
  BY <1>1 DEF Block
<1>7. "fgps" \notin ClearedBits(c)
  BY DEF ClearedBits, Cleared, RunBits, Cores
<1>8. ASSUME NEW i \in 1 .. Len(b), Reclears(r, b[i])
      PROVE  \E j \in i + 1 .. Len(b) : Sets(b[j], b[i].arg)
  <2>1. c.what = "init"
    BY <1>2, <1>6, <1>8 DEF Reclears
  <2>2. b = InitSystem(r) /\ SetBits(r, c) = BitsOf(r)
    BY <2>1 DEF Body, SetBits
  <2> HIDE DEF b
  <2>3. Ordered(b)
    BY <2>2, InitBlock
  <2>4. PICK j \in 1 .. Len(b) : Sets(b[j], b[i].arg)
    BY <1>1, <1>8, <2>2 DEF Block, Reclears
  <2>5. i < j
    BY <1>8, <2>3, <2>4 DEF Ordered, Reclears, Sets
  <2>6. Len(b) \in Nat
    BY <1>1 DEF Block
  <2>7. j \in i + 1 .. Len(b)
    BY <2>5, <2>6
  <2> QED BY <2>4, <2>7
<1> QED BY <1>2, <1>3, <1>5, <1>6, <1>7, <1>8, PlainSteps

LEMMA MainClock ==
    ASSUME NEW r, NEW c, c.what \in Whats, c.what = "histogram" => r = "v1_5"
    PROVE  /\ Clock(r, c, Main(r, c)) /\ Led(Main(r, c))
           /\ \E x \in Ahead(Main(r, c)) : x.op = "first"
           /\ c.what # "init" => \A x \in Ahead(Main(r, c)) : ~Reclears(r, x)
<1> DEFINE p == Preamble(r)
           b == Body(r, c)
           e == Rest(r, c)
           m == Main(r, c)
<1>1. /\ Len(p) \in Nat /\ Len(e) \in Nat /\ Len(m) = Len(p) + Len(e)
      /\ \A i \in 1 .. Len(p) : m[i] = p[i]
      /\ \A i \in Len(p) + 1 .. Len(m) : i - Len(p) \in 1 .. Len(e) /\ m[i] = e[i - Len(p)]
      /\ \A i \in 1 .. Len(e) : i + Len(p) \in Len(p) + 1 .. Len(m) /\ m[i + Len(p)] = e[i]
  BY MainAt
<1>2. /\ Len(p) > 1 /\ p[Len(p)].op = "handler" /\ p[Len(p) - 1] = FirstS(r)
      /\ \A i \in 1 .. Len(p) : /\ p[i].op \in Opening \cup {"first", "handler"}
                                /\ p[i].op = "handler" <=> i = Len(p)
  BY PreambleShape
<1>3. /\ Len(b) \in Nat /\ Len(e) = Len(b) + 1 /\ e[Len(e)].op = "end"
      /\ \A i \in 1 .. Len(b) : e[i] = b[i] /\ b[i].op \in Plain /\ b[i] \in BodySteps(r, c)
  BY RestShape
<1>4. \A i \in 1 .. Len(b) : /\ b[i].op = "set" => b[i].arg \in SetBits(r, c)
                             /\ b[i].op = "clear" => b[i].arg \in ClearedBits(c)
  BY BodyBlock DEF Block
<1>5. /\ c.what # "init" => ClearedBits(c) \cap BitsOf(r) = {}
      /\ c.what = "acquire" => SetBits(r, c) \cap BitsOf(r) = {}
      /\ \A x \in BodySteps(r, c) : /\ x.op = "irq" => x.arg \in BOOLEAN /\ c.what # "acquire"
                                    /\ x.op = "loop" => c.what = "acquire"
      /\ \A i \in 1 .. Len(b) : /\ b[i].op = "clear" => b[i].arg # "fgps"
                                /\ Reclears(r, b[i]) => \E j \in i + 1 .. Len(b) : Sets(b[j], b[i].arg)
  BY BodyClock
<1>6. FirstS(r).op = "first"
  BY DEF FirstS
<1> HIDE DEF p, b, e, m
\* a step of main() is of the preamble, of the action, or the end
<1>7. ASSUME NEW i \in 1 .. Len(m)
      PROVE  \/ i \in 1 .. Len(p) /\ m[i] = p[i] /\ m[i].op \in Opening \cup {"first", "handler"}
             \/ i > Len(p) /\ m[i].op = "end"
             \/ /\ i > Len(p) /\ i - Len(p) \in 1 .. Len(b) /\ m[i] = b[i - Len(p)]
                /\ m[i].op \in Plain /\ m[i] \in BodySteps(r, c)
  <2>1. CASE i \in 1 .. Len(p)
    BY <1>1, <1>2, <2>1
  <2>2. CASE i \in Len(p) + 1 .. Len(m)
    <3> DEFINE k == i - Len(p)
    <3>1. k \in 1 .. Len(e) /\ m[i] = e[k] /\ i > Len(p)
      BY <1>1, <2>2
    <3> HIDE DEF k
    <3>2. CASE k = Len(e)
      BY <1>3, <3>1, <3>2
    <3>3. CASE k \in 1 .. Len(b)
      BY <1>3, <3>1, <3>3 DEF k
    <3> QED BY <1>1, <1>3, <3>1, <3>2, <3>3
  <2> QED BY <1>1, <2>1, <2>2
<1>8. ASSUME NEW i \in 1 .. Len(b)
      PROVE  i + Len(p) \in 1 .. Len(m) /\ m[i + Len(p)] = b[i]
  <2>1. i \in 1 .. Len(e)
    BY <1>1, <1>3
  <2>2. i + Len(p) \in Len(p) + 1 .. Len(m) /\ m[i + Len(p)] = b[i]
    BY <1>1, <1>3, <2>1
  <2> QED BY <1>1, <2>2
<1>9. ASSUME NEW i \in 1 .. Len(m)
      PROVE  /\ m[i].op = "clear" => m[i].arg \in ClearedBits(c) /\ m[i].arg # "fgps"
             /\ m[i].op = "set" => m[i].arg \in SetBits(r, c)
             /\ m[i].op = "irq" => m[i].arg \in BOOLEAN /\ c.what # "acquire"
             /\ m[i].op = "loop" => c.what = "acquire" /\ i > Len(p)
             /\ m[i].op \in {"first", "handler"} => i \in 1 .. Len(p)
             /\ m[i].op = "set" => i > Len(p)
  <2>1. CASE i \in 1 .. Len(p) /\ m[i] = p[i] /\ m[i].op \in Opening \cup {"first", "handler"}
    BY <2>1 DEF Opening
  <2>2. CASE i > Len(p) /\ m[i].op = "end"
    BY <2>2
  <2>3. CASE /\ i > Len(p) /\ i - Len(p) \in 1 .. Len(b) /\ m[i] = b[i - Len(p)]
             /\ m[i].op \in Plain /\ m[i] \in BodySteps(r, c)
    <3>1. m[i].op \notin {"first", "handler"}
      BY <2>3 DEF Plain
    <3> QED BY <1>4, <1>5, <2>3, <3>1
  <2> QED BY <1>7, <2>1, <2>2, <2>3
<1>10. ASSUME c.what # "init", NEW i \in 1 .. Len(m) PROVE ~Reclears(r, m[i])
  BY <1>5, <1>9, <1>10 DEF Reclears
<1>11. ASSUME NEW i \in 1 .. Len(m), Reclears(r, m[i])
       PROVE  \E j \in i + 1 .. Len(m) : Sets(m[j], m[i].arg)
  <2> DEFINE k == i - Len(p)
  <2>1. m[i].op = "clear"
    BY <1>11 DEF Reclears
  <2>2. k \in 1 .. Len(b) /\ m[i] = b[k] /\ i = k + Len(p)
    <3>1. m[i].op \notin Opening \cup {"first", "handler"} /\ m[i].op # "end"
      BY <2>1 DEF Opening
    <3>2. i = k + Len(p)
      BY <1>1
    <3> HIDE DEF k
    <3>3. k \in 1 .. Len(b) /\ m[i] = b[k]
      BY <1>7, <3>1 DEF k
    <3> QED BY <3>2, <3>3
  <2> HIDE DEF k
  <2>3. PICK j \in k + 1 .. Len(b) : Sets(b[j], b[k].arg)
    BY <1>5, <1>11, <2>2
  <2>4. j \in 1 .. Len(b) /\ j + Len(p) > i
    BY <1>1, <1>3, <2>2
  <2>5. j + Len(p) \in i + 1 .. Len(m) /\ m[j + Len(p)] = b[j]
    BY <1>1, <1>8, <2>4
  <2> QED BY <2>2, <2>3, <2>5
<1>12. ASSUME NEW i \in 1 .. Len(m), m[i].op = "loop", NEW j \in i .. Len(m)
       PROVE  (m[j].op = "set" => m[j].arg \notin BitsOf(r)) /\ m[j].op \notin {"irq", "first"}
  <2>1. j \in 1 .. Len(m) /\ c.what = "acquire" /\ i > Len(p)
    BY <1>1, <1>9, <1>12
  <2>2. j \notin 1 .. Len(p)
    BY <1>1, <2>1
  <2> QED BY <1>5, <1>9, <2>1, <2>2
<1>13. Clock(r, c, m)
  <2>1. ASSUME NEW i \in 1 .. Len(m), c.what # "init", NEW j \in i .. Len(m) PROVE ~Reclears(r, m[j])
    <3>1. j \in 1 .. Len(m)
      BY <1>1
    <3> QED BY <1>10, <2>1, <3>1
  <2> QED BY <1>9, <1>11, <1>12, <2>1 DEF Clock
<1>14. /\ Len(p) - 1 \in 1 .. Len(m) /\ m[Len(p) - 1].op = "first"
       /\ Len(p) \in 1 .. Len(m) /\ m[Len(p)].op = "handler"
  <2>1. /\ Len(p) - 1 \in 1 .. Len(p) /\ Len(p) \in 1 .. Len(p)
        /\ Len(p) - 1 \in 1 .. Len(m) /\ Len(p) \in 1 .. Len(m)
    BY <1>1, <1>2
  <2> QED BY <1>1, <1>2, <1>6, <2>1
<1>15. ASSUME NEW i \in 1 .. Len(m), m[i].op \in {"set", "handler"}
       PROVE  Len(p) - 1 \in 1 .. i
  <2>1. CASE i > Len(p)
    BY <1>1, <1>2, <2>1
  <2>2. CASE i \in 1 .. Len(p)
    <3>1. m[i] = p[i] /\ p[i].op = "handler"
      BY <1>1, <1>9, <1>15, <2>2
    <3>2. i = Len(p)
      BY <1>2, <2>2, <3>1
    <3> QED BY <1>1, <1>2, <3>2
  <2> QED BY <1>1, <2>1, <2>2
<1>16. Led(m)
  BY <1>14, <1>15 DEF Led, Ahead
<1>17. \E x \in Ahead(m) : x.op = "first"
  BY <1>14 DEF Ahead
<1>18. c.what # "init" => \A x \in Ahead(m) : ~Reclears(r, x)
  BY <1>10 DEF Ahead
<1> QED BY <1>13, <1>16, <1>17, <1>18 DEF m

LEMMA ClockMoved ==
    ASSUME IInv, ClockInv, NEW p \in Procs, NEW op, op # "end", At(p, op), Goes(p),
           UNCHANGED <<release, cmd, alone>>
    PROVE  /\ \A q \in Procs : Clock(release', cmd'[q], todo'[q])
           /\ IsSeq(todo[p]) /\ todo[p] # << >> /\ todo[p][1].op = op /\ Running' # {}
           /\ todo'[p] = Tail(todo[p]) /\ Ahead(todo'[p]) \subseteq Ahead(todo[p])
           /\ \A x \in Ahead(todo[p]) : x = todo[p][1] \/ x \in Ahead(todo'[p])
           /\ todo'[p][1].op \in {"set", "clear"} => op = "get"
           /\ \A q \in Procs \ {p} : todo'[q] = todo[q]
<1>1. /\ todo[p] # << >> /\ todo[p][1].op = op /\ todo'[p] = Tail(todo[p]) /\ todo'[p] # << >>
      /\ todo'[p][1] = todo[p][2] /\ After(release, todo[p][1], todo[p][2])
      /\ \A q \in Procs \ {p} : todo'[q] = todo[q]
  BY Moved DEF IInv, Head1
<1>2. IsSeq(todo[p])
  BY DEF IInv, ProgInv, Program
<1>3. \A q \in Procs : Clock(release, cmd[q], todo[q])
  BY DEF ClockInv
<1>4. Clock(release, cmd[p], todo'[p])
  BY <1>1, <1>2, <1>3, ClockTail
<1>5. \A q \in Procs : Clock(release', cmd'[q], todo'[q])
  BY <1>1, <1>3, <1>4
<1>6. Ahead(todo'[p]) \subseteq Ahead(todo[p]) /\ \A x \in Ahead(todo[p]) : x = todo[p][1] \/ x \in Ahead(todo'[p])
  BY <1>1, <1>2, AheadTail
<1>7. todo'[p][1].op \in {"set", "clear"} => op = "get"
  BY <1>1 DEF After
<1>8. Running' # {}
  BY <1>1 DEF Running
<1> QED BY <1>1, <1>2, <1>5, <1>6, <1>7, <1>8

\* a step that touches neither the bits nor the interrupt
LEMMA CalmClock ==
    ASSUME IInv, ClockInv, NEW p \in Procs, NEW op, op \notin {"end", "set", "clear", "first", "irq"},
           At(p, op), Goes(p), UNCHANGED <<release, cfg, ier, cmd, cut, alone>>,
           op = "get" => got'[p] = cfg, \A q \in Procs \ {p} : got'[q] = got[q]
    PROVE  ClockInv'
<1> DEFINE s == todo[p]
           t == todo'[p]
<1>1. /\ \A q \in Procs : Clock(release', cmd'[q], todo'[q])
      /\ IsSeq(s) /\ s # << >> /\ s[1].op = op /\ Running' # {}
      /\ t = Tail(s) /\ Ahead(t) \subseteq Ahead(s)
      /\ \A x \in Ahead(s) : x = s[1] \/ x \in Ahead(t)
      /\ t[1].op \in {"set", "clear"} => op = "get"
      /\ \A q \in Procs \ {p} : todo'[q] = todo[q]
  BY ClockMoved
<1>2. Led(s) => Led(t)
  BY <1>1, LedTail DEF Sets
<1>3. \A q \in Procs : alone[q] => q = p
  BY <1>1 DEF IInv, ProgInv
<1> HIDE DEF s, t
<1>4. /\ (\E x \in Ahead(s) : x.op = "first") => \E x \in Ahead(t) : x.op = "first"
      /\ (\E x \in Ahead(s) : x.op = "irq" /\ x.arg = TRUE) => \E x \in Ahead(t) : x.op = "irq" /\ x.arg = TRUE
      /\ \A b : (\E x \in Ahead(s) : Sets(x, b)) => \E x \in Ahead(t) : Sets(x, b)
  BY <1>1 DEF Sets
<1>5. ASSUME Solo(p) PROVE Solo(p)'
  BY <1>1, <1>2, <1>4, <1>5 DEF Solo, s, t
<1>6. ASSUME NEW q \in Procs, Mixed(q) PROVE Mixed(q)'
  <2>1. CASE q = p
    BY <1>1, <1>6, <2>1 DEF Mixed, Head1, s, t
  <2>2. CASE q # p
    BY <1>1, <1>6, <2>2 DEF Mixed, Head1
  <2> QED BY <2>1, <2>2
<1>7. ASSUME NEW q \in Procs, todo'[q] # << >> PROVE todo[q] # << >>
  BY <1>1, <1>7 DEF s
<1> QED BY <1>1, <1>3, <1>5, <1>6, <1>7 DEF ClockInv

LEMMA IrqClock ==
    ASSUME IInv, ClockInv, NEW p \in Procs, EnableInterrupt(p)
    PROVE  ClockInv'
<1> DEFINE s == todo[p]
           t == todo'[p]
<1>1. /\ At(p, "irq") /\ Goes(p) /\ UNCHANGED <<release, cfg, cmd, got, alone>>
      /\ ier' = Arg(p) /\ cut' = IF Arg(p) THEN cut ELSE cut \cup {"off"}
  BY DEF EnableInterrupt
<1>2. /\ \A q \in Procs : Clock(release', cmd'[q], todo'[q])
      /\ IsSeq(s) /\ s # << >> /\ s[1].op = "irq" /\ Running' # {}
      /\ t = Tail(s) /\ Ahead(t) \subseteq Ahead(s)
      /\ \A x \in Ahead(s) : x = s[1] \/ x \in Ahead(t)
      /\ t[1].op \notin {"set", "clear"}
      /\ \A q \in Procs \ {p} : todo'[q] = todo[q]
  BY <1>1, ClockMoved
<1>3. Arg(p) \in BOOLEAN
  <2>1. Arg(p) = s[1].arg /\ 1 \in 1 .. Len(s)
    BY <1>2, TailParts, SeqParts DEF Arg
  <2> QED BY <1>2, <2>1 DEF ClockInv, Clock
<1>4. ier' \in BOOLEAN /\ ("met" \notin cut' => "met" \notin cut) /\ (cut' = {} => cut = {} /\ ier')
  BY <1>1, <1>3
<1>5. Led(s) => Led(t)
  BY <1>2, LedTail DEF Sets
<1>6. \A q \in Procs : alone[q] => q = p
  BY <1>2 DEF IInv, ProgInv
<1> HIDE DEF s, t
<1>7. /\ (\E x \in Ahead(s) : x.op = "first") => \E x \in Ahead(t) : x.op = "first"
      /\ \A b : (\E x \in Ahead(s) : Sets(x, b)) => \E x \in Ahead(t) : Sets(x, b)
  BY <1>2 DEF Sets
<1>8. ASSUME Solo(p) PROVE Solo(p)'
  BY <1>1, <1>2, <1>4, <1>5, <1>7, <1>8 DEF Solo, s, t
<1>9. ASSUME NEW q \in Procs, Mixed(q) PROVE Mixed(q)'
  <2>1. CASE q = p
    BY <1>1, <1>2, <1>4, <1>9, <2>1 DEF Mixed, Head1, s, t
  <2>2. CASE q # p
    BY <1>1, <1>2, <1>4, <1>9, <2>2 DEF Mixed, Head1
  <2> QED BY <2>1, <2>2
<1>10. ASSUME NEW q \in Procs, todo'[q] # << >> PROVE todo[q] # << >>
  BY <1>2, <1>10 DEF s
<1> QED BY <1>1, <1>2, <1>4, <1>6, <1>8, <1>9, <1>10 DEF ClockInv

LEMMA WriteClock ==
    ASSUME IInv, ClockInv, NEW p \in Procs, WriteGral(p)
    PROVE  ClockInv'
<1> DEFINE s == todo[p]
           t == todo'[p]
           x == s[1]
<1>1. /\ Goes(p) /\ UNCHANGED <<release, cmd, ier, cut, alone>>
      /\ \/ At(p, "set") /\ cfg' = got[p] \cup {Arg(p)}
         \/ At(p, "clear") /\ cfg' = got[p] \ {Arg(p)}
      /\ \A q \in Procs \ {p} : got'[q] = got[q]
  BY DEF WriteGral, IInv, TypeInv
<1>2. /\ \A q \in Procs : Clock(release', cmd'[q], todo'[q])
      /\ IsSeq(s) /\ s # << >> /\ Running' # {}
      /\ \/ x.op = "set" /\ cfg' = got[p] \cup {Arg(p)}
         \/ x.op = "clear" /\ cfg' = got[p] \ {Arg(p)}
      /\ t = Tail(s) /\ Ahead(t) \subseteq Ahead(s)
      /\ \A y \in Ahead(s) : y = x \/ y \in Ahead(t)
      /\ t[1].op \notin {"set", "clear"}
      /\ \A q \in Procs \ {p} : todo'[q] = todo[q]
  <2>1. CASE At(p, "set") /\ cfg' = got[p] \cup {Arg(p)}
    BY <1>1, <2>1, ClockMoved
  <2>2. CASE At(p, "clear") /\ cfg' = got[p] \ {Arg(p)}
    BY <1>1, <2>2, ClockMoved
  <2> QED BY <1>1, <2>1, <2>2
<1>3. Arg(p) = x.arg /\ 1 \in 1 .. Len(s) /\ x \in Ahead(s)
  BY <1>2, TailParts, SeqParts, AheadTail DEF Arg
<1>4. /\ x.op = "clear" => x.arg # "fgps"
      /\ Reclears(release, x) => \E y \in Ahead(t) : Sets(y, x.arg)
      /\ x.op = "set" /\ cmd[p].what # "init" => \A y \in Ahead(t) : ~Reclears(release, y)
  <2>1. Clock(release, cmd[p], s)
    BY DEF ClockInv
  <2>2. /\ x.op = "clear" => x.arg # "fgps"
        /\ Reclears(release, x) => \E j \in 1 + 1 .. Len(s) : Sets(s[j], x.arg)
        /\ x.op = "set" /\ cmd[p].what # "init" => \A j \in 1 .. Len(s) : ~Reclears(release, s[j])
    BY <1>3, <2>1 DEF Clock
  <2>3. Len(s) \in Nat
    BY <1>2, SeqParts
  <2>4. ASSUME Reclears(release, x) PROVE \E y \in Ahead(t) : Sets(y, x.arg)
    <3>1. PICK j \in 1 + 1 .. Len(s) : Sets(s[j], x.arg)
      BY <2>2, <2>4
    <3>2. s[j] \in Ahead(s) /\ s[j] # x
      BY <2>3, <2>4, <3>1 DEF Ahead, Reclears, Sets
    <3> QED BY <1>2, <3>1, <3>2
  <2>5. x.op = "set" /\ cmd[p].what # "init" => \A y \in Ahead(s) : ~Reclears(release, y)
    BY <2>2 DEF Ahead
  <2> QED BY <1>2, <2>2, <2>4, <2>5
<1>5. \A q \in Procs : alone[q] => q = p
  BY <1>2 DEF IInv, ProgInv
<1>6. alone[p] => got[p] = cfg
  BY <1>2 DEF IInv, LinkInv, Head1
<1>7. Program(release, s)
  BY DEF IInv, ProgInv
<1>8. ~Sets(x, "fgps") /\ Led(s) => Led(t) /\ x.op # "set"
  BY <1>2, LedTail
<1>9. (\E y \in Ahead(s) : y.op = "first") => x.op \in Opening \cup {"first"}
  <2> SUFFICES ASSUME NEW i \in 1 .. Len(s), s[i].op = "first" PROVE x.op \in Opening \cup {"first"}
    BY DEF Ahead
  <2>1. \A j \in 1 .. i - 1 : s[j].op \in Opening
    BY <1>7 DEF Program
  <2>2. i = 1 \/ 1 \in 1 .. i - 1
    BY <1>3
  <2> QED BY <2>1, <2>2
<1>10. ~\E y \in Ahead(s) : y.op = "first"
  BY <1>2, <1>9 DEF Opening
<1> HIDE DEF s, t, x
<1>11. ASSUME Solo(p), alone[p] PROVE Solo(p)'
  <2>1. "fgps" \in cfg \/ (cfg = {} /\ Led(s))
    BY <1>11 DEF Solo, s
  <2>2. "fgps" \in cfg' \/ (cfg' = {} /\ Led(t))
    <3>1. CASE "fgps" \in cfg
      BY <1>2, <1>3, <1>4, <1>6, <1>11, <3>1
    <3>2. CASE cfg = {} /\ Led(s)
      <4>1. CASE Sets(x, "fgps")
        BY <1>2, <1>3, <4>1 DEF Sets
      <4>2. CASE ~Sets(x, "fgps")
        <5>1. x.op = "clear" /\ Led(t)
          BY <1>2, <1>8, <3>2, <4>2
        <5>2. cfg' = {}
          BY <1>2, <1>6, <1>11, <3>2, <5>1
        <5> QED BY <5>1, <5>2
      <4> QED BY <4>1, <4>2
    <3> QED BY <2>1, <3>1, <3>2
  <2>3. ASSUME cut = {}
        PROVE  /\ \A b \in BitsOf(release) : b \in cfg' \/ \E y \in Ahead(t) : Sets(y, b)
               /\ ier \/ \E y \in Ahead(t) : y.op = "irq" /\ y.arg = TRUE
    <3>1. /\ \A b \in BitsOf(release) : b \in cfg \/ \E y \in Ahead(s) : Sets(y, b)
          /\ ier \/ \E y \in Ahead(s) : y.op = "irq" /\ y.arg = TRUE
      BY <1>10, <1>11, <2>3 DEF Solo, s
    <3>2. ier \/ \E y \in Ahead(t) : y.op = "irq" /\ y.arg = TRUE
      BY <1>2, <3>1
    <3>3. ASSUME NEW b \in BitsOf(release), b \notin cfg' PROVE \E y \in Ahead(t) : Sets(y, b)
      <4>1. CASE b \in cfg
        <5>1. Reclears(release, x) /\ x.arg = b
          BY <1>2, <1>3, <1>6, <1>11, <3>3, <4>1 DEF Reclears
        <5> QED BY <1>4, <5>1
      <4>2. CASE b \notin cfg
        <5>1. PICK y \in Ahead(s) : Sets(y, b)
          BY <3>1, <4>2
        <5>2. y # x
          BY <1>2, <1>3, <3>3, <5>1 DEF Sets
        <5> QED BY <1>2, <5>1, <5>2
      <4> QED BY <4>1, <4>2
    <3> QED BY <3>2, <3>3
  <2>4. ASSUME cmd[p].what # "init", \E y \in Ahead(t) : Reclears(release, y)
        PROVE  cfg' = {}
    <3>1. x.op = "clear"
      BY <1>2, <1>4, <2>4
    <3>2. cfg = {}
      BY <1>2, <1>11, <2>4 DEF Solo, s
    <3> QED BY <1>2, <1>6, <1>11, <3>1, <3>2
  <2> QED BY <1>1, <2>2, <2>3, <2>4 DEF Solo, t
<1>12. ASSUME Mixed(p), NEW q \in Procs, Mixed(q) PROVE Mixed(q)'
  <2>1. BitsOf(release) \subseteq got[p] /\ ~Reclears(release, x)
    BY <1>2, <1>3, <1>12 DEF Mixed, Head1, s, x
  <2>2. BitsOf(release) \subseteq cfg'
    BY <1>2, <1>3, <2>1 DEF Reclears
  <2>3. CASE q = p
    BY <1>1, <1>2, <1>12, <2>2, <2>3 DEF Mixed, Head1, s, t
  <2>4. CASE q # p
    BY <1>1, <1>2, <1>12, <2>2, <2>4 DEF Mixed, Head1
  <2> QED BY <2>3, <2>4
<1>13. ASSUME NEW q \in Procs, todo'[q] # << >> PROVE todo[q] # << >>
  BY <1>2, <1>13 DEF s
<1>14. alone[p] => \A q \in Procs : todo[q] # << >> => q = p
  BY DEF IInv, ProgInv
<1>15. todo[p] # << >>
  BY <1>2 DEF s
<1> QED BY <1>1, <1>2, <1>5, <1>11, <1>12, <1>13, <1>14, <1>15 DEF ClockInv

LEMMA FirstAccessClock ==
    ASSUME IInv, ClockInv, NEW p \in Procs, FirstAccess(p)
    PROVE  ClockInv'
<1> DEFINE s == todo[p]
           a == FirstArg(release)
           t == todo'[p]
<1>1. /\ At(p, "first") /\ UNCHANGED <<release, cfg, ier, cmd, got, cut, alone>>
      /\ todo' = [todo EXCEPT ![p] = (IF First THEN Arg(p) ELSE << >>) \o Tail(s)]
  BY DEF FirstAccess, history, board
<1>2. s # << >> /\ Head(s).op = "first" /\ IsSeq(s) /\ Program(release, s)
  BY <1>1 DEF At, IInv, ProgInv, Program
<1>3. Head(s) = s[1] /\ 1 \in 1 .. Len(s)
  BY <1>2, TailParts, SeqParts
<1>4. Arg(p) = a
  BY <1>2, <1>3 DEF Arg, Program
<1>5. t = IF cfg = {} THEN a \o Tail(s) ELSE << >> \o Tail(s)
  BY <1>1, <1>4 DEF IInv, TypeInv, First
<1>6. t # << >> /\ t[1].op \notin {"set", "clear"}
  BY <1>2, <1>3, <1>5, FirstRest
<1>7. \A q \in Procs \ {p} : todo'[q] = todo[q]
  BY <1>1 DEF IInv, TypeInv
<1>8. << >> \o Tail(s) = Tail(s)
  <2>1. IsSeq(Tail(s))
    BY <1>2, TailParts
  <2> QED BY <2>1 DEF IsSeq
<1>9. Clock(release, cmd[p], t)
  <2>1. Clock(release, cmd[p], s)
    BY DEF ClockInv
  <2>2. Clock(release, cmd[p], Tail(s)) /\ Clock(release, cmd[p], a \o Tail(s))
    BY <1>2, <1>3, <2>1, ClockTail, ClockExpand
  <2> QED BY <1>5, <1>8, <2>2
<1>10. /\ Ahead(Tail(s)) \subseteq Ahead(s) /\ \A x \in Ahead(s) : x = s[1] \/ x \in Ahead(Tail(s))
  BY <1>2, AheadTail
<1>11. \A q \in Procs : alone[q] => q = p
  BY <1>2 DEF IInv, ProgInv
<1>12. ASSUME Solo(p) PROVE Solo(p)'
  <2>1. CASE cfg = {}
    <3>1. Led(t)
      BY <1>2, <1>3, <1>5, <1>12, <2>1, LedExpand DEF Solo
    <3>2. /\ IsSeq(a) /\ (\A b \in BitsOf(release) : \E i \in 1 .. Len(a) : Sets(a[i], b))
          /\ \E i \in 1 .. Len(a) : a[i] = IrqS(TRUE)
      BY FirstClock, FirstBlock
    <3>3. Ahead(t) = Ahead(a) \cup Ahead(Tail(s))
      BY <1>2, <1>5, <2>1, <3>2, AheadCat, TailParts
    <3> HIDE DEF a, s, t
    <3>4. /\ \A b \in BitsOf(release) : \E x \in Ahead(t) : Sets(x, b)
          /\ IrqS(TRUE) \in Ahead(t)
      BY <3>2, <3>3 DEF Ahead
    <3>5. \E x \in Ahead(t) : x.op = "irq" /\ x.arg = TRUE
      BY <3>4 DEF IrqS
    <3> QED BY <1>1, <2>1, <3>1, <3>4, <3>5 DEF Solo, t
  <2>2. CASE cfg # {}
    <3>1. t = Tail(s) /\ "fgps" \in cfg
      BY <1>5, <1>8, <1>12, <2>2 DEF Solo
    <3> HIDE DEF a, s, t
    <3>2. /\ \A b : (\E x \in Ahead(s) : Sets(x, b)) => \E x \in Ahead(t) : Sets(x, b)
          /\ (\E x \in Ahead(s) : x.op = "irq" /\ x.arg = TRUE) => \E x \in Ahead(t) : x.op = "irq" /\ x.arg = TRUE
      BY <1>2, <1>3, <1>10, <3>1 DEF Sets
    <3> QED BY <1>1, <1>10, <1>12, <2>2, <3>1, <3>2 DEF Solo, s, t
  <2> QED BY <2>1, <2>2
<1>13. ASSUME NEW q \in Procs, Mixed(q) PROVE Mixed(q)'
  <2>1. CASE q = p
    <3>1. cfg # {}
      BY <1>13 DEF Mixed, BitsOf
    <3>2. Ahead(t) \subseteq Ahead(s)
      BY <1>5, <1>8, <1>10, <3>1
    <3> QED BY <1>1, <1>6, <1>13, <2>1, <3>2 DEF Mixed, Head1
  <2>2. CASE q # p
    BY <1>1, <1>7, <1>13, <2>2 DEF Mixed, Head1
  <2> QED BY <2>1, <2>2
<1>14. ASSUME NEW q \in Procs, todo'[q] # << >> PROVE todo[q] # << >>
  BY <1>2, <1>7, <1>14
<1>15. Running' # {}
  BY <1>6 DEF Running
<1>16. \A q \in Procs : Clock(release', cmd'[q], todo'[q])
  BY <1>1, <1>7, <1>9 DEF ClockInv
<1> HIDE DEF s, a, t
<1> QED BY <1>1, <1>11, <1>12, <1>13, <1>14, <1>15, <1>16 DEF ClockInv

LEMMA EndClock ==
    ASSUME IInv, ClockInv, NEW p \in Procs, Exit(p) \/ Kill(p) \/ Segv(p)
    PROVE  ClockInv'
<1>1. todo[p] # << >> /\ Gone(p) /\ UNCHANGED <<release, cfg, ier>>
  BY DEF Exit, Kill, Segv, Dies, At, Running, board
<1>2. /\ todo'[p] = << >> /\ \A q \in Procs : ~alone'[q]
      /\ \A q \in Procs \ {p} : todo'[q] = todo[q] /\ cmd'[q] = cmd[q] /\ got'[q] = got[q]
  BY <1>1 DEF Gone, IInv, TypeInv, ProgInv
<1>3. \A q \in Procs : Clock(release', cmd'[q], todo'[q])
  <2>1. \A c : Clock(release, c, << >>)
    BY DEF Clock
  <2> QED BY <1>1, <1>2, <2>1 DEF ClockInv
<1>4. InitBits = BitsOf(release)
  BY DEF InitBits, BitsOf
<1>5. \/ cut' = cut /\ Exit(p)
      \/ cut' = cut /\ BitsOf(release) \subseteq cfg /\ ier
      \/ cut' = cut \cup {"killed"}
  <2>1. CASE Exit(p)
    BY <2>1 DEF Exit
  <2>2. CASE Kill(p) \/ Segv(p)
    BY <1>4, <2>2 DEF Kill, Segv, Dies
  <2> QED BY <2>1, <2>2
<1>6. ("met" \notin cut' => "met" \notin cut) /\ (cut' = {} => cut = {})
  BY <1>5
<1>7. ASSUME "met" \notin cut', NEW q \in Procs, todo'[q] # << >> PROVE Mixed(q)'
  <2>1. q # p /\ todo[q] # << >>
    BY <1>2, <1>7
  <2>2. ~alone[q]
    BY <1>1, <2>1 DEF IInv, ProgInv
  <2>3. Mixed(q)
    BY <1>6, <1>7, <2>1, <2>2 DEF ClockInv
  <2> QED BY <1>1, <1>2, <1>6, <2>1, <2>3 DEF Mixed, Head1
<1>8. ASSUME "met" \notin cut'
      PROVE  /\ cfg = {} \/ "fgps" \in cfg
             /\ cut' = {} => cfg = {} \/ (BitsOf(release) \subseteq cfg /\ ier)
  <2>1. CASE ~alone[p]
    <3>1. Mixed(p)
      BY <1>1, <1>6, <1>8, <2>1 DEF ClockInv
    <3> QED BY <1>6, <3>1 DEF Mixed, BitsOf
  <2>2. CASE alone[p]
    <3>1. Solo(p)
      BY <1>6, <1>8, <2>2 DEF ClockInv
    <3>2. CASE ~Exit(p)
      <4>1. cut' = {} => BitsOf(release) \subseteq cfg /\ ier
        BY <1>5, <3>2
      <4> QED BY <3>1, <4>1 DEF Solo
    <3>3. CASE Exit(p)
      <4>1. Program(release, todo[p]) /\ todo[p][1].op = "end"
        BY <1>1, <3>3, TailParts DEF IInv, ProgInv, Program, Exit, At
      <4>2. \A x \in Ahead(todo[p]) : x.op = "end"
        BY <1>1, <4>1, LastStep DEF Ahead
      <4>3. cut = {} => (BitsOf(release) \subseteq cfg /\ ier)
        BY <3>1, <4>2 DEF Solo, Sets
      <4> QED BY <1>6, <3>1, <4>3 DEF Solo
    <3> QED BY <3>2, <3>3
  <2> QED BY <2>1, <2>2
<1> QED BY <1>1, <1>2, <1>3, <1>7, <1>8 DEF ClockInv

LEMMA StartClock ==
    ASSUME IInv, ClockInv, NEW p \in Procs, NEW argv \in Commands, Start(p, argv)
    PROVE  ClockInv'
<1> DEFINE c == parse_param(argv)
           m == Main(release, c)
<1>1. /\ todo[p] = << >> /\ UNCHANGED <<release, cfg, ier, got>>
  BY DEF Start, Running, board
<1>2. CASE c.what \in {"usage", "crash", "error"}
  <2>1. UNCHANGED <<cmd, todo, alone, cut>>
    BY <1>2 DEF Start
  <2>2. Running' = Running
    BY <2>1 DEF Running
  <2>3. \A q : Solo(q)' <=> Solo(q)
    BY <1>1, <2>1 DEF Solo
  <2>4. \A q : Mixed(q)' <=> Mixed(q)
    BY <1>1, <2>1 DEF Mixed, Head1
  <2> QED BY <1>1, <2>1, <2>2, <2>3, <2>4 DEF ClockInv
<1>3. CASE c.what \notin {"usage", "crash", "error"}
  <2>1. Command(release, c)
    BY <1>3, Parsed DEF IInv, TypeInv
  <2>2. main(c) = m
    BY <2>1, Mains DEF IInv, TypeInv
  <2>3. m # << >> /\ m[1].op = "map"
    BY <2>1, MainProgram DEF Command
  <2>4. /\ Clock(release, c, m) /\ Led(m) /\ (\E x \in Ahead(m) : x.op = "first")
        /\ c.what # "init" => \A x \in Ahead(m) : ~Reclears(release, x)
    BY <2>1, MainClock DEF Command
  <2>5. InitBits = BitsOf(release)
    BY DEF InitBits, BitsOf
  <2>6. /\ cmd' = [cmd EXCEPT ![p] = c] /\ todo' = [todo EXCEPT ![p] = m]
        /\ alone' = [q \in Procs |-> q = p /\ Running = {}]
        /\ cut' = IF /\ Running # {}
                     /\ \/ c.what = "init" \/ \E q \in Running : cmd[q].what = "init"
                        \/ ~(BitsOf(release) \subseteq cfg /\ ier)
                  THEN cut \cup {"met"} ELSE cut
    BY <1>3, <2>2, <2>5 DEF Start
  <2> HIDE DEF c, m
  <2>7. /\ todo'[p] = m /\ cmd'[p] = c
        /\ \A q \in Procs \ {p} : todo'[q] = todo[q] /\ cmd'[q] = cmd[q]
        /\ \A q \in Procs : alone'[q] <=> q = p /\ Running = {}
    BY <2>6 DEF IInv, TypeInv
  <2>8. \A q \in Procs : Clock(release', cmd'[q], todo'[q])
    BY <1>1, <2>4, <2>7 DEF ClockInv
  <2>9. Running' # {}
    BY <2>3, <2>7 DEF Running
  <2>10. ASSUME "met" \notin cut'
         PROVE  /\ cut' = cut
                /\ Running # {} => /\ c.what # "init" /\ \A q \in Running : cmd[q].what # "init"
                                   /\ BitsOf(release) \subseteq cfg /\ ier
    BY <2>6, <2>10
  <2>11. ASSUME "met" \notin cut', Running = {} PROVE Solo(p)'
    <3>1. /\ cfg = {} \/ "fgps" \in cfg
          /\ cut = {} => cfg = {} \/ (BitsOf(release) \subseteq cfg /\ ier)
      BY <2>10, <2>11 DEF ClockInv
    <3> QED BY <1>1, <2>4, <2>7, <2>10, <2>11, <3>1 DEF Solo
  <2>12. ASSUME "met" \notin cut', Running # {}, NEW q \in Procs, todo'[q] # << >> PROVE Mixed(q)'
    <3>1. CASE q = p
      BY <1>1, <2>3, <2>4, <2>7, <2>10, <2>12, <3>1 DEF Mixed, Head1
    <3>2. CASE q # p
      <4>1. todo[q] # << >> /\ q \in Running
        BY <2>7, <2>12, <3>2 DEF Running
      <4>2. /\ \A x \in Ahead(todo[q]) : ~Reclears(release, x)
            /\ Head1(q).op \in {"set", "clear"} => BitsOf(release) \subseteq got[q]
        <5>1. CASE alone[q]
          <6>1. Solo(q)
            BY <2>10, <2>12, <5>1 DEF ClockInv
          <6>2. cfg # {} /\ cmd[q].what # "init"
            BY <2>10, <2>12, <4>1 DEF BitsOf
          <6>3. \A x \in Ahead(todo[q]) : ~Reclears(release, x)
            BY <6>1, <6>2 DEF Solo
          <6>4. Head1(q).op \in {"set", "clear"} => got[q] = cfg
            BY <5>1 DEF IInv, LinkInv
          <6> QED BY <2>10, <2>12, <6>3, <6>4
        <5>2. CASE ~alone[q]
          BY <2>10, <2>12, <4>1, <5>2 DEF ClockInv, Mixed
        <5> QED BY <5>1, <5>2
      <4> QED BY <1>1, <2>7, <2>10, <2>12, <3>2, <4>1, <4>2 DEF Mixed, Head1
    <3> QED BY <3>1, <3>2
  <2>13. Running = {} => \A q \in Procs \ {p} : todo'[q] = << >>
    BY <2>7 DEF Running
  <2> QED BY <1>1, <2>7, <2>8, <2>9, <2>11, <2>12, <2>13 DEF ClockInv
<1> QED BY <1>2, <1>3

LEMMA InitClock == Init => ClockInv
<1> SUFFICES ASSUME Init PROVE ClockInv
  OBVIOUS
<1> USE DEF Init
<1>1. Running = {}
  BY DEF Running
<1>2. \A p \in Procs : Clock(release, cmd[p], todo[p])
  BY DEF Clock
<1> QED BY <1>1, <1>2 DEF ClockInv

LEMMA NextClock == IInv /\ ClockInv /\ [Next]_vars => ClockInv'
<1> SUFFICES ASSUME IInv, ClockInv, [Next]_vars PROVE ClockInv'
  OBVIOUS
<1>1. CASE UNCHANGED vars
  <2>1. UNCHANGED <<release, cfg, ier, cmd, todo, got, cut, alone>>
    BY <1>1 DEF vars, board, process, history
  <2> QED BY <2>1 DEF ClockInv, Solo, Mixed, Running, Head1
<1>2. CASE Next
  <2>1. PICK p \in Procs : \/ \E argv \in Commands : Start(p, argv)
                           \/ Execute(p) \/ Kill(p) \/ Segv(p)
    BY <1>2 DEF Next
  <2>2. CASE \E argv \in Commands : Start(p, argv)
    BY <2>2, StartClock
  <2>3. CASE Exit(p) \/ Kill(p) \/ Segv(p)
    BY <2>3, EndClock
  <2>4. CASE FirstAccess(p)
    BY <2>4, FirstAccessClock
  <2>5. CASE WriteGral(p)
    BY <2>5, WriteClock
  <2>6. CASE EnableInterrupt(p)
    BY <2>6, IrqClock
  <2>7. CASE \/ MapDevices(p) \/ (\E a \in Addrs : cma_ioctl(p, a)) \/ cma_ioctl_fails(p)
             \/ WriteAddress(p) \/ ReadGral(p) \/ WriteRegs(p) \/ ReadLimit(p) \/ WriteLimit(p)
             \/ Poll(p) \/ Silent(p)
    <3>1. /\ Goes(p) /\ UNCHANGED <<release, cfg, ier, cmd, cut, alone>>
          /\ \A q \in Procs \ {p} : got'[q] = got[q]
      BY <2>7 DEF MapDevices, cma_ioctl, cma_ioctl_fails, WriteAddress, ReadGral, WriteRegs, ReadLimit,
                  WriteLimit, Poll, Silent, board, history, IInv, TypeInv
    <3>2. PICK op \in {"map", "alloc", "addr", "get", "write", "hget", "hput", "poll", "show", "loop",
                       "handler"} : At(p, op) /\ (op = "get" => ReadGral(p))
      BY <2>7 DEF MapDevices, cma_ioctl, cma_ioctl_fails, WriteAddress, ReadGral, WriteRegs, ReadLimit,
                  WriteLimit, Poll, Silent
    <3>3. op = "get" => got'[p] = cfg
      BY <3>2 DEF ReadGral, IInv, TypeInv
    <3> QED BY <3>1, <3>2, <3>3, CalmClock
  <2> QED BY <2>1, <2>2, <2>3, <2>4, <2>5, <2>6, <2>7 DEF Execute
<1> QED BY <1>1, <1>2

\* Whether one runs alone or several meet: as long as no initialisation met another
\* invocation, the configuration register is 0 with the whole initial configuration still
\* to come, or has the clock source bit; and no bit of a complete configuration is lost.
THEOREM ClockInvariant == Spec => []ClockInv
<1>1. IInv /\ ClockInv /\ [Next]_vars => ClockInv'
  BY NextClock
<1> QED BY <1>1, InitClock, SessionInvariant, PTL DEF Spec

\* An invocation that runs alone gets past the first-access test only with the clock
\* source chosen, wherever its predecessors were killed; and if none was, an acquisition
\* has the whole initial configuration and the interrupt.
THEOREM ClockIsChosen == Spec => []ClockSourceChosen
<1>1. IInv /\ ClockInv => ClockSourceChosen
  <2> SUFFICES ASSUME IInv, ClockInv, NEW p \in Running, "met" \notin cut, alone[p], StartedUp(p)
               PROVE  /\ ~rd_cfg_status(0).gps
                      /\ Acquiring(p) /\ cut = {} =>
                           InitBits \subseteq cfg /\ ier /\ (release = "v1_0" \/ rd_cfg_status(0).master)
    BY DEF ClockSourceChosen
  <2>1. p \in Procs /\ todo[p] # << >>
    BY DEF Running
  <2>2. Solo(p)
    BY <2>1 DEF ClockInv
  <2>3. \A x \in Ahead(todo[p]) : x.op \notin {"first", "handler"}
    BY DEF StartedUp, Ahead
  <2>4. "fgps" \in cfg
    BY <2>2, <2>3 DEF Solo, Led
  <2>5. release \in {"v1_0", "v1_2", "v1_3", "v1_5"}
    BY SessionAssumption DEF IInv, TypeInv
  <2>6. rd_cfg_status(0).gps = ("fgps" \notin cfg)
        /\ rd_cfg_status(0).master = ((IF release = "v1_5" THEN "b11" ELSE "b5") \in cfg)
    BY <2>5 DEF rd_cfg_status, V10!rd_cfg_status, V12!rd_cfg_status, V13!rd_cfg_status, V15!rd_cfg_status
  <2>7. ASSUME Acquiring(p), cut = {}
        PROVE  BitsOf(release) \subseteq cfg /\ ier
    <3>1. IsSeq(todo[p]) /\ Clock(release, cmd[p], todo[p])
      BY <2>1 DEF IInv, ProgInv, Program, ClockInv
    <3>2. Len(todo[p]) \in Nat /\ 1 \in 1 .. Len(todo[p]) /\ todo[p][1].op = "loop"
      BY <2>1, <2>7, <3>1, TailParts, SeqParts DEF Acquiring
    <3>3. \A x \in Ahead(todo[p]) : (x.op = "set" => x.arg \notin BitsOf(release)) /\ x.op \notin {"irq", "first"}
      BY <3>1, <3>2 DEF Clock, Ahead
    <3> QED BY <2>2, <2>7, <3>3 DEF Solo, Sets
  <2>8. InitBits = BitsOf(release)
    BY DEF InitBits, BitsOf
  <2>9. release # "v1_0" => (IF release = "v1_5" THEN "b11" ELSE "b5") \in BitsOf(release)
    BY DEF BitsOf
  <2> QED BY <2>4, <2>6, <2>7, <2>8, <2>9
<1> QED BY <1>1, SessionInvariant, ClockInvariant, PTL

-----------------------------------------------------------------------------
(* The settings                                                            *)

\* a write of init_system()
Preset(x) == x.op = "write" /\ x.arg \in {Levels, Samples}

\* the write that command c asks for
Own(r, c, x) ==
  \/ c.what = "write"
  \/ c.what = "set" /\ x.arg = Value(c.reg, c.val)
  \/ c.what = "voltage" /\ x.arg = Value(c.reg, Dac(r, c.val))

\* What is left of main() for command c: registers are written by init_system() or, as
\* its last step, by the command.
Keeps(r, c, s) ==
  \A i \in 1 .. Len(s) :
    s[i].op = "write" => Preset(s[i]) \/ (i + 1 = Len(s) /\ Own(r, c, s[i]))

\* a register has what the operator asked for, a voltage as set_voltage() converts it
Kept(r) ==
  IF r \in HVs THEN want[r] \in Int /\ want[r] <= 2500 /\ regs[r] = Dac(release, want[r])
  ELSE regs[r] = want[r]

\* Registers hold what was asked for; a wish is only made when the clock source bit is
\* set, so that no later first access finds the register 0; and who has the writes of
\* init_system() ahead, outside -i and -w, finds no wish.
KeptInv ==
  /\ DOMAIN want \subseteq DOMAIN regs
  /\ \A p \in Procs : Keeps(release, cmd[p], todo[p])
  /\ "met" \notin cut =>
       /\ \A r \in DOMAIN want : Kept(r)
       /\ DOMAIN want # {} => "fgps" \in cfg
       /\ \A p \in Procs : alone[p] /\ cmd[p].what \notin {"init", "write"}
                           /\ (\E x \in Ahead(todo[p]) : Preset(x)) => DOMAIN want = {}

\* a write of one register is none of init_system()
LEMMA OneRegister ==
    /\ \A r : DOMAIN Levels # {r} /\ DOMAIN Samples # {r}
    /\ \A r, v : DOMAIN Value(r, v) = {r} /\ Value(r, v)[r] = v /\ Value(r, v) \notin {Levels, Samples}
<1>1. \A r : DOMAIN Levels # {r} /\ DOMAIN Samples # {r}
  <2>1. "HV1" \in DOMAIN Levels /\ "HV2" \in DOMAIN Levels
    BY DEF Levels
  <2>2. "NSAMPLES" \in DOMAIN Samples /\ "TR_SCAL_A" \in DOMAIN Samples
    BY DEF Samples
  <2> QED BY <2>1, <2>2
<1>2. \A r, v : DOMAIN Value(r, v) = {r} /\ Value(r, v)[r] = v
  BY DEF Value
<1>3. ASSUME NEW r, NEW v PROVE Value(r, v) \notin {Levels, Samples}
  <2>1. DOMAIN Value(r, v) # DOMAIN Levels /\ DOMAIN Value(r, v) # DOMAIN Samples
    BY <1>1, <1>2
  <2> HIDE DEF Value, Levels, Samples
  <2> QED BY <2>1
<1> QED BY <1>1, <1>2, <1>3

LEMMA BodyKeeps ==
    ASSUME NEW r, NEW c, Command(r, c)
    PROVE  LET b == Body(r, c) IN
           \A i \in 1 .. Len(b) :
             b[i].op = "write" => \/ Preset(b[i]) /\ c.what = "init"
                                  \/ i = Len(b) /\ Own(r, c, b[i]) /\ ~Preset(b[i])
<1> DEFINE b == Body(r, c)
<1>1. c.what \in Whats
  BY DEF Command
<1>2. \A i \in 1 .. Len(b) : b[i] \in BodySteps(r, c)
  BY <1>1, RestShape
<1>3. /\ GetS.op = "get" /\ LoopS.op = "loop"
      /\ \A x : /\ SetS(x).op = "set" /\ ClearS(x).op = "clear" /\ WriteS(x).op = "write"
                /\ WriteS(x).arg = x /\ HgetS(x).op = "hget"
                /\ IrqS(x).op = "irq" /\ ShowS(x).op = "show" /\ PollS(x).op = "poll"
      /\ \A x, n : HputS(x, n).op = "hput"
  BY DEF GetS, LoopS, SetS, ClearS, WriteS, HgetS, IrqS, ShowS, PollS, HputS
<1>4. CASE c.what = "init"
  <2>1. \A x \in BodySteps(r, c) : x.op = "write" => Preset(x)
    BY <1>3, <1>4 DEF BodySteps, InitSteps, Preset
  <2> HIDE DEF b
  <2> QED BY <1>2, <1>4, <2>1 DEF b
<1>5. CASE c.what = "acquire"
  <2>1. \A x \in BodySteps(r, c) : x.op # "write"
    BY <1>3, <1>5 DEF BodySteps, AcquireSteps
  <2> HIDE DEF b
  <2> QED BY <1>2, <1>5, <2>1 DEF b
<1>6. CASE c.what = "histogram"
  <2>1. \A x \in BodySteps(r, c) : x.op # "write"
    BY <1>3, <1>6 DEF BodySteps, HistoSteps
  <2> HIDE DEF b
  <2> QED BY <1>2, <1>6, <2>1 DEF b
<1>7. CASE c.what = "pressure"
  <2>1. BodySteps(r, c) = {}
    BY <1>7 DEF BodySteps
  <2> HIDE DEF b
  <2> QED BY <1>2, <1>7, <2>1 DEF b
<1>8. CASE c.what \in Whats \ {"init", "acquire", "histogram", "pressure"}
  <2> DEFINE x == OneStep(r, c)
  <2>1. b = <<x>>
    BY <1>8 DEF Body
  <2>2. x.op = "write" => Own(r, c, x) /\ ~Preset(x)
    <3>1. CASE c.what = "voltage"
      <4>1. x = WriteS(Value(c.reg, Dac(r, c.val)))
        BY <3>1 DEF OneStep
      <4> HIDE DEF x
      <4> QED BY <1>3, <3>1, <4>1, OneRegister DEF Own, Preset
    <3>2. CASE c.what \in {"write", "set"} /\ c.dev = "cfg"
      <4>1. x = WriteS(Value(c.reg, c.val))
        BY <3>2 DEF OneStep
      <4> HIDE DEF x
      <4> QED BY <1>3, <3>2, <4>1, OneRegister DEF Own, Preset
    <3>3. CASE c.what # "voltage" /\ ~(c.what \in {"write", "set"} /\ c.dev = "cfg")
      <4>1. x.op \in {"show", "irq"}
        BY <1>3, <1>8, <3>3 DEF OneStep, Whats
      <4> QED BY <4>1
    <3> QED BY <3>1, <3>2, <3>3
  <2> HIDE DEF x, b
  <2>4. Len(b) = 1 /\ b[1] = x
    BY <2>1, One
  <2>5. \A i \in 1 .. Len(b) : i = Len(b) /\ b[i] = x
    BY <2>4
  <2> QED BY <1>8, <2>2, <2>5 DEF b
<1> QED BY <1>1, <1>4, <1>5, <1>6, <1>7, <1>8

LEMMA MainKeeps ==
    ASSUME NEW r, NEW c, Command(r, c)
    PROVE  /\ Keeps(r, c, Main(r, c))
           /\ c.what # "init" => \A x \in Ahead(Main(r, c)) : ~Preset(x)
<1> DEFINE p == Preamble(r)
           b == Body(r, c)
           e == Rest(r, c)
           m == Main(r, c)
<1>1. /\ Len(p) \in Nat /\ Len(e) \in Nat /\ Len(m) = Len(p) + Len(e)
      /\ \A i \in 1 .. Len(p) : m[i] = p[i]
      /\ \A i \in Len(p) + 1 .. Len(m) : i - Len(p) \in 1 .. Len(e) /\ m[i] = e[i - Len(p)]
      /\ \A i \in 1 .. Len(e) : i + Len(p) \in Len(p) + 1 .. Len(m) /\ m[i + Len(p)] = e[i]
  BY MainAt DEF Command
<1>2. IsSeq(p) /\ \A i \in 1 .. Len(p) : p[i].op \in Opening \cup {"first", "handler"}
  BY PreambleShape
<1>3. /\ IsSeq(e) /\ Len(b) \in Nat /\ Len(e) = Len(b) + 1 /\ e[Len(e)].op = "end"
      /\ \A i \in 1 .. Len(b) : e[i] = b[i]
  BY RestShape DEF Command
<1>4. \A i \in 1 .. Len(b) :
        b[i].op = "write" => \/ Preset(b[i]) /\ c.what = "init"
                             \/ i = Len(b) /\ Own(r, c, b[i]) /\ ~Preset(b[i])
  BY BodyKeeps
<1> HIDE DEF p, b, e, m
<1>8. ASSUME NEW i \in 1 .. Len(m), m[i].op = "write"
      PROVE  i - Len(p) \in 1 .. Len(b) /\ m[i] = b[i - Len(p)]
  <2>1. i \notin 1 .. Len(p)
    BY <1>1, <1>2, <1>8 DEF Opening
  <2>2. i - Len(p) \in 1 .. Len(e) /\ m[i] = e[i - Len(p)]
    BY <1>1, <2>1
  <2> DEFINE k == i - Len(p)
  <2>3. k \in 1 .. Len(e) /\ m[i] = e[k]
    BY <2>2
  <2> HIDE DEF k
  <2>4. k # Len(e)
    BY <1>3, <1>8, <2>3
  <2>5. k \in 1 .. Len(b)
    BY <1>3, <2>3, <2>4
  <2> QED BY <1>3, <2>3, <2>5 DEF k
<1>9. ASSUME NEW i \in 1 .. Len(m)
      PROVE  m[i].op = "write" => \/ Preset(m[i]) /\ c.what = "init"
                                  \/ i + 1 = Len(m) /\ Own(r, c, m[i]) /\ ~Preset(m[i])
  <2> DEFINE k == i - Len(p)
  <2>1. k = Len(b) => i + 1 = Len(m)
    BY <1>1, <1>3
  <2>2. m[i].op = "write" => k \in 1 .. Len(b) /\ m[i] = b[k]
    BY <1>8
  <2> HIDE DEF k
  <2> QED BY <1>4, <2>1, <2>2
<1>11. ASSUME c.what # "init", NEW x \in Ahead(m) PROVE ~Preset(x)
  <2>1. PICK i \in 1 .. Len(m) : x = m[i]
    BY DEF Ahead
  <2> QED BY <1>9, <1>11, <2>1 DEF Preset
<1> QED BY <1>9, <1>11 DEF Keeps, m

LEMMA KeepsTail ==
    ASSUME NEW r, NEW c, NEW s, IsSeq(s), s # << >>, Keeps(r, c, s)
    PROVE  Keeps(r, c, Tail(s))
<1> DEFINE t == Tail(s)
<1>1. /\ Len(s) \in Nat /\ Len(s) >= 1 /\ Len(t) = Len(s) - 1
      /\ \A i \in 1 .. Len(s) - 1 : t[i] = s[i + 1]
  BY TailParts, SeqParts
<1> HIDE DEF t
<1> SUFFICES ASSUME NEW i \in 1 .. Len(t)
             PROVE  t[i].op = "write" => Preset(t[i]) \/ (i + 1 = Len(t) /\ Own(r, c, t[i]))
  BY DEF Keeps, t
<1>3. i + 1 \in 1 .. Len(s) /\ t[i] = s[i + 1] /\ ((i + 1) + 1 = Len(s) => i + 1 = Len(t))
  BY <1>1
<1>4. s[i + 1].op = "write" => Preset(s[i + 1]) \/ ((i + 1) + 1 = Len(s) /\ Own(r, c, s[i + 1]))
  BY <1>3 DEF Keeps
<1> QED BY <1>3, <1>4

LEMMA KeepsExpand ==
    ASSUME NEW r, NEW c, NEW s, IsSeq(s), s # << >>, Keeps(r, c, s)
    PROVE  Keeps(r, c, FirstArg(r) \o Tail(s))
<1> DEFINE a == FirstArg(r)
           t == Tail(s)
           u == a \o t
<1>1. a \in Seq(InitSteps(r)) /\ \A i \in 1 .. Len(a) : a[i] \in InitSteps(r)
  <2>1. Block(InitSteps(r), a, BitsOf(r), Cleared, BitsOf(r))
    BY FirstBlock
  <2> HIDE DEF a
  <2> QED BY <2>1 DEF Block
<1>2. ASSUME NEW x \in InitSteps(r)
      PROVE  x.op = "write" => Preset(x)
  <2>1. /\ GetS.op = "get"
        /\ \A b : /\ SetS(b).op = "set" /\ ClearS(b).op = "clear" /\ IrqS(b).op = "irq"
                  /\ WriteS(b).op = "write" /\ WriteS(b).arg = b
    BY DEF GetS, SetS, ClearS, WriteS, IrqS
  <2> QED BY <2>1 DEF InitSteps, Preset
<1>3. Keeps(r, c, t) /\ IsSeq(t)
  BY KeepsTail, TailParts
<1> HIDE DEF a, t
<1>4. IsSeq(a) /\ \A i \in 1 .. Len(a) : a[i].op = "write" => Preset(a[i])
  BY <1>1, <1>2, Narrow
<1>5. /\ Len(a) \in Nat /\ Len(t) \in Nat /\ Len(u) = Len(a) + Len(t)
      /\ \A i \in 1 .. Len(a) : u[i] = a[i]
      /\ \A i \in Len(a) + 1 .. Len(a) + Len(t) : u[i] = t[i - Len(a)]
  <2>1. IsSeq(a) /\ IsSeq(t)
    BY <1>3, <1>4
  <2> QED BY <2>1, Cat, SeqParts
<1> HIDE DEF u
<1> SUFFICES ASSUME NEW i \in 1 .. Len(u)
             PROVE  u[i].op = "write" => Preset(u[i]) \/ (i + 1 = Len(u) /\ Own(r, c, u[i]))
  BY DEF Keeps, u, a, t
<1>7. CASE i \in 1 .. Len(a)
  BY <1>4, <1>5, <1>7
<1>8. CASE i \in Len(a) + 1 .. Len(a) + Len(t)
  <2> DEFINE k == i - Len(a)
  <2>1. k \in 1 .. Len(t) /\ u[i] = t[k] /\ (k + 1 = Len(t) => i + 1 = Len(u))
    BY <1>5, <1>8
  <2> HIDE DEF k
  <2>2. t[k].op = "write" => Preset(t[k]) \/ (k + 1 = Len(t) /\ Own(r, c, t[k]))
    BY <1>3, <2>1 DEF Keeps
  <2> QED BY <2>1, <2>2
<1> QED BY <1>5, <1>7, <1>8

LEMMA KeepsMoved ==
    ASSUME IInv, ClockInv, KeptInv, NEW p \in Procs, NEW op, op # "end", At(p, op), Goes(p),
           UNCHANGED <<release, cmd, alone>>
    PROVE  /\ \A q \in Procs : Keeps(release', cmd'[q], todo'[q])
           /\ \A q \in Procs : alone'[q] => q = p
<1>1. /\ IsSeq(todo[p]) /\ todo[p] # << >> /\ todo'[p] = Tail(todo[p])
      /\ \A q \in Procs \ {p} : todo'[q] = todo[q]
  BY ClockMoved
<1>2. \A q \in Procs : Keeps(release, cmd[q], todo[q])
  BY DEF KeptInv
<1>3. Keeps(release, cmd[p], todo'[p])
  BY <1>1, <1>2, KeepsTail
<1>4. \A q \in Procs : Keeps(release', cmd'[q], todo'[q])
  BY <1>1, <1>2, <1>3
<1>5. \A q \in Procs : alone'[q] => q = p
  BY <1>1 DEF IInv, ProgInv
<1> QED BY <1>4, <1>5

\* steps that write no setting
LEMMA CalmKept ==
    ASSUME IInv, ClockInv, KeptInv, NEW p \in Procs, NEW op, op # "end",
           At(p, op), Goes(p), UNCHANGED <<release, cmd, alone, regs, want>>,
           "met" \notin cut' => "met" \notin cut,
           "met" \notin cut /\ "fgps" \in cfg => "fgps" \in cfg'
    PROVE  KeptInv'
<1>1. Ahead(todo'[p]) \subseteq Ahead(todo[p])
  BY ClockMoved
<1>2. /\ \A q \in Procs : Keeps(release', cmd'[q], todo'[q])
      /\ \A q \in Procs : alone'[q] => q = p
  BY KeepsMoved
<1>3. \A r : Kept(r)' <=> Kept(r)
  BY DEF Kept
<1> QED BY <1>1, <1>2, <1>3 DEF KeptInv

\* the clock source bit survives every write of the register
LEMMA FgpsStays ==
    ASSUME IInv, ClockInv, NEW p \in Procs, WriteGral(p), "met" \notin cut, "fgps" \in cfg
    PROVE  "fgps" \in cfg'
<1>1. /\ todo[p] # << >> /\ Head(todo[p]).op \in {"set", "clear"}
      /\ cfg' = IF Head(todo[p]).op = "set" THEN got[p] \cup {Arg(p)} ELSE got[p] \ {Arg(p)}
  BY DEF WriteGral, At
<1>2. IsSeq(todo[p])
  BY DEF IInv, ProgInv, Program
<1>3. Head(todo[p]) = todo[p][1] /\ 1 \in 1 .. Len(todo[p])
  BY <1>1, <1>2, TailParts, SeqParts
<1>4. Head(todo[p]).op = "clear" => Arg(p) # "fgps"
  BY <1>3 DEF ClockInv, Clock, Arg
<1>5. "fgps" \in got[p]
  <2>1. CASE alone[p]
    BY <1>1, <1>3, <2>1 DEF IInv, LinkInv, Head1
  <2>2. CASE ~alone[p]
    BY <1>1, <1>3, <2>2 DEF ClockInv, Mixed, Head1, BitsOf
  <2> QED BY <2>1, <2>2
<1> QED BY <1>1, <1>4, <1>5

LEMMA WriteRegsKept ==
    ASSUME IInv, ClockInv, KeptInv, NEW p \in Procs, WriteRegs(p)
    PROVE  KeptInv'
<1> DEFINE s == todo[p]
           x == s[1]
           c == cmd[p]
           a == x.arg
<1>1. /\ At(p, "write") /\ Goes(p) /\ UNCHANGED <<release, cmd, alone, cfg, hst, cut>>
  BY DEF WriteRegs
<1>2. /\ IsSeq(s) /\ s # << >> /\ x.op = "write" /\ Ahead(todo'[p]) \subseteq Ahead(s)
      /\ todo'[p] = Tail(s) /\ \A y \in Ahead(s) : y = x \/ y \in Ahead(todo'[p])
  BY <1>1, ClockMoved
<1>3. /\ \A q \in Procs : Keeps(release', cmd'[q], todo'[q])
      /\ \A q \in Procs : alone'[q] => q = p
  BY <1>1, KeepsMoved
<1>4. Head(s) = x /\ 1 \in 1 .. Len(s) /\ x \in Ahead(s) /\ Len(s) \in Nat
  BY <1>2, TailParts, SeqParts DEF Ahead
<1>5. Arg(p) = a
  BY <1>4 DEF Arg
<1>6. Preset(x) \/ (1 + 1 = Len(s) /\ Own(release, c, x))
  BY <1>2, <1>4 DEF KeptInv, Keeps
<1>7. Command(release, c)
  BY <1>2 DEF IInv, ProgInv
<1>9. /\ DOMAIN regs' = DOMAIN regs \cup DOMAIN a
      /\ \A r \in DOMAIN a : regs'[r] = a[r]
      /\ \A r \in DOMAIN regs \ DOMAIN a : regs'[r] = regs[r]
  BY <1>5 DEF WriteRegs, Override
<1>10. want' = IF alone[p] /\ DOMAIN a = {c.reg} /\ c.what # "write"
               THEN Override(want, Value(c.reg, c.val))
               ELSE IF alone[p] /\ c.what \notin {"init", "write"} THEN want
               ELSE [r \in DOMAIN want \ DOMAIN a |-> want[r]]
  BY <1>5 DEF WriteRegs
<1>11. DOMAIN want \subseteq DOMAIN regs
  BY DEF KeptInv
<1> HIDE DEF a, c, x, s
\* the claims that "met" \notin cut guards
<1> DEFINE Claims == /\ \A r \in DOMAIN want : Kept(r)
                     /\ DOMAIN want # {} => "fgps" \in cfg
                     /\ alone[p] /\ c.what \notin {"init", "write"} /\ (\E y \in Ahead(s) : Preset(y)) => DOMAIN want = {}
<1>12. "met" \notin cut => Claims
  BY DEF KeptInv, s, c
<1>13. ASSUME DOMAIN want' \subseteq DOMAIN regs', "met" \notin cut => Claims' PROVE KeptInv'
  BY <1>1, <1>3, <1>13 DEF KeptInv, s, c
\* -s writes its register
<1>14. CASE alone[p] /\ DOMAIN a = {c.reg} /\ c.what # "write"
  <2>1. ~Preset(x)
    BY <1>14, OneRegister DEF Preset, a
  <2>2. 1 + 1 = Len(s) /\ \/ c.what = "set" /\ a = Value(c.reg, c.val)
                          \/ c.what = "voltage" /\ a = Value(c.reg, Dac(release, c.val))
    BY <1>6, <1>14, <2>1 DEF Own, a
  <2> PICK g : g = c.reg
    OBVIOUS
  <2>3. /\ DOMAIN Value(g, c.val) = {g} /\ Value(g, c.val)[g] = c.val
        /\ DOMAIN Value(g, Dac(release, c.val)) = {g}
        /\ Value(g, Dac(release, c.val))[g] = Dac(release, c.val)
    BY OneRegister
  <2>4. /\ DOMAIN want' = DOMAIN want \cup {g} /\ want'[g] = c.val
        /\ \A r \in DOMAIN want \ {g} : want'[r] = want[r]
    BY <1>10, <1>14, <2>3 DEF Override
  <2>5. regs'[g] = (IF c.what = "set" THEN c.val ELSE Dac(release, c.val)) /\ DOMAIN a = {g}
    BY <1>9, <2>2, <2>3
  <2>6. Kept(g)'
    <3>1. \/ c.what = "set" /\ g \notin HVs
          \/ c.what = "voltage" /\ g \in HVs /\ c.val \in Int /\ c.val <= 2500
      BY <1>7, <2>2 DEF Command
    <3> QED BY <1>1, <2>4, <2>5, <3>1 DEF Kept
  <2>7. ASSUME \A r \in DOMAIN want : Kept(r) PROVE \A r \in DOMAIN want' : Kept(r)'
    <3> SUFFICES ASSUME NEW r \in DOMAIN want, r # g PROVE Kept(r)'
      BY <2>4, <2>6
    <3>1. want'[r] = want[r] /\ regs'[r] = regs[r] /\ Kept(r)
      BY <1>9, <1>11, <2>4, <2>5, <2>7
    <3> QED BY <1>1, <3>1 DEF Kept
  <2>8. \A y \in Ahead(todo'[p]) : y.op = "end"
    <3>1. Program(release, s)
      BY DEF IInv, ProgInv, s
    <3>2. Len(todo'[p]) = 1 /\ todo'[p][1] = s[2] /\ s[Len(s)].op = "end" /\ Len(s) = 2
      BY <1>2, <1>4, <2>2, <3>1, TailParts DEF Program
    <3> QED BY <3>2 DEF Ahead
  <2>9. "met" \notin cut => "fgps" \in cfg
    <3>1. \A y \in Ahead(s) : y.op \in {"write", "end"}
      BY <1>2, <2>8
    <3>2. "met" \notin cut => Solo(p)
      BY <1>14 DEF ClockInv
    <3> QED BY <3>1, <3>2 DEF Solo, Led, s
  <2>10. DOMAIN want' \subseteq DOMAIN regs'
    BY <1>9, <1>11, <2>4, <2>5
  <2>11. ~ \E y \in Ahead(todo'[p]) : Preset(y)
    BY <2>8 DEF Preset
  <2>12. "met" \notin cut => Claims'
    BY <1>1, <1>12, <2>7, <2>9, <2>11 DEF s
  <2> QED BY <1>13, <2>10, <2>12
\* init_system() writes at the first access
<1>15. CASE alone[p] /\ c.what \notin {"init", "write"} /\ DOMAIN a # {c.reg}
  <2>1. want' = want
    BY <1>10, <1>15
  <2>2. Preset(x)
    <3>1. Own(release, c, x) => a = Value(c.reg, c.val) \/ a = Value(c.reg, Dac(release, c.val))
      BY <1>15 DEF Own, a
    <3>2. DOMAIN Value(c.reg, c.val) = {c.reg} /\ DOMAIN Value(c.reg, Dac(release, c.val)) = {c.reg}
      BY OneRegister
    <3> QED BY <1>6, <1>15, <3>1, <3>2
  <2>3. "met" \notin cut => DOMAIN want = {}
    BY <1>4, <1>12, <1>15, <2>2
  <2> QED BY <1>9, <1>11, <1>13, <2>1, <2>3
\* the claim ends
<1>16. CASE want' = [r \in DOMAIN want \ DOMAIN a |-> want[r]]
  <2>1. DOMAIN want' = DOMAIN want \ DOMAIN a /\ \A r \in DOMAIN want' : want'[r] = want[r]
    BY <1>16
  <2>2. ASSUME NEW r \in DOMAIN want', Kept(r) PROVE Kept(r)'
    <3>1. want'[r] = want[r] /\ regs'[r] = regs[r]
      BY <1>9, <1>11, <2>1
    <3> QED BY <1>1, <2>2, <3>1 DEF Kept
  <2>3. DOMAIN want' \subseteq DOMAIN regs'
    BY <1>9, <1>11, <2>1
  <2>4. "met" \notin cut => Claims'
    BY <1>1, <1>2, <1>12, <2>1, <2>2 DEF s, c
  <2> QED BY <1>13, <2>3, <2>4
<1> QED BY <1>10, <1>14, <1>15, <1>16

LEMMA FirstAccessKept ==
    ASSUME IInv, ClockInv, KeptInv, NEW p \in Procs, FirstAccess(p)
    PROVE  KeptInv'
<1> DEFINE s == todo[p]
           a == FirstArg(release)
           t == todo'[p]
<1>1. /\ At(p, "first") /\ UNCHANGED <<release, cfg, regs, hst, cmd, cut, alone, want>>
      /\ todo' = [todo EXCEPT ![p] = (IF First THEN Arg(p) ELSE << >>) \o Tail(s)]
  BY DEF FirstAccess, history, board
<1>2. s # << >> /\ Head(s).op = "first" /\ IsSeq(s) /\ Program(release, s)
  BY <1>1 DEF At, IInv, ProgInv, Program
<1>3. Head(s) = s[1] /\ 1 \in 1 .. Len(s)
  BY <1>2, TailParts, SeqParts
<1>4. Arg(p) = a
  BY <1>2, <1>3 DEF Arg, Program
<1>5. t = IF cfg = {} THEN a \o Tail(s) ELSE << >> \o Tail(s)
  BY <1>1, <1>4 DEF IInv, TypeInv, First
<1>6. \A q \in Procs \ {p} : todo'[q] = todo[q]
  BY <1>1 DEF IInv, TypeInv
<1>7. << >> \o Tail(s) = Tail(s) /\ IsSeq(Tail(s))
  <2>1. IsSeq(Tail(s))
    BY <1>2, TailParts
  <2> QED BY <2>1 DEF IsSeq
<1>8. Keeps(release, cmd[p], t)
  <2>1. Keeps(release, cmd[p], s)
    BY DEF KeptInv
  <2>2. Keeps(release, cmd[p], Tail(s)) /\ Keeps(release, cmd[p], a \o Tail(s))
    BY <1>2, <2>1, KeepsTail, KeepsExpand
  <2> QED BY <1>5, <1>7, <2>2
<1>9. /\ Ahead(Tail(s)) \subseteq Ahead(s) /\ \A x \in Ahead(s) : x = s[1] \/ x \in Ahead(Tail(s))
  BY <1>2, AheadTail
<1>11. \A q \in Procs : alone[q] => q = p
  BY <1>2 DEF IInv, ProgInv
<1>13. ASSUME "met" \notin cut, alone[p], cmd[p].what \notin {"init", "write"}, \E x \in Ahead(t) : Preset(x)
       PROVE  DOMAIN want = {}
  <2>1. CASE cfg = {}
    BY <1>13, <2>1 DEF KeptInv
  <2>2. CASE cfg # {}
    <3>1. \E x \in Ahead(s) : Preset(x)
      BY <1>5, <1>7, <1>9, <1>13, <2>2
    <3> QED BY <1>13, <3>1 DEF KeptInv
  <2> QED BY <2>1, <2>2
<1>14. \A r : Kept(r)' <=> Kept(r)
  BY <1>1 DEF Kept
<1>15. \A q \in Procs : Keeps(release', cmd'[q], todo'[q])
  BY <1>1, <1>6, <1>8 DEF KeptInv
<1> HIDE DEF s, a
<1> QED BY <1>1, <1>11, <1>13, <1>14, <1>15 DEF KeptInv

LEMMA EndKept ==
    ASSUME IInv, KeptInv, NEW p \in Procs, Exit(p) \/ Kill(p) \/ Segv(p)
    PROVE  KeptInv'
<1>1. todo[p] # << >> /\ Gone(p) /\ UNCHANGED <<release, cfg, regs, hst, want>>
  BY DEF Exit, Kill, Segv, Dies, At, Running, board
<1>2. /\ todo'[p] = << >> /\ \A q \in Procs : ~alone'[q]
      /\ \A q \in Procs \ {p} : todo'[q] = todo[q] /\ cmd'[q] = cmd[q]
  BY <1>1 DEF Gone, IInv, TypeInv, ProgInv
<1>3. \A q \in Procs : Keeps(release', cmd'[q], todo'[q])
  <2>1. \A c : Keeps(release, c, << >>)
    BY DEF Keeps
  <2> QED BY <1>1, <1>2, <2>1 DEF KeptInv
<1>4. "met" \notin cut' => "met" \notin cut
  BY DEF Exit, Kill, Segv, Dies
<1>5. \A r : Kept(r)' <=> Kept(r)
  BY <1>1 DEF Kept
<1> QED BY <1>1, <1>2, <1>3, <1>4, <1>5 DEF KeptInv

LEMMA StartKept ==
    ASSUME IInv, KeptInv, NEW p \in Procs, NEW argv \in Commands, Start(p, argv)
    PROVE  KeptInv'
<1> DEFINE c == parse_param(argv)
           m == Main(release, c)
<1>1. /\ todo[p] = << >> /\ UNCHANGED <<release, cfg, regs, hst, want>>
  BY DEF Start, Running, board
<1>2. \A r : Kept(r)' <=> Kept(r)
  BY <1>1 DEF Kept
<1>3. CASE c.what \in {"usage", "crash", "error"}
  <2>1. UNCHANGED <<cmd, todo, alone, cut>>
    BY <1>3 DEF Start
  <2> QED BY <1>1, <1>2, <2>1 DEF KeptInv
<1>4. CASE c.what \notin {"usage", "crash", "error"}
  <2>1. Command(release, c)
    BY <1>4, Parsed DEF IInv, TypeInv
  <2>2. main(c) = m
    BY <2>1, Mains DEF IInv, TypeInv
  <2>3. /\ Keeps(release, c, m)
        /\ c.what # "init" => \A x \in Ahead(m) : ~Preset(x)
    BY <2>1, MainKeeps
  <2>4. /\ cmd' = [cmd EXCEPT ![p] = c] /\ todo' = [todo EXCEPT ![p] = m]
        /\ alone' = [q \in Procs |-> q = p /\ Running = {}]
        /\ "met" \notin cut' => "met" \notin cut
    BY <1>4, <2>2 DEF Start
  <2> HIDE DEF c, m
  <2>5. /\ todo'[p] = m /\ cmd'[p] = c
        /\ \A q \in Procs \ {p} : todo'[q] = todo[q] /\ cmd'[q] = cmd[q]
        /\ \A q \in Procs : alone'[q] => q = p
    BY <2>4 DEF IInv, TypeInv
  <2>6. \A q \in Procs : Keeps(release', cmd'[q], todo'[q])
    BY <1>1, <2>3, <2>5 DEF KeptInv
  <2> QED BY <1>1, <1>2, <2>3, <2>4, <2>5, <2>6 DEF KeptInv
<1> QED BY <1>3, <1>4

LEMMA InitKept == Init => KeptInv
<1> SUFFICES ASSUME Init PROVE KeptInv
  OBVIOUS
<1>1. \A p \in Procs : todo[p] = << >> /\ ~alone[p]
  BY DEF Init
<1>2. \A r, c : Keeps(r, c, << >>)
  BY DEF Keeps
<1>3. DOMAIN want = {}
  BY DEF Init
<1> QED BY <1>1, <1>2, <1>3 DEF KeptInv

LEMMA NextKept == IInv /\ ClockInv /\ KeptInv /\ [Next]_vars => KeptInv'
<1> SUFFICES ASSUME IInv, ClockInv, KeptInv, [Next]_vars PROVE KeptInv'
  OBVIOUS
<1>1. CASE UNCHANGED vars
  <2>1. UNCHANGED <<release, cfg, regs, hst, cmd, todo, cut, alone, want>>
    BY <1>1 DEF vars, board, process, history
  <2>2. \A r : Kept(r)' <=> Kept(r)
    BY <2>1 DEF Kept
  <2> QED BY <2>1, <2>2 DEF KeptInv
<1>2. CASE Next
  <2>1. PICK p \in Procs : \/ \E argv \in Commands : Start(p, argv)
                           \/ Execute(p) \/ Kill(p) \/ Segv(p)
    BY <1>2 DEF Next
  <2>2. CASE \E argv \in Commands : Start(p, argv)
    BY <2>2, StartKept
  <2>3. CASE Exit(p) \/ Kill(p) \/ Segv(p)
    BY <2>3, EndKept
  <2>4. CASE FirstAccess(p)
    BY <2>4, FirstAccessKept
  <2>5. CASE WriteRegs(p)
    BY <2>5, WriteRegsKept
  <2>7. CASE WriteGral(p)
    <3>1. "met" \notin cut /\ "fgps" \in cfg => "fgps" \in cfg'
      BY <2>7, FgpsStays
    <3>2. Goes(p) /\ UNCHANGED <<release, cmd, alone, regs, hst, want, cut>>
      BY <2>7 DEF WriteGral
    <3>3. At(p, "set") \/ At(p, "clear")
      BY <2>7 DEF WriteGral
    <3> QED BY <3>1, <3>2, <3>3, CalmKept
  <2>8. CASE \/ MapDevices(p) \/ (\E a \in Addrs : cma_ioctl(p, a)) \/ cma_ioctl_fails(p)
             \/ WriteAddress(p) \/ ReadGral(p) \/ ReadLimit(p) \/ WriteLimit(p) \/ Poll(p)
             \/ EnableInterrupt(p) \/ Silent(p)
    <3>1. /\ Goes(p) /\ UNCHANGED <<release, cfg, regs, cmd, alone, want>>
          /\ "met" \notin cut' => "met" \notin cut
      BY <2>8 DEF MapDevices, cma_ioctl, cma_ioctl_fails, WriteAddress, ReadGral, ReadLimit, WriteLimit, Poll,
                  EnableInterrupt, Silent, board, history
    <3>2. PICK op \in {"map", "alloc", "addr", "get", "hget", "hput", "poll", "irq", "show", "loop", "handler"} : At(p, op)
      BY <2>8 DEF MapDevices, cma_ioctl, cma_ioctl_fails, WriteAddress, ReadGral, ReadLimit, WriteLimit, Poll,
                  EnableInterrupt, Silent
    <3> QED BY <3>1, <3>2, CalmKept
  <2> QED BY <2>1, <2>2, <2>3, <2>4, <2>5, <2>7, <2>8 DEF Execute
<1> QED BY <1>1, <1>2

\* However invocations follow, are killed or meet: as long as no initialisation met
\* another invocation, every setting that was asked for is in its register, the clock
\* source bit guards it from the next first-access test, and no write of init_system()
\* is ahead that could overwrite it unasked.
THEOREM KeptInvariant == Spec => []KeptInv
<1>1. IInv /\ ClockInv /\ KeptInv /\ [Next]_vars => KeptInv'
  BY NextKept
<1> QED BY <1>1, InitKept, SessionInvariant, ClockInvariant, PTL DEF Spec

-----------------------------------------------------------------------------
(* The two conversions of a voltage                                        *)

\* near is within a millivolt
LEMMA IsNear ==
    ASSUME NEW y \in Int, NEW v \in Int, y - 10000 * v <= 10000, y - 10000 * v >= -10000
    PROVE  Near(y, v)
BY DEF Near

\* the files of lago_v1_0 state the voltage that its set_voltage() was given
LEMMA Calibration145 ==
    ASSUME NEW v \in Int, v >= 8, v <= 2500
    PROVE  Near(Gain145(Dac("v1_0", v)), v)
<1>1. PICK d \in Int : /\ d = Dac("v1_0", v)
                       /\ 1000 * d <= (v - 5) * 26174 /\ (v - 5) * 26174 < 1000 * d + 1000
  BY DEF Dac
<1>2. PICK e \in Int : e = (61 * d) \div 1000 /\ 1000 * e <= 61 * d /\ 61 * d < 1000 * e + 1000
  OBVIOUS
<1>3. PICK y \in Int : y = 382 * d + e + 41144
  OBVIOUS
<1>4. Gain145(d) = y
  BY <1>2, <1>3 DEF Gain145
<1>5. y - 10000 * v <= 10000
  <2>1. 1000 * (382 * d + e) <= 382061 * d
    BY <1>2
  <2>2. 1000 * (382061 * d) <= 382061 * ((v - 5) * 26174)
    BY <1>1
  <2> QED BY <1>3, <2>1, <2>2
<1>6. y - 10000 * v >= -10000
  <2>1. 1000 * (382 * d + e) >= 382061 * d - 1000
    BY <1>2
  <2>2. 1000 * (382061 * d) >= 382061 * ((v - 5) * 26174 - 1000)
    BY <1>1
  <2> QED BY <1>3, <2>1, <2>2
<1>7. Near(y, v)
  BY <1>5, <1>6, IsNear
<1> QED BY <1>1, <1>4, <1>7

\* so do the files and -a of the releases since
LEMMA Calibration32 ==
    ASSUME NEW r, r # "v1_0", NEW v \in Int, v >= 8, v <= 2500
    PROVE  Near(Gain32(Dac(r, v)), v)
<1> DEFINE d == ((v - 8) * 11338) \div 1000
<1>1. Dac(r, v) = d
  BY DEF Dac
<1>2. d \in Int /\ 1000 * d <= (v - 8) * 11338 /\ (v - 8) * 11338 < 1000 * d + 1000
  OBVIOUS
<1> HIDE DEF d
<1>3. PICK y \in Int : y = 882 * d + 77352
  BY <1>2
<1>4. y - 10000 * v <= 10000 /\ y - 10000 * v >= -10000
  BY <1>2, <1>3
<1>5. Near(y, v)
  BY <1>4, IsNear
<1> QED BY <1>1, <1>3, <1>5 DEF Gain32

\* the head of a data file, and -a
LEMMA FileHead ==
    ASSUME release \in Releases
    PROVE  /\ \A r \in DOMAIN new_file \ HVs : new_file[r] = regs[r]
           /\ \A r \in DOMAIN new_file \cap HVs :
                new_file[r] = IF release = "v1_0" THEN Gain145(regs[r]) ELSE Gain32(regs[r])
           /\ \A hv : release # "v1_0" => rd_cfg_status(hv).voltage = Gain32(hv)
<1> DEFINE F(g(_)) == [TRLVL_1 |-> regs["TRLVL_1"], TRLVL_2 |-> regs["TRLVL_2"],
                       HV1 |-> g(regs["HV1"]), HV2 |-> g(regs["HV2"]),
                       TR_SCAL_A |-> regs["TR_SCAL_A"], TR_SCAL_B |-> regs["TR_SCAL_B"]]
<1>1. release \in {"v1_0", "v1_2", "v1_3", "v1_5"}
  BY SessionAssumption
<1>2. new_file = IF release = "v1_0" THEN F(Gain145) ELSE F(Gain32)
  BY <1>1 DEF new_file, V10!new_file, V12!new_file, V13!new_file, V15!new_file, V10!Gain145, V12!Gain32,
              V13!Gain32, V15!Gain32, Gain145, Gain32
<1>3. \A hv : release # "v1_0" => rd_cfg_status(hv).voltage = Gain32(hv)
  BY <1>1 DEF rd_cfg_status, V12!rd_cfg_status, V13!rd_cfg_status, V15!rd_cfg_status, V12!Gain32, V13!Gain32,
              V15!Gain32, Gain32
<1>4. CASE release = "v1_0"
  <2>1. new_file = F(Gain145)
    BY <1>2, <1>4
  <2> QED BY <1>4, <2>1 DEF HVs
<1>5. CASE release # "v1_0"
  <2>1. new_file = F(Gain32)
    BY <1>2, <1>5
  <2> QED BY <1>3, <1>5, <2>1 DEF HVs
<1> QED BY <1>4, <1>5

\* What the operator sets stays set, over any later invocations, kills and failed devices,
\* until -s, -w, -i or an overlapping write, and the files and -a state it within 1 mV.
THEOREM SettingsAreKept == Spec => []SettingsKept
<1>1. IInv /\ KeptInv => SettingsKept
  <2> SUFFICES ASSUME IInv, KeptInv PROVE SettingsKept
    OBVIOUS
  <2>1. release \in Releases
    BY DEF IInv, TypeInv
  <2>2. ASSUME "met" \notin cut, NEW r \in DOMAIN want, r \notin HVs
        PROVE  regs[r] = want[r] /\ (r \in DOMAIN new_file => new_file[r] = want[r])
    <3>1. regs[r] = want[r]
      BY <2>2 DEF KeptInv, Kept
    <3> QED BY <2>1, <2>2, <3>1, FileHead
  <2>3. ASSUME "met" \notin cut, NEW r \in DOMAIN want, r \in HVs, ~(want[r] < 8)
        PROVE  /\ r \in DOMAIN new_file => Near(new_file[r], want[r])
               /\ release = "v1_0" \/ Near(rd_cfg_status(regs[r]).voltage, want[r])
    <3>1. want[r] \in Int /\ want[r] <= 2500 /\ regs[r] = Dac(release, want[r])
      BY <2>3 DEF KeptInv, Kept
    <3>2. want[r] >= 8
      BY <2>3, <3>1
    <3>3. /\ release = "v1_0" => Near(Gain145(regs[r]), want[r])
          /\ release # "v1_0" => Near(Gain32(regs[r]), want[r])
      BY <3>1, <3>2, Calibration145, Calibration32
    <3>4. r \in DOMAIN new_file =>
            new_file[r] = IF release = "v1_0" THEN Gain145(regs[r]) ELSE Gain32(regs[r])
      BY <2>1, <2>3, FileHead
    <3>5. release # "v1_0" => rd_cfg_status(regs[r]).voltage = Gain32(regs[r])
      BY <2>1, FileHead
    <3> QED BY <3>3, <3>4, <3>5
  <2> QED BY <2>2, <2>3 DEF SettingsKept, HVs
<1> QED BY <1>1, SessionInvariant, KeptInvariant, PTL
=============================================================================
