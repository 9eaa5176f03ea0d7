-------------------------- MODULE SdafCommandProofs --------------------------
(***************************************************************************)
(* Proofs about SdafOwnership and SdafCommand.  Every block sdaf_decode    *)
(* allocates has one owner at every step of every parse function, whatever *)
(* the counts in the file; the command has released all of them when it    *)
(* exits, and its exit code tells the truth; and every dump it writes is   *)
(* well formed, whatever the document.                                     *)
(*                                                                         *)
(* A parse function is a sequence of operations put together from parts    *)
(* and from loops, and a dump is such a sequence of tokens.  "Leads" says  *)
(* that a sequence leads from one state (of the call, of a reader of the   *)
(* dump) to another, and that every operation on the way finds what it     *)
(* relies on; its rules follow the way the sequences are put together.     *)
(***************************************************************************)
EXTENDS SdafCommand, SequenceTheorems, WellFoundedInduction, TLAPS

-----------------------------------------------------------------------------
(* Sequences and loops. *)

IsSeq(s) == \E S : s \in Seq(S)

(***************************************************************************)
(* Induction over the natural numbers, for a set.                          *)
(***************************************************************************)
LEMMA SetInduction ==
  ASSUME NEW S, 0 \in S, \A n \in Nat : n \in S => n + 1 \in S
  PROVE  \A n \in Nat : n \in S
<1> DEFINE T == {n \in Nat : n \notin S}
<1>1. SUFFICES T = {}
  OBVIOUS
<1>2. SUFFICES ASSUME T # {} PROVE FALSE
  OBVIOUS
<1>3. T \subseteq Nat
  OBVIOUS
<1>4. PICK x \in T : \A y \in T : <<y, x>> \notin OpToRel(<, Nat)
  BY <1>2, <1>3, NatLessThanWellFounded, WFMin
<1>5. \A y \in T : ~(y < x)
  BY <1>3, <1>4 DEF OpToRel
<1>6. x # 0 /\ x \in Nat
  OBVIOUS
<1>7. x - 1 \in Nat /\ x - 1 < x
  BY <1>6
<1>8. x - 1 \in S
  BY <1>5, <1>7
<1>9. x \in S
  BY <1>6, <1>7, <1>8
<1> QED
  BY <1>9

LEMMA IsSeqFunction ==
  ASSUME NEW n \in Nat, NEW F, F = [i \in 1 .. n |-> F[i]]
  PROVE  IsSeq(F) /\ Len(F) = n
<1> DEFINE S == {F[i] : i \in 1 .. n}
<1>1. F \in [1 .. n -> S]
  OBVIOUS
<1>2. F \in Seq(S)
  BY <1>1
<1>3. Len(F) = n
  BY <1>1, <1>2
<1> QED
  BY <1>2, <1>3 DEF IsSeq

LEMMA ConcatIsSeq ==
  ASSUME NEW a, NEW b, IsSeq(a), IsSeq(b)
  PROVE  /\ IsSeq(a \o b)
         /\ Len(a) \in Nat /\ Len(b) \in Nat
         /\ Len(a \o b) = Len(a) + Len(b)
         /\ \A i \in 1 .. Len(a) + Len(b) :
              (a \o b)[i] = IF i <= Len(a) THEN a[i] ELSE b[i - Len(a)]
<1>1. PICK S : a \in Seq(S)
  BY DEF IsSeq
<1>2. PICK T : b \in Seq(T)
  BY DEF IsSeq
<1>3. a \in Seq(S \cup T) /\ b \in Seq(S \cup T)
  BY <1>1, <1>2, SeqMonotonic, S \subseteq S \cup T, T \subseteq S \cup T
<1>4. a \o b \in Seq(S \cup T)
  BY <1>3, ConcatProperties
<1> QED
  BY <1>3, <1>4, ConcatProperties DEF IsSeq

(***************************************************************************)
(* FlattenSeq is what the loop of a parse function does: nothing, or the   *)
(* first turn, and after it turn by turn the next one.                     *)
(***************************************************************************)
LEMMA FlattenByTurns ==
  ASSUME NEW n \in Nat \ {0}, NEW F, F = [i \in 1 .. n |-> F[i]]
  PROVE  \E f : /\ f[1] = F[1]
                /\ \A i \in 2 .. n : f[i] = f[i - 1] \o F[i]
                /\ FlattenSeq(F) = f[n]
<1> DEFINE Step(f, i) == IF i = 1 THEN F[i] ELSE f[i - 1] \o F[i]
           Upto(k, f) == f = [i \in 1 .. k |-> Step(f, i)]
           S == {k \in Nat : \E f : Upto(k, f)}
<1>1. 0 \in S
  <2>1. Upto(0, <<>>)
    OBVIOUS
  <2> QED
    BY <2>1
<1>2. ASSUME NEW k \in Nat, k \in S PROVE k + 1 \in S
  <2>1. PICK f : Upto(k, f)
    BY <1>2
  <2> DEFINE next == IF k = 0 THEN F[1] ELSE f[k] \o F[k + 1]
             g == [i \in 1 .. k + 1 |-> IF i = k + 1 THEN next ELSE f[i]]
  <2>2. ASSUME NEW i \in 1 .. k + 1 PROVE g[i] = Step(g, i)
    <3>1. CASE i = k + 1 /\ k = 0
      BY <3>1
    <3>2. CASE i = k + 1 /\ k # 0
      <4>1. k \in 1 .. k + 1 /\ k # k + 1 /\ i # 1 /\ i - 1 = k
        BY <3>2
      <4>2. g[k] = f[k]
        BY <4>1
      <4> QED
        BY <3>2, <4>1, <4>2
    <3>3. CASE i # k + 1
      <4>1. i \in 1 .. k
        BY <3>3
      <4>2. f[i] = Step(f, i)
        BY <2>1, <4>1
      <4>3. i # 1 => i - 1 \in 1 .. k /\ i - 1 # k + 1
        BY <4>1
      <4>4. i # 1 => g[i - 1] = f[i - 1]
        BY <4>3
      <4> HIDE DEF g
      <4> QED
        BY <3>3, <4>2, <4>4 DEF g
    <3> QED
      BY <3>1, <3>2, <3>3
  <2>3. Upto(k + 1, g)
    BY <2>2
  <2> HIDE DEF g, Upto
  <2> QED
    BY <2>3
<1>3. n \in S
  <2> HIDE DEF S
  <2> QED
    BY <1>1, <1>2, SetInduction
<1>4. Len(F) = n /\ n # 0
  BY IsSeqFunction
<1> DEFINE flat == CHOOSE f : f = [i \in 1 .. Len(F) |-> Step(f, i)]
<1>5. FlattenSeq(F) = flat[Len(F)]
  BY <1>4 DEF FlattenSeq
<1>6. flat = [i \in 1 .. Len(F) |-> Step(flat, i)]
  BY <1>3, <1>4
<1>7. flat = [i \in 1 .. n |-> Step(flat, i)]
  BY <1>4, <1>6
<1> HIDE DEF flat
<1>8. flat[1] = F[1]
  BY <1>7
<1>9. ASSUME NEW i \in 2 .. n PROVE flat[i] = flat[i - 1] \o F[i]
  <2>1. i \in 1 .. n /\ i # 1
    OBVIOUS
  <2>2. flat[i] = Step(flat, i)
    BY <1>7, <2>1
  <2> QED
    BY <2>1, <2>2
<1> QED
  BY <1>4, <1>5, <1>8, <1>9

-----------------------------------------------------------------------------
(* What an operation relies on, and what it does.  A state of the call is  *)
(* a record with the fields and the counts of the record at hand, each     *)
(* count under its array, and the blocks of the local variables.           *)

Names ==
  {"transforms", "objects", "samples", "stored_payload", "decoded_payload",
   "channels", "its channels", "tlvs", "value", "parameters", "values",
   "bytes", "zigzag", "previous", "raw", "intermediate", "message",
   "entries", "type_header", "payload", "used"}

Blocks ==
  {<<x>> : x \in Names} \cup (Names \X Nat) \cup (Names \X Nat \X Nat)

\* free_record finds every block of the record.
Reached(s) == s.fields \subseteq Released(s)

Kept(s) == Reached(s) /\ ~ReadsMissing(s)

Meets(op, s) ==
  CASE op.do = "check" ->
         /\ op.as \subseteq Failures
         /\ op.frees = s.locals /\ Reached(s)
    [] op.do = "claim" ->
         /\ op.as \subseteq Failures
         /\ op.frees = s.locals /\ Reached(s)
         /\ op.block \in Blocks \ (s.fields \cup s.locals)
    [] op.do = "give" ->
         op.blocks \subseteq s.locals /\ op.frees = {}
    [] op.do = "drop" ->
         op.frees \subseteq s.locals
    [] op.do = "count" ->
         op.array \in Blocks /\ op.n \in Nat /\ op.frees = {}
    [] op.do = "return" ->
         op.frees = s.locals /\ Kept(s)
    [] OTHER -> FALSE

After(op, s) ==
  CASE op.do = "claim" -> [s EXCEPT !.locals = @ \cup {op.block}]
    [] op.do = "give" -> [s EXCEPT !.fields = @ \cup op.blocks,
                                   !.locals = @ \ op.blocks]
    [] op.do = "drop" -> [s EXCEPT !.locals = @ \ op.frees]
    [] op.do = "count" -> [s EXCEPT !.counts[op.array] = op.n]
    [] OTHER -> s

-----------------------------------------------------------------------------
(* A sequence of steps from one state to another: of the operations of a   *)
(* parse function from one state of the call, or of the tokens of a dump   *)
(* from one state of its reader.                                           *)

Step(form, op, s, t) ==
  IF form = "parse" THEN Meets(op, s) /\ t = After(op, s) ELSE t = Take(form, s, op)

Path(form, ops, at) ==
  \A k \in 1 .. Len(ops) : Step(form, ops[k], at[k - 1], at[k])

Leads(form, ops, s, t) ==
  /\ IsSeq(ops)
  /\ \E at : at[0] = s /\ at[Len(ops)] = t /\ Path(form, ops, at)

LEMMA LeadsNone ==
  ASSUME NEW form, NEW s
  PROVE  Leads(form, <<>>, s, s)
<1> DEFINE at == [k \in {0} |-> s]
<1>1. IsSeq(<<>>) /\ Len(<<>>) = 0
  <2>1. <<>> \in Seq({})
    OBVIOUS
  <2> QED
    BY <2>1 DEF IsSeq
<1>2. at[0] = s /\ Path(form, <<>>, at)
  BY <1>1 DEF Path
<1> QED
  BY <1>1, <1>2 DEF Leads

LEMMA LeadsOne ==
  ASSUME NEW form, NEW op, NEW s, NEW t, Step(form, op, s, t)
  PROVE  Leads(form, <<op>>, s, t)
<1> DEFINE at == [k \in {0, 1} |-> IF k = 0 THEN s ELSE t]
<1>1. IsSeq(<<op>>) /\ Len(<<op>>) = 1 /\ <<op>>[1] = op
  <2>1. <<op>> \in Seq({op})
    OBVIOUS
  <2> QED
    BY <2>1 DEF IsSeq
<1>2. at[0] = s /\ at[1] = t
  OBVIOUS
<1> HIDE DEF at
<1>3. Path(form, <<op>>, at)
  <2>1. ASSUME NEW k \in 1 .. 1 PROVE Step(form, <<op>>[k], at[k - 1], at[k])
    <3>1. k = 1 /\ k - 1 = 0
      OBVIOUS
    <3>2. <<op>>[k] = op /\ at[k - 1] = s /\ at[k] = t
      BY <1>1, <1>2, <3>1
    <3> QED
      BY <3>2
  <2> QED
    BY <1>1, <2>1 DEF Path
<1> QED
  BY <1>1, <1>2, <1>3 DEF Leads

LEMMA LeadsConcat ==
  ASSUME NEW form, NEW a, NEW b, NEW s, NEW t, NEW u, Leads(form, a, s, t), Leads(form, b, t, u)
  PROVE  Leads(form, a \o b, s, u)
<1>1. IsSeq(a) /\ IsSeq(b)
  BY DEF Leads
<1>2. PICK f : f[0] = s /\ f[Len(a)] = t /\ Path(form, a, f)
  BY DEF Leads
<1>3. PICK g : g[0] = t /\ g[Len(b)] = u /\ Path(form, b, g)
  BY DEF Leads
<1> DEFINE m == Len(a)
           n == Len(b)
           at == [k \in 0 .. m + n |-> IF k <= m THEN f[k] ELSE g[k - m]]
<1>4. /\ IsSeq(a \o b) /\ m \in Nat /\ n \in Nat /\ Len(a \o b) = m + n
      /\ \A i \in 1 .. m + n : (a \o b)[i] = IF i <= m THEN a[i] ELSE b[i - m]
  BY <1>1, ConcatIsSeq
<1>5. at[0] = s
  BY <1>2, <1>4
<1>6. at[m + n] = u
  <2>1. CASE n = 0
    BY <1>2, <1>3, <1>4, <2>1
  <2>2. CASE n # 0
    BY <1>3, <1>4, <2>2
  <2> QED
    BY <2>1, <2>2
<1>7. ASSUME NEW k \in 1 .. m + n
      PROVE  Step(form, (a \o b)[k], at[k - 1], at[k])
  <2>1. CASE k <= m
    <3>1. k \in 1 .. m /\ (a \o b)[k] = a[k] /\ k - 1 \in 0 .. m + n /\ k - 1 <= m
      BY <1>4, <2>1
    <3>2. at[k] = f[k] /\ at[k - 1] = f[k - 1]
      BY <1>4, <2>1, <3>1
    <3> QED
      BY <1>2, <3>1, <3>2 DEF Path
  <2>2. CASE k > m
    <3>1. /\ k - m \in 1 .. n /\ (a \o b)[k] = b[k - m]
          /\ k - 1 \in 0 .. m + n /\ (k - 1) - m = (k - m) - 1
      BY <1>4, <2>2
    <3>2. at[k] = g[k - m]
      BY <1>4, <2>2
    <3>3. at[k - 1] = g[(k - m) - 1]
      <4>1. CASE k = m + 1
        <5>1. at[k - 1] = f[m] /\ (k - m) - 1 = 0
          BY <1>4, <4>1
        <5> QED
          BY <1>2, <1>3, <5>1
      <4>2. CASE k # m + 1
        <5>1. ~(k - 1 <= m)
          BY <1>4, <2>2, <4>2
        <5> QED
          BY <1>4, <3>1, <5>1
      <4> QED
        BY <4>1, <4>2
    <3> QED
      BY <1>3, <3>1, <3>2, <3>3 DEF Path
  <2> HIDE DEF at
  <2>3. k <= m \/ k > m
    BY <1>4
  <2> QED
    BY <2>1, <2>2, <2>3
<1>8. Path(form, a \o b, at)
  <2> HIDE DEF at
  <2> QED
    BY <1>4, <1>7 DEF Path
<1> HIDE DEF at
<1> QED
  BY <1>4, <1>5, <1>6, <1>8 DEF Leads

(***************************************************************************)
(* A loop, of which every turn leads from one state to the next.           *)
(***************************************************************************)
LEMMA LeadsLoop ==
  ASSUME NEW form, NEW n \in Nat, NEW F, F = [i \in 1 .. n |-> F[i]], NEW g,
         \A i \in 1 .. n : Leads(form, F[i], g[i - 1], g[i])
  PROVE  Leads(form, FlattenSeq(F), g[0], g[n])
<1>1. CASE n = 0
  <2>1. F = <<>>
    BY <1>1
  <2>2. FlattenSeq(F) = <<>>
    BY <2>1 DEF FlattenSeq
  <2> QED
    BY <1>1, <2>2, LeadsNone
<1>2. CASE n # 0
  <2>1. n \in Nat \ {0}
    BY <1>2
  <2>2. PICK f : /\ f[1] = F[1]
                 /\ \A i \in 2 .. n : f[i] = f[i - 1] \o F[i]
                 /\ FlattenSeq(F) = f[n]
    BY <2>1, FlattenByTurns
  <2> DEFINE Arrives(k) == k \in 1 .. n => Leads(form, f[k], g[0], g[k])
             S == {k \in Nat : Arrives(k)}
  <2>3. Arrives(0)
    OBVIOUS
  <2>4. ASSUME NEW k \in Nat, Arrives(k) PROVE Arrives(k + 1)
    <3>1. SUFFICES ASSUME k + 1 \in 1 .. n PROVE Leads(form, f[k + 1], g[0], g[k + 1])
      OBVIOUS
    <3>2. Leads(form, F[k + 1], g[k], g[k + 1])
      <4>1. (k + 1) - 1 = k
        OBVIOUS
      <4> QED
        BY <3>1, <4>1
    <3>3. CASE k = 0
      <4>1. f[k + 1] = F[k + 1] /\ g[k] = g[0]
        BY <2>2, <3>3
      <4> QED
        BY <3>2, <4>1
    <3>4. CASE k # 0
      <4>1. k \in 1 .. n /\ k + 1 \in 2 .. n /\ (k + 1) - 1 = k
        BY <3>1, <3>4
      <4>2. Leads(form, f[k], g[0], g[k])
        BY <2>4, <4>1
      <4>3. f[k + 1] = f[k] \o F[k + 1]
        BY <2>2, <4>1
      <4> QED
        BY <3>2, <4>2, <4>3, LeadsConcat
    <3> QED
      BY <3>3, <3>4
  <2>5. Arrives(n)
    <3> HIDE DEF Arrives
    <3>1. 0 \in S /\ \A k \in Nat : k \in S => k + 1 \in S
      BY <2>3, <2>4
    <3>2. \A k \in Nat : k \in S
      <4> HIDE DEF S
      <4> QED
        BY <3>1, SetInduction
    <3> QED
      BY <3>2
  <2>6. n \in 1 .. n
    BY <2>1
  <2>7. Leads(form, f[n], g[0], g[n])
    BY <2>5, <2>6
  <2> QED
    BY <2>2, <2>7
<1> QED
  BY <1>1, <1>2

(***************************************************************************)
(* Shorter ways to say it for a few operations in a row.                   *)
(***************************************************************************)
LEMMA LeadsTwo ==
  ASSUME NEW form, NEW o1, NEW o2, NEW s0, NEW s1, NEW s2,
         Step(form, o1, s0, s1), Step(form, o2, s1, s2)
  PROVE  Leads(form, <<o1, o2>>, s0, s2)
<1> DEFINE ops == <<o1, o2>>
           at == [k \in 0 .. 2 |-> IF k = 0 THEN s0 ELSE IF k = 1 THEN s1 ELSE s2]
<1>1. ops \in Seq({o1, o2}) /\ Len(ops) = 2 /\ ops[1] = o1 /\ ops[2] = o2
  OBVIOUS
<1>2. at[0] = s0 /\ at[1] = s1 /\ at[2] = s2
  OBVIOUS
<1> HIDE DEF ops, at
<1>3. Path(form, ops, at)
  <2>1. ASSUME NEW k \in 1 .. 2 PROVE Step(form, ops[k], at[k - 1], at[k])
    <3>1. CASE k = 1
      BY <1>1, <1>2, <3>1
    <3>2. CASE k = 2
      BY <1>1, <1>2, <3>2
    <3> QED
      BY <3>1, <3>2
  <2> QED
    BY <1>1, <2>1 DEF Path
<1>4. Leads(form, ops, s0, s2)
  BY <1>1, <1>2, <1>3 DEF Leads, IsSeq
<1> QED
  BY <1>4 DEF ops

LEMMA LeadsThree ==
  ASSUME NEW form, NEW o1, NEW o2, NEW o3, NEW s0, NEW s1, NEW s2, NEW s3,
         Step(form, o1, s0, s1), Step(form, o2, s1, s2),
         Step(form, o3, s2, s3)
  PROVE  Leads(form, <<o1, o2, o3>>, s0, s3)
<1> DEFINE ops == <<o1, o2, o3>>
           at == [k \in 0 .. 3 |-> IF k = 0 THEN s0 ELSE IF k = 1 THEN s1
                                   ELSE IF k = 2 THEN s2 ELSE s3]
<1>1. /\ ops \in Seq({o1, o2, o3}) /\ Len(ops) = 3
      /\ ops[1] = o1 /\ ops[2] = o2 /\ ops[3] = o3
  OBVIOUS
<1>2. at[0] = s0 /\ at[1] = s1 /\ at[2] = s2 /\ at[3] = s3
  OBVIOUS
<1> HIDE DEF ops, at
<1>3. Path(form, ops, at)
  <2>1. ASSUME NEW k \in 1 .. 3 PROVE Step(form, ops[k], at[k - 1], at[k])
    <3>1. CASE k = 1
      BY <1>1, <1>2, <3>1
    <3>2. CASE k = 2
      BY <1>1, <1>2, <3>2
    <3>3. CASE k = 3
      BY <1>1, <1>2, <3>3
    <3> QED
      BY <3>1, <3>2, <3>3
  <2> QED
    BY <1>1, <2>1 DEF Path
<1>4. Leads(form, ops, s0, s3)
  BY <1>1, <1>2, <1>3 DEF Leads, IsSeq
<1> QED
  BY <1>4 DEF ops

\* Any number of operations, with the states before and after each.
LEMMA LeadsStates ==
  ASSUME NEW form, NEW n \in Nat, NEW ops, NEW states, IsSeq(ops), Len(ops) = n,
         \A k \in 1 .. n :
           Step(form, ops[k], states[k], states[k + 1])
  PROVE  Leads(form, ops, states[1], states[n + 1])
<1> DEFINE at == [k \in 0 .. n |-> states[k + 1]]
<1>1. at[0] = states[1] /\ at[n] = states[n + 1]
  OBVIOUS
<1>2. ASSUME NEW k \in 1 .. n
      PROVE  Step(form, ops[k], at[k - 1], at[k])
  <2>1. k \in 0 .. n /\ k - 1 \in 0 .. n /\ (k - 1) + 1 = k
    OBVIOUS
  <2>2. at[k - 1] = states[k] /\ at[k] = states[k + 1]
    BY <2>1
  <2> HIDE DEF at
  <2> QED
    BY <2>2
<1> HIDE DEF at
<1>3. Path(form, ops, at)
  BY <1>2 DEF Path
<1> QED
  BY <1>1, <1>3 DEF Leads

(***************************************************************************)
(* The same of the operations of a parse function.                         *)
(***************************************************************************)
Ends(ops, s, t) == Leads("parse", ops, s, t)

LEMMA EndsNone ==
  ASSUME NEW s
  PROVE  Ends(<<>>, s, s)
BY LeadsNone DEF Ends

LEMMA EndsOne ==
  ASSUME NEW op, NEW s, Meets(op, s)
  PROVE  Ends(<<op>>, s, After(op, s))
BY LeadsOne DEF Ends, Step

LEMMA EndsConcat ==
  ASSUME NEW a, NEW b, NEW s, NEW t, NEW u, Ends(a, s, t), Ends(b, t, u)
  PROVE  Ends(a \o b, s, u)
BY LeadsConcat DEF Ends

LEMMA EndsLoop ==
  ASSUME NEW n \in Nat, NEW F, F = [i \in 1 .. n |-> F[i]], NEW g,
         \A i \in 1 .. n : Ends(F[i], g[i - 1], g[i])
  PROVE  Ends(FlattenSeq(F), g[0], g[n])
BY LeadsLoop DEF Ends

LEMMA EndsTwo ==
  ASSUME NEW o1, NEW o2, NEW s0, NEW s1, NEW s2,
         Meets(o1, s0), s1 = After(o1, s0), Meets(o2, s1), s2 = After(o2, s1)
  PROVE  Ends(<<o1, o2>>, s0, s2)
BY LeadsTwo DEF Ends, Step

LEMMA EndsThree ==
  ASSUME NEW o1, NEW o2, NEW o3, NEW s0, NEW s1, NEW s2, NEW s3,
         Meets(o1, s0), s1 = After(o1, s0), Meets(o2, s1), s2 = After(o2, s1),
         Meets(o3, s2), s3 = After(o3, s2)
  PROVE  Ends(<<o1, o2, o3>>, s0, s3)
BY LeadsThree DEF Ends, Step

LEMMA EndsStates ==
  ASSUME NEW n \in Nat, NEW ops, NEW states, IsSeq(ops), Len(ops) = n,
         \A k \in 1 .. n :
           Meets(ops[k], states[k]) /\ states[k + 1] = After(ops[k], states[k])
  PROVE  Ends(ops, states[1], states[n + 1])
BY LeadsStates DEF Ends, Step

(***************************************************************************)
(* The first operation meets what it relies on, and the others go on from  *)
(* there.                                                                  *)
(***************************************************************************)
LEMMA EndsHead ==
  ASSUME NEW ops, NEW s, NEW t, Ends(ops, s, t), ops # <<>>
  PROVE  /\ Meets(Head(ops), s)
         /\ Ends(Tail(ops), After(Head(ops), s), t)
<1>1. PICK S : ops \in Seq(S)
  BY DEF Ends, Leads, IsSeq
<1>2. PICK f : f[0] = s /\ f[Len(ops)] = t /\ Path("parse", ops, f)
  BY DEF Ends, Leads
<1> DEFINE n == Len(ops)
           at == [k \in 0 .. n - 1 |-> f[k + 1]]
<1>3. /\ Len(ops) \in Nat \ {0} /\ Head(ops) = ops[1]
      /\ Tail(ops) \in Seq(S) /\ Len(Tail(ops)) = n - 1
      /\ \A i \in 1 .. n - 1 : Tail(ops)[i] = ops[i + 1]
  BY <1>1, EmptySeq, HeadTailProperties
<1>4. Meets(Head(ops), s) /\ f[1] = After(Head(ops), s)
  BY <1>2, <1>3 DEF Path, Step
<1>5. at[0] = After(Head(ops), s) /\ at[n - 1] = t
  BY <1>2, <1>3, <1>4
<1>6. ASSUME NEW k \in 1 .. n - 1
      PROVE  /\ Meets(Tail(ops)[k], at[k - 1])
             /\ at[k] = After(Tail(ops)[k], at[k - 1])
  <2>1. /\ k + 1 \in 1 .. n /\ (k + 1) - 1 = k /\ (k - 1) + 1 = k
        /\ k - 1 \in 0 .. n - 1 /\ k \in 0 .. n - 1
    BY <1>3
  <2>2. at[k - 1] = f[k] /\ at[k] = f[k + 1]
    BY <2>1
  <2>3. Tail(ops)[k] = ops[k + 1]
    BY <1>3
  <2>4. Meets(ops[k + 1], f[k]) /\ f[k + 1] = After(ops[k + 1], f[k])
    BY <1>2, <2>1 DEF Path, Step
  <2> QED
    BY <2>2, <2>3, <2>4
<1>7. Path("parse", Tail(ops), at)
  <2> HIDE DEF at
  <2> QED
    BY <1>3, <1>6 DEF Path, Step
<1>8. IsSeq(Tail(ops))
  BY <1>3 DEF IsSeq
<1> HIDE DEF at
<1> QED
  BY <1>3, <1>4, <1>5, <1>7, <1>8 DEF Ends, Leads

LEMMA EndsEmpty ==
  ASSUME NEW s, NEW t, Ends(<<>>, s, t)
  PROVE  s = t
BY DEF Ends, Leads

-----------------------------------------------------------------------------
(* Single operations. *)

State(F, C, L) == [fields |-> F, counts |-> C, locals |-> L]

LEMMA MeetsCheck ==
  ASSUME NEW F, NEW C, NEW L, NEW as \in SUBSET Failures,
         Reached(State(F, C, L))
  PROVE  /\ Meets(Check(as, L), State(F, C, L))
         /\ After(Check(as, L), State(F, C, L)) = State(F, C, L)
<1> DEFINE op == Check(as, L)
<1>1. op.do = "check" /\ op.as = as /\ op.frees = L
  BY DEF Check
<1> HIDE DEF op
<1>2. State(F, C, L).locals = L
  BY DEF State
<1> QED
  BY <1>1, <1>2 DEF Meets, After, op

LEMMA MeetsMalformed ==
  ASSUME NEW F, NEW C, NEW L, Reached(State(F, C, L))
  PROVE  /\ Meets(Malformed(L), State(F, C, L))
         /\ After(Malformed(L), State(F, C, L)) = State(F, C, L)
BY MeetsCheck, {"FORMAT"} \in SUBSET Failures DEF Malformed, Failures

LEMMA MeetsClaim ==
  ASSUME NEW F, NEW C, NEW L, NEW as \in SUBSET Failures,
         Reached(State(F, C, L)),
         NEW b \in Blocks, b \notin F, b \notin L
  PROVE  /\ Meets(Claim(b, as, L), State(F, C, L))
         /\ After(Claim(b, as, L), State(F, C, L)) = State(F, C, L \cup {b})
<1> DEFINE op == Claim(b, as, L)
<1>1. op.do = "claim" /\ op.as = as /\ op.frees = L /\ op.block = b
  BY DEF Claim
<1> HIDE DEF op
<1>2. State(F, C, L).locals = L /\ State(F, C, L).fields = F
  BY DEF State
<1>3. Meets(op, State(F, C, L))
  BY <1>1, <1>2 DEF Meets
<1>4. After(op, State(F, C, L)) = State(F, C, L \cup {b})
  BY <1>1 DEF After, State
<1> QED
  BY <1>3, <1>4 DEF op

LEMMA MeetsGive ==
  ASSUME NEW F, NEW C, NEW L, NEW bs \in SUBSET L
  PROVE  /\ Meets(Give(bs), State(F, C, L))
         /\ After(Give(bs), State(F, C, L)) = State(F \cup bs, C, L \ bs)
<1> DEFINE op == Give(bs)
<1>1. op.do = "give" /\ op.blocks = bs /\ op.frees = {}
  BY DEF Give
<1> HIDE DEF op
<1>3. Meets(op, State(F, C, L))
  BY <1>1 DEF Meets, State
<1>4. After(op, State(F, C, L)) = State(F \cup bs, C, L \ bs)
  BY <1>1 DEF After, State
<1> QED
  BY <1>3, <1>4 DEF op

LEMMA MeetsDrop ==
  ASSUME NEW F, NEW C, NEW L, NEW bs \in SUBSET L
  PROVE  /\ Meets(Drop(bs), State(F, C, L))
         /\ After(Drop(bs), State(F, C, L)) = State(F, C, L \ bs)
<1> DEFINE op == Drop(bs)
<1>1. op.do = "drop" /\ op.frees = bs
  BY DEF Drop
<1> HIDE DEF op
<1>3. Meets(op, State(F, C, L))
  BY <1>1 DEF Meets, State
<1>4. After(op, State(F, C, L)) = State(F, C, L \ bs)
  BY <1>1 DEF After, State
<1> QED
  BY <1>3, <1>4 DEF op

LEMMA MeetsCount ==
  ASSUME NEW F, NEW C, NEW L, NEW a \in Blocks, NEW n \in Nat
  PROVE  /\ Meets(SetCount(a, n), State(F, C, L))
         /\ After(SetCount(a, n), State(F, C, L)) = State(F, [C EXCEPT ![a] = n], L)
<1> DEFINE op == SetCount(a, n)
<1>1. op.do = "count" /\ op.frees = {} /\ op.array = a /\ op.n = n
  BY DEF SetCount
<1> HIDE DEF op
<1>3. Meets(op, State(F, C, L))
  BY <1>1 DEF Meets, State
<1>4. After(op, State(F, C, L)) = State(F, [C EXCEPT ![a] = n], L)
  BY <1>1 DEF After, State
<1> QED
  BY <1>3, <1>4 DEF op

LEMMA MeetsReturn ==
  ASSUME NEW F, NEW C, NEW L, Kept(State(F, C, L))
  PROVE  /\ Meets(MayReturn(L), State(F, C, L))
         /\ After(MayReturn(L), State(F, C, L)) = State(F, C, L)
<1> DEFINE op == MayReturn(L)
<1>1. op.do = "return" /\ op.frees = L
  BY DEF MayReturn
<1> HIDE DEF op
<1>2. State(F, C, L).locals = L
  BY DEF State
<1> QED
  BY <1>1, <1>2 DEF Meets, After, op

LEMMA EndsKeep ==
  ASSUME NEW F, NEW C, NEW L, Reached(State(F, C, L)),
         NEW b \in Blocks, b \notin F, b \notin L
  PROVE  Ends(Keep(b, L), State(F, C, L), State(F \cup {b}, C, L))
<1>1. {"MEMORY"} \in SUBSET Failures
  BY DEF Failures
<1>2. /\ Meets(Claim(b, {"MEMORY"}, L), State(F, C, L))
      /\ After(Claim(b, {"MEMORY"}, L), State(F, C, L)) = State(F, C, L \cup {b})
  BY <1>1, MeetsClaim
<1>3. {b} \in SUBSET (L \cup {b}) /\ (L \cup {b}) \ {b} = L
  OBVIOUS
<1>4. /\ Meets(Give({b}), State(F, C, L \cup {b}))
      /\ After(Give({b}), State(F, C, L \cup {b})) = State(F \cup {b}, C, L)
  BY <1>3, MeetsGive
<1> QED
  BY <1>2, <1>4, EndsTwo DEF Keep

-----------------------------------------------------------------------------
(* What free_record finds. *)

LEMMA AboveIs ==
  /\ \A i \in Nat : /\ Above(<<"parameters", i>>) = Transforms
                    /\ Above(<<"tlvs", i>>) = Objects
                    /\ Above(<<"values", i>>) = Samples
  /\ \A i, j \in Nat : /\ Above(<<"value", i, j>>) = <<"tlvs", i>>
                       /\ Above(<<"bytes", i, j>>) = <<"values", i>>
<1>1. /\ HangsOn["parameters"] = "transforms" /\ HangsOn["tlvs"] = "objects"
      /\ HangsOn["value"] = "tlvs" /\ HangsOn["values"] = "samples"
      /\ HangsOn["bytes"] = "values"
  BY DEF HangsOn
<1>2. ASSUME NEW x, NEW y, NEW i \in Nat, HangsOn[x] = y
      PROVE  Above(<<x, i>>) = <<y>>
  <2> DEFINE b == <<x, i>>
  <2>1. b[1] = x /\ Len(b) = 2 /\ Len(b) - 1 = 1
    OBVIOUS
  <2>2. <<y>> \in Seq({y})
    OBVIOUS
  <2> HIDE DEF b
  <2>3. SubSeq(b, 2, 1) = <<>>
    BY SubSeqEmpty
  <2>4. Above(b) = <<y>> \o <<>>
    BY <1>2, <2>1, <2>3 DEF Above
  <2>5. <<y>> \o <<>> = <<y>>
    BY <2>2, ConcatEmptySeq
  <2> QED
    BY <2>4, <2>5 DEF b
<1>3. ASSUME NEW x, NEW y, NEW i \in Nat, NEW j \in Nat, HangsOn[x] = y
      PROVE  Above(<<x, i, j>>) = <<y, i>>
  <2> DEFINE b == <<x, i, j>>
  <2>1. /\ b[1] = x /\ b[2] = i /\ Len(b) = 3 /\ Len(b) - 1 = 2
        /\ b \in Seq({x, i, j})
    OBVIOUS
  <2> HIDE DEF b
  <2>2. SubSeq(b, 2, 2) = <<i>>
    <3>1. /\ SubSeq(b, 2, 2) \in Seq({x, i, j}) /\ Len(SubSeq(b, 2, 2)) = 1
          /\ SubSeq(b, 2, 2)[1] = i
      <4>1. \A k \in 2 .. 2 : b[k] \in {x, i, j}
        BY <2>1
      <4>2. /\ SubSeq(b, 2, 2) \in Seq({x, i, j})
            /\ Len(SubSeq(b, 2, 2)) = 1
            /\ \A k \in 1 .. 2 - 2 + 1 : SubSeq(b, 2, 2)[k] = b[2 + k - 1]
        BY <4>1, SubSeqProperties
      <4> QED
        BY <2>1, <4>2
    <3>2. <<i>> \in Seq({x, i, j}) /\ Len(<<i>>) = 1 /\ <<i>>[1] = i
      OBVIOUS
    <3> DEFINE u == SubSeq(b, 2, 2)
               v == <<i>>
    <3>3. u \in Seq({x, i, j}) /\ v \in Seq({x, i, j})
      BY <3>1, <3>2
    <3>4. Len(u) = Len(v) /\ \A k \in 1 .. Len(u) : u[k] = v[k]
      BY <3>1, <3>2
    <3> HIDE DEF u, v
    <3>5. u = v
      BY <3>3, <3>4, SeqEqual
    <3> QED
      BY <3>5 DEF u, v
  <2>3. <<y>> \o <<i>> = <<y, i>>
    <3>1. <<y>> \in Seq({y, i}) /\ <<i>> \in Seq({y, i}) /\ <<y, i>> \in Seq({y, i})
      OBVIOUS
    <3>2. /\ <<y>> \o <<i>> \in Seq({y, i}) /\ Len(<<y>> \o <<i>>) = 2
          /\ \A k \in 1 .. 2 : (<<y>> \o <<i>>)[k] = <<y, i>>[k]
      BY <3>1, ConcatProperties
    <3> QED
      BY <3>1, <3>2, SeqEqual
  <2>4. Above(b) = <<y>> \o <<i>>
    BY <1>3, <2>1, <2>2 DEF Above
  <2> QED
    BY <2>3, <2>4 DEF b
<1> QED
  BY <1>1, <1>2, <1>3 DEF Transforms, Objects, Samples

\* A block the walk comes to: a plain field, or an element of an array that
\* is counted.
InWalk(b, C) ==
  \/ \E x \in Names : b = <<x>>
  \/ \E i \in Nat : b = <<"parameters", i>> /\ i <= C[Transforms]
  \/ \E i \in Nat : b = <<"tlvs", i>> /\ i <= C[Objects]
  \/ \E i \in Nat : b = <<"values", i>> /\ i <= C[Samples]
  \/ \E i, j \in Nat :
       b = <<"value", i, j>> /\ i <= C[Objects] /\ j <= C[<<"tlvs", i>>]
  \/ \E i, j \in Nat :
       b = <<"bytes", i, j>> /\ i <= C[Samples] /\ j <= C[<<"values", i>>]

LEMMA BlockNames ==
  /\ Transforms \in Blocks /\ Objects \in Blocks /\ Samples \in Blocks
  /\ \A x \in Names : <<x>> \in Blocks
  /\ \A x \in Names, i \in Nat : <<x, i>> \in Blocks
  /\ \A x \in Names, i, j \in Nat : <<x, i, j>> \in Blocks
<1>1. \A x \in Names : <<x>> \in Blocks
  BY DEF Blocks
<1>2. \A x \in Names, i \in Nat : <<x, i>> \in Blocks
  BY DEF Blocks
<1>3. \A x \in Names, i, j \in Nat : <<x, i, j>> \in Blocks
  BY DEF Blocks
<1>4. Transforms \in Blocks
  BY <1>1, "transforms" \in Names DEF Names, Transforms
<1>5. Objects \in Blocks
  BY <1>1, "objects" \in Names DEF Names, Objects
<1>6. Samples \in Blocks
  BY <1>1, "samples" \in Names DEF Names, Samples
<1> QED
  BY <1>1, <1>2, <1>3, <1>4, <1>5, <1>6

LEMMA ReachedIf ==
  ASSUME NEW F, NEW L, NEW C \in [Blocks -> Nat], \A b \in F : InWalk(b, C)
  PROVE  Reached(State(F, C, L))
<1> DEFINE s == State(F, C, L)
<1>1. s.fields = F /\ s.counts = C
  BY DEF State
<1>2. \A a \in Blocks : CountOf(s, a) = C[a]
  BY <1>1 DEF CountOf
<1> HIDE DEF s
<1>3. ASSUME NEW b \in F
      PROVE  /\ Len(b) > 1 => b[Len(b)] <= CountOf(s, Above(b))
             /\ Len(b) > 2 => b[2] <= CountOf(s, Above(Above(b)))
  <2>0. InWalk(b, C)
    OBVIOUS
  <2>1. CASE \E x \in Names : b = <<x>>
    BY <2>1
  <2>2. CASE \E i \in Nat : b = <<"parameters", i>> /\ i <= C[Transforms]
    <3>1. PICK i \in Nat : b = <<"parameters", i>> /\ i <= C[Transforms]
      BY <2>2
    <3>2. Above(b) = Transforms
      BY <3>1, AboveIs
    <3>3. Len(b) = 2 /\ b[2] = i
      BY <3>1
    <3>4. CountOf(s, Transforms) = C[Transforms]
      BY <1>2, BlockNames
    <3> QED
      BY <3>2, <3>3, <3>1, <3>4
  <2>3. CASE \E i \in Nat : b = <<"tlvs", i>> /\ i <= C[Objects]
    <3>1. PICK i \in Nat : b = <<"tlvs", i>> /\ i <= C[Objects]
      BY <2>3
    <3>2. Above(b) = Objects
      BY <3>1, AboveIs
    <3>3. Len(b) = 2 /\ b[2] = i
      BY <3>1
    <3>4. CountOf(s, Objects) = C[Objects]
      BY <1>2, BlockNames
    <3> QED
      BY <3>2, <3>3, <3>1, <3>4
  <2>4. CASE \E i \in Nat : b = <<"values", i>> /\ i <= C[Samples]
    <3>1. PICK i \in Nat : b = <<"values", i>> /\ i <= C[Samples]
      BY <2>4
    <3>2. Above(b) = Samples
      BY <3>1, AboveIs
    <3>3. Len(b) = 2 /\ b[2] = i
      BY <3>1
    <3>4. CountOf(s, Samples) = C[Samples]
      BY <1>2, BlockNames
    <3> QED
      BY <3>2, <3>3, <3>1, <3>4
  <2>5. CASE \E i, j \in Nat :
               b = <<"value", i, j>> /\ i <= C[Objects] /\ j <= C[<<"tlvs", i>>]
    <3>1. PICK i, j \in Nat :
               b = <<"value", i, j>> /\ i <= C[Objects] /\ j <= C[<<"tlvs", i>>]
      BY <2>5
    <3>2. Above(b) = <<"tlvs", i>> /\ Above(Above(b)) = Objects
      BY <3>1, AboveIs
    <3>3. Len(b) = 3 /\ b[2] = i /\ b[3] = j
      BY <3>1
    <3>4. CountOf(s, Objects) = C[Objects]
      BY <1>2, BlockNames
    <3>5. CountOf(s, <<"tlvs", i>>) = C[<<"tlvs", i>>]
      <4>1. <<"tlvs", i>> \in Blocks
        BY "tlvs" \in Names, BlockNames DEF Names
      <4> QED
        BY <1>2, <4>1
    <3> QED
      BY <3>1, <3>2, <3>3, <3>4, <3>5
  <2>6. CASE \E i, j \in Nat :
               b = <<"bytes", i, j>> /\ i <= C[Samples] /\ j <= C[<<"values", i>>]
    <3>1. PICK i, j \in Nat :
               b = <<"bytes", i, j>> /\ i <= C[Samples] /\ j <= C[<<"values", i>>]
      BY <2>6
    <3>2. Above(b) = <<"values", i>> /\ Above(Above(b)) = Samples
      BY <3>1, AboveIs
    <3>3. Len(b) = 3 /\ b[2] = i /\ b[3] = j
      BY <3>1
    <3>4. CountOf(s, Samples) = C[Samples]
      BY <1>2, BlockNames
    <3>5. CountOf(s, <<"values", i>>) = C[<<"values", i>>]
      <4>1. <<"values", i>> \in Blocks
        BY "values" \in Names, BlockNames DEF Names
      <4> QED
        BY <1>2, <4>1
    <3> QED
      BY <3>1, <3>2, <3>3, <3>4, <3>5
  <2> QED
    BY <2>0, <2>1, <2>2, <2>3, <2>4, <2>5, <2>6 DEF InWalk
<1> QED
  BY <1>1, <1>3 DEF Reached, Released, s

LEMMA KeptIf ==
  ASSUME NEW F, NEW L, NEW C \in [Blocks -> Nat], Reached(State(F, C, L)),
         Transforms \in F \/ C[Transforms] = 0,
         Objects \in F \/ C[Objects] = 0,
         \A i \in 1 .. C[Objects] : <<"tlvs", i>> \in F,
         Samples \in F => \A i \in 1 .. C[Samples] : <<"values", i>> \in F
  PROVE  Kept(State(F, C, L))
<1> DEFINE s == State(F, C, L)
<1>1. s.fields = F /\ s.counts = C
  BY DEF State
<1>2. \A a \in Blocks : CountOf(s, a) = C[a]
  BY <1>1 DEF CountOf
<1> HIDE DEF s
<1>3. ASSUME NEW array \in Walked(s), CountOf(s, array) > 0 PROVE array \in F
  <2>1. CASE array = Transforms
    BY <1>2, <1>3, <2>1, BlockNames
  <2>2. CASE array = Objects
    BY <1>2, <1>3, <2>2, BlockNames
  <2>3. CASE \E i \in 1 .. CountOf(s, Objects) : array = <<"tlvs", i>>
    BY <1>2, <2>3, BlockNames
  <2>4. CASE /\ Samples \in F
             /\ \E i \in 1 .. CountOf(s, Samples) : array = <<"values", i>>
    BY <1>2, <2>4, BlockNames
  <2> QED
    BY <1>1, <1>3, <2>1, <2>2, <2>3, <2>4 DEF Walked
<1> QED
  BY <1>1, <1>3 DEF Kept, ReadsMissing, s

-----------------------------------------------------------------------------
(* SCMA records. *)

NoCounts == [a \in Blocks |-> 0]

Tlvs(i) == {<<"tlvs", k>> : k \in 1 .. i}
\* n objects are announced, and i of them have their t TLVs counted.
SchemaCounts(n, t, i) ==
  [a \in Blocks |-> IF a = Objects THEN n ELSE IF a \in Tlvs(i) THEN t ELSE 0]

SchemaFields(i, t) ==
  {Objects} \cup Tlvs(i) \cup {<<"value", k, j>> : k \in 1 .. i, j \in 1 .. t}

TlvCountsAre(C, n, t, i) ==
  /\ C \in [Blocks -> Nat] /\ C[Objects] = n
  /\ \A k \in 1 .. i : C[<<"tlvs", k>>] = t

LEMMA SchemaCountsAre ==
  ASSUME NEW n \in Nat, NEW t \in Nat, NEW i \in Nat
  PROVE  /\ SchemaCounts(n, t, i) \in [Blocks -> Nat]
         /\ SchemaCounts(n, t, i)[Objects] = n
         /\ SchemaCounts(n, t, i)[Transforms] = 0
         /\ SchemaCounts(n, t, i)[Samples] = 0
<1>1. \A a \in Blocks : (IF a = Objects THEN n ELSE IF a \in Tlvs(i) THEN t ELSE 0) \in Nat
  OBVIOUS
<1>2. Objects # Transforms /\ Objects # Samples
  BY DEF Objects, Transforms, Samples
<1>3. Transforms \notin Tlvs(i) /\ Samples \notin Tlvs(i)
  BY DEF Tlvs, Transforms, Samples
<1> QED
  BY <1>1, <1>2, <1>3, BlockNames DEF SchemaCounts

LEMMA SchemaTlvCounts ==
  ASSUME NEW n \in Nat, NEW t \in Nat, NEW i \in Nat
  PROVE  TlvCountsAre(SchemaCounts(n, t, i), n, t, i)
<1>1. /\ SchemaCounts(n, t, i) \in [Blocks -> Nat]
      /\ SchemaCounts(n, t, i)[Objects] = n
  BY SchemaCountsAre
<1>2. ASSUME NEW k \in 1 .. i
      PROVE  <<"tlvs", k>> \in Blocks /\ <<"tlvs", k>> \in Tlvs(i) /\ <<"tlvs", k>> # Objects
  <2>1. <<"tlvs", k>> \in Blocks
    BY k \in Nat, "tlvs" \in Names, BlockNames DEF Names
  <2> QED
    BY <2>1 DEF Tlvs, Objects
<1>3. ASSUME NEW k \in 1 .. i
      PROVE  SchemaCounts(n, t, i)[<<"tlvs", k>>] = t
  <2> DEFINE a == <<"tlvs", k>>
  <2>1. a \in Blocks /\ a \in Tlvs(i) /\ a # Objects
    BY <1>2
  <2> HIDE DEF a
  <2>2. SchemaCounts(n, t, i)[a] = t
    BY <2>1 DEF SchemaCounts
  <2> QED
    BY <2>2 DEF a
<1> QED
  BY <1>1, <1>3 DEF TlvCountsAre

LEMMA SchemaCountsNext ==
  ASSUME NEW n \in Nat, NEW t \in Nat, NEW i \in Nat \ {0}
  PROVE  [SchemaCounts(n, t, i - 1) EXCEPT ![<<"tlvs", i>>] = t] = SchemaCounts(n, t, i)
<1>1. <<"tlvs", i>> \in Blocks
  BY "tlvs" \in Names, BlockNames DEF Names
<1>2. Tlvs(i) = Tlvs(i - 1) \cup {<<"tlvs", i>>}
  <2>1. 1 .. i = (1 .. i - 1) \cup {i}
    OBVIOUS
  <2> QED
    BY <2>1 DEF Tlvs
<1>3. <<"tlvs", i>> # Objects
  BY DEF Objects
<1> QED
  BY <1>1, <1>2, <1>3 DEF SchemaCounts

\* As far as the values of the TLVs of object i, j of them.
LEMMA SchemaReached ==
  ASSUME NEW n \in Nat, NEW t \in Nat, NEW i \in 0 .. n
  PROVE  Reached(State(SchemaFields(i, t), SchemaCounts(n, t, i), {}))
<1> DEFINE C == SchemaCounts(n, t, i)
<1> HIDE DEF C
<1>0. i \in Nat
  OBVIOUS
<1>1. /\ C \in [Blocks -> Nat] /\ C[Objects] = n
      /\ \A k \in 1 .. i : C[<<"tlvs", k>>] = t
  <2>1. TlvCountsAre(SchemaCounts(n, t, i), n, t, i)
    BY <1>0, SchemaTlvCounts
  <2>2. TlvCountsAre(C, n, t, i)
    BY <2>1 DEF C
  <2> QED
    BY <2>2 DEF TlvCountsAre
<1>2. ASSUME NEW b \in SchemaFields(i, t) PROVE InWalk(b, C)
  <2>1. CASE b = Objects
    BY <2>1, "objects" \in Names DEF Objects, InWalk, Names
  <2>2. CASE b \in Tlvs(i)
    BY <1>1, <2>2 DEF Tlvs, InWalk
  <2>3. CASE b \in {<<"value", k, j>> : k \in 1 .. i, j \in 1 .. t}
    <3>1. PICK k \in 1 .. i, j \in 1 .. t : b = <<"value", k, j>>
      BY <2>3
    <3>2. k \in Nat /\ j \in Nat /\ k <= C[Objects] /\ j <= C[<<"tlvs", k>>]
      BY <1>1, <3>1
    <3> QED
      BY <3>1, <3>2 DEF InWalk
  <2> QED
    BY <2>1, <2>2, <2>3 DEF SchemaFields
<1>3. Reached(State(SchemaFields(i, t), C, {}))
  BY <1>1, <1>2, ReachedIf
<1> QED
  BY <1>3 DEF C

\* What is reached stays reached when there are fewer fields.
LEMMA ReachedLess ==
  ASSUME NEW F, NEW G \in SUBSET F, NEW C \in [Blocks -> Nat], NEW L, NEW K,
         Reached(State(F, C, L))
  PROVE  Reached(State(G, C, K))
<1> DEFINE s == State(F, C, L)
           t == State(G, C, K)
<1>1. s.fields = F /\ s.counts = C /\ t.fields = G /\ t.counts = C
  BY DEF State
<1>2. \A a : CountOf(s, a) = CountOf(t, a)
  BY <1>1 DEF CountOf
<1> HIDE DEF s, t
<1>3. Reached(s) => Reached(t)
  BY <1>1, <1>2 DEF Reached, Released
<1> QED
  BY <1>3 DEF s, t

(***************************************************************************)
(* parse_schema for one object and its TLVs.                               *)
(***************************************************************************)
LEMMA EndsParseTlvs ==
  ASSUME NEW n \in Nat, NEW t \in Nat, NEW i \in 1 .. n
  PROVE  Ends(<<Malformed({})>> \o ParseTlvs(i, t),
              State(SchemaFields(i - 1, t), SchemaCounts(n, t, i - 1), {}),
              State(SchemaFields(i, t), SchemaCounts(n, t, i), {}))
<1> DEFINE old == SchemaFields(i - 1, t)
           array == <<"tlvs", i>>
           C0 == SchemaCounts(n, t, i - 1)
           C1 == SchemaCounts(n, t, i)
           s0 == State(old, C0, {})
           F(j) == (old \cup {array}) \cup {<<"value", i, k>> : k \in 1 .. j}
           g == [j \in 0 .. t |-> State(F(j), C1, {})]
<1>0. i \in Nat /\ i - 1 \in 0 .. n /\ i # 0 /\ i \in 0 .. n
  OBVIOUS
<1>1. Reached(s0)
  BY <1>0, SchemaReached
<1>2. C1 \in [Blocks -> Nat] /\ C0 \in [Blocks -> Nat]
  BY <1>0, SchemaCountsAre
<1>3. array \in Blocks /\ array \notin old
  <2>1. array \in Blocks
    BY <1>0, "tlvs" \in Names, BlockNames DEF Names
  <2>2. array # Objects
    BY DEF Objects
  <2>3. array \notin Tlvs(i - 1)
    BY DEF Tlvs
  <2>4. array \notin {<<"value", k, j>> : k \in 1 .. i - 1, j \in 1 .. t}
    OBVIOUS
  <2> QED
    BY <2>1, <2>2, <2>3, <2>4 DEF SchemaFields
<1>4. F(t) = SchemaFields(i, t) /\ F(0) = old \cup {array}
  <2>1. 1 .. i = (1 .. i - 1) \cup {i} /\ 1 .. 0 = {}
    OBVIOUS
  <2>2. Tlvs(i) = Tlvs(i - 1) \cup {array}
    BY <2>1 DEF Tlvs
  <2>3. {<<"value", k, j>> : k \in 1 .. i, j \in 1 .. t}
          = {<<"value", k, j>> : k \in 1 .. i - 1, j \in 1 .. t}
              \cup {<<"value", i, k>> : k \in 1 .. t}
    BY <2>1
  <2> QED
    BY <2>1, <2>2, <2>3 DEF SchemaFields
<1>5. Reached(State(SchemaFields(i, t), C1, {}))
  BY <1>0, SchemaReached
<1>6. ASSUME NEW j \in 0 .. t PROVE Reached(State(F(j), C1, {}))
  <2>1. F(j) \subseteq F(t)
    OBVIOUS
  <2> QED
    BY <1>2, <1>4, <1>5, <2>1, ReachedLess
<1>7. Ends(<<Malformed({})>>, s0, s0)
  BY <1>1, MeetsMalformed, EndsOne
<1>8. Ends(Keep(array, {}), s0, State(old \cup {array}, C0, {}))
  BY <1>1, <1>3, EndsKeep
<1>9. Ends(<<SetCount(array, t)>>, State(old \cup {array}, C0, {}), g[0])
  <2>1. [C0 EXCEPT ![array] = t] = C1
    BY <1>0, SchemaCountsNext
  <2>2. g[0] = State(old \cup {array}, C1, {})
    <3>1. 0 \in 0 .. t
      OBVIOUS
    <3>2. g[0] = State(F(0), C1, {})
      BY <3>1
    <3> QED
      BY <1>4, <3>2
  <2> QED
    BY <1>3, <2>1, <2>2, MeetsCount, EndsOne
<1>10. ASSUME NEW j \in 1 .. t
       PROVE  Ends(Keep(<<"value", i, j>>, {}), g[j - 1], g[j])
  <2> DEFINE b == <<"value", i, j>>
  <2>1. b \in Blocks
    BY <1>0, j \in Nat, "value" \in Names, BlockNames DEF Names
  <2>2. b \notin F(j - 1)
    <3>1. b # Objects /\ b # array
      BY DEF Objects
    <3>2. b \notin Tlvs(i - 1)
      BY DEF Tlvs
    <3>3. b \notin {<<"value", k, l>> : k \in 1 .. i - 1, l \in 1 .. t}
      OBVIOUS
    <3>4. b \notin {<<"value", i, k>> : k \in 1 .. j - 1}
      OBVIOUS
    <3> QED
      BY <3>1, <3>2, <3>3, <3>4 DEF SchemaFields
  <2>3. F(j) = F(j - 1) \cup {b}
    <3>1. 1 .. j = (1 .. j - 1) \cup {j}
      OBVIOUS
    <3> QED
      BY <3>1
  <2>4. j - 1 \in 0 .. t /\ j \in 0 .. t
    OBVIOUS
  <2>5. g[j - 1] = State(F(j - 1), C1, {}) /\ g[j] = State(F(j - 1) \cup {b}, C1, {})
    BY <2>3, <2>4
  <2> HIDE DEF F, b
  <2>6. Ends(Keep(b, {}), State(F(j - 1), C1, {}), State(F(j - 1) \cup {b}, C1, {}))
    BY <1>6, <2>1, <2>2, <2>4, EndsKeep
  <2> QED
    BY <2>5, <2>6 DEF b
<1> DEFINE loop == [j \in 1 .. t |-> Keep(<<"value", i, j>>, {})]
<1>11. Ends(FlattenSeq(loop), g[0], g[t])
  <2>1. loop = [j \in 1 .. t |-> loop[j]]
    OBVIOUS
  <2>2. \A j \in 1 .. t : Ends(loop[j], g[j - 1], g[j])
    BY <1>10
  <2> HIDE DEF loop, g
  <2> QED
    BY <2>1, <2>2, EndsLoop
<1>12. g[t] = State(SchemaFields(i, t), C1, {})
  <2>1. t \in 0 .. t
    OBVIOUS
  <2>2. g[t] = State(F(t), C1, {})
    BY <2>1
  <2> QED
    BY <1>4, <2>2
<1>13. Ends(ParseTlvs(i, t), s0, g[t])
  <2>1. Ends(<<Malformed({})>> \o Keep(array, {}), s0, State(old \cup {array}, C0, {}))
    BY <1>7, <1>8, EndsConcat
  <2>2. Ends(<<Malformed({})>> \o Keep(array, {}) \o <<SetCount(array, t)>>, s0, g[0])
    BY <1>9, <2>1, EndsConcat
  <2>3. Ends(<<Malformed({})>> \o Keep(array, {}) \o <<SetCount(array, t)>>
               \o FlattenSeq(loop), s0, g[t])
    BY <1>11, <2>2, EndsConcat
  <2> QED
    BY <2>3 DEF ParseTlvs
<1> HIDE DEF g
<1> QED
  BY <1>7, <1>12, <1>13, EndsConcat

Fresh == State({}, NoCounts, {})

GoesOn(ops, s) == \E t : Ends(ops, s, t) /\ t.locals = {} /\ Kept(t)

\* From a fresh record to one that may be kept, with nothing left over.
Parsed(ops) == GoesOn(ops, Fresh)

LEMMA FreshIsReached ==
  ASSUME NEW C \in [Blocks -> Nat], NEW L
  PROVE  Reached(State({}, C, L))
BY ReachedIf

LEMMA NoCountsType == NoCounts \in [Blocks -> Nat] /\ \A a \in Blocks : NoCounts[a] = 0
BY DEF NoCounts

LEMMA EndsMalformed ==
  ASSUME NEW F, NEW C, NEW L, Reached(State(F, C, L))
  PROVE  Ends(<<Malformed(L)>>, State(F, C, L), State(F, C, L))
BY MeetsMalformed, EndsOne

\* One bitfield leaves nothing behind.
LEMMA EndsValidateBitfield ==
  ASSUME NEW F, NEW C \in [Blocks -> Nat], Reached(State(F, C, {})),
         <<"used">> \notin F
  PROVE  Ends(ValidateBitfield, State(F, C, {}), State(F, C, {}))
<1> DEFINE used == <<"used">>
           s == State(F, C, {})
           t == State(F, C, {used})
<1>1. {"MEMORY"} \in SUBSET Failures
  BY DEF Failures
<1>2. used \in Blocks
  BY "used" \in Names, BlockNames DEF Names
<1>3. Reached(t)
  BY F \in SUBSET F, ReachedLess
<1>4. Ends(<<Malformed({})>>, s, s)
  BY EndsMalformed
<1>5. /\ Meets(Claim(used, {"MEMORY"}, {}), s)
      /\ After(Claim(used, {"MEMORY"}, {}), s) = t
  <2> DEFINE none == {}
             op == Claim(used, {"MEMORY"}, none)
  <2>1. used \notin F /\ used \notin none /\ Reached(State(F, C, none))
    OBVIOUS
  <2>2. /\ s = State(F, C, none)
        /\ t = State(F, C, none \cup {used})
        /\ op = Claim(used, {"MEMORY"}, {})
    OBVIOUS
  <2> HIDE DEF none, used, s, t, op
  <2>3. /\ Meets(op, State(F, C, none))
        /\ After(op, State(F, C, none)) = State(F, C, none \cup {used})
    BY <1>1, <1>2, <2>1, MeetsClaim DEF op
  <2> QED
    BY <2>2, <2>3
<1>6. Meets(Malformed({used}), t) /\ After(Malformed({used}), t) = t
  BY <1>3, MeetsMalformed
<1>7. Meets(Drop({used}), t) /\ After(Drop({used}), t) = s
  <2>1. {used} \in SUBSET {used} /\ {used} \ {used} = {}
    OBVIOUS
  <2> QED
    BY <2>1, MeetsDrop
<1> HIDE DEF s, t
<1>8. Ends(<<Claim(used, {"MEMORY"}, {}), Malformed({used}), Drop({used})>>, s, s)
  BY <1>5, <1>6, <1>7, EndsThree
<1>9. ValidateBitfield
        = <<Malformed({})>>
            \o <<Claim(used, {"MEMORY"}, {}), Malformed({used}), Drop({used})>>
  BY DEF ValidateBitfield
<1> QED
  BY <1>4, <1>8, <1>9, EndsConcat DEF s

(***************************************************************************)
(* parse_schema.                                                           *)
(***************************************************************************)
LEMMA ParsedSchema ==
  ASSUME NEW n \in Nat, NEW t \in Nat, NEW b \in Nat
  PROVE  Parsed(ParseSchema(n, t, b))
<1> DEFINE C == SchemaCounts(n, t, 0)
           s1 == State({}, C, {})
           g == [i \in 0 .. n |-> State(SchemaFields(i, t), SchemaCounts(n, t, i), {})]
           turns == [i \in 1 .. n |-> <<Malformed({})>> \o ParseTlvs(i, t)]
           last == State(SchemaFields(n, t), SchemaCounts(n, t, n), {})
           head == <<Malformed({}), Check({"LIMIT"}, {}), SetCount(Objects, n)>>
           checks == <<Malformed({}), Check({"FORMAT", "LIMIT"}, {})>>
           fields == [i \in 1 .. b |-> ValidateBitfield]
<1>1. Reached(Fresh)
  BY NoCountsType, FreshIsReached DEF Fresh
<1>2. C \in [Blocks -> Nat] /\ [NoCounts EXCEPT ![Objects] = n] = C
  <2>1. Tlvs(0) = {}
    <3>1. 1 .. 0 = {}
      OBVIOUS
    <3> QED
      BY <3>1 DEF Tlvs
  <2> QED
    BY <2>1, SchemaCountsAre, BlockNames DEF NoCounts, SchemaCounts
<1>3. Ends(head, Fresh, s1)
  <2>1. /\ Meets(Malformed({}), Fresh) /\ After(Malformed({}), Fresh) = Fresh
    BY <1>1, MeetsMalformed DEF Fresh
  <2>2. Meets(Check({"LIMIT"}, {}), Fresh) /\ After(Check({"LIMIT"}, {}), Fresh) = Fresh
    BY <1>1, MeetsCheck, {"LIMIT"} \in SUBSET Failures DEF Fresh, Failures
  <2>3. Meets(SetCount(Objects, n), Fresh) /\ After(SetCount(Objects, n), Fresh) = s1
    BY <1>2, MeetsCount, BlockNames DEF Fresh
  <2> QED
    BY <2>1, <2>2, <2>3, EndsThree
<1>4. Ends(Keep(Objects, {}), s1, g[0])
  <2>1. Reached(s1)
    BY <1>2, FreshIsReached
  <2>2. SchemaFields(0, t) = {} \cup {Objects}
    <3>1. 1 .. 0 = {}
      OBVIOUS
    <3> QED
      BY <3>1 DEF SchemaFields, Tlvs
  <2>3. g[0] = State({} \cup {Objects}, C, {})
    <3>1. 0 \in 0 .. n
      OBVIOUS
    <3>2. g[0] = State(SchemaFields(0, t), C, {})
      BY <3>1
    <3> QED
      BY <2>2, <3>2
  <2> HIDE DEF g, C
  <2> QED
    BY <2>1, <2>3, BlockNames, EndsKeep
<1>5. Ends(FlattenSeq(turns), g[0], g[n])
  <2>1. turns = [i \in 1 .. n |-> turns[i]]
    OBVIOUS
  <2>2. ASSUME NEW i \in 1 .. n PROVE Ends(turns[i], g[i - 1], g[i])
    <3>1. i - 1 \in 0 .. n /\ i \in 0 .. n
      OBVIOUS
    <3>2. /\ g[i - 1] = State(SchemaFields(i - 1, t), SchemaCounts(n, t, i - 1), {})
          /\ g[i] = State(SchemaFields(i, t), SchemaCounts(n, t, i), {})
          /\ turns[i] = <<Malformed({})>> \o ParseTlvs(i, t)
      BY <3>1
    <3> HIDE DEF g, turns
    <3> QED
      BY <3>2, EndsParseTlvs
  <2> HIDE DEF turns, g
  <2> QED
    BY <2>1, <2>2, EndsLoop
<1>6. g[n] = last
  OBVIOUS
<1>7. Reached(last)
  BY SchemaReached, n \in 0 .. n
<1>8. Ends(checks, last, last)
  <2>1. Meets(Malformed({}), last) /\ After(Malformed({}), last) = last
    BY <1>7, MeetsMalformed
  <2>2. /\ Meets(Check({"FORMAT", "LIMIT"}, {}), last)
        /\ After(Check({"FORMAT", "LIMIT"}, {}), last) = last
    BY <1>7, MeetsCheck, {"FORMAT", "LIMIT"} \in SUBSET Failures DEF Failures
  <2> HIDE DEF last
  <2> QED
    BY <2>1, <2>2, EndsTwo
<1>14. Ends(FlattenSeq(fields), last, last)
  <2>1. <<"used">> \notin SchemaFields(n, t)
    <3>1. <<"used">> # Objects
      BY DEF Objects
    <3>2. <<"used">> \notin Tlvs(n)
      BY DEF Tlvs
    <3> QED
      BY <3>1, <3>2 DEF SchemaFields
  <2>2. SchemaCounts(n, t, n) \in [Blocks -> Nat]
    BY SchemaCountsAre
  <2>3. Ends(ValidateBitfield, last, last)
    BY <1>7, <2>1, <2>2, EndsValidateBitfield
  <2> DEFINE h == [i \in 0 .. b |-> last]
  <2>4. fields = [i \in 1 .. b |-> fields[i]]
    OBVIOUS
  <2>5. \A i \in 1 .. b : Ends(fields[i], h[i - 1], h[i])
    <3> HIDE DEF last
    <3>1. \A i \in 1 .. b : h[i - 1] = last /\ h[i] = last /\ fields[i] = ValidateBitfield
      OBVIOUS
    <3> HIDE DEF h, fields
    <3> QED
      BY <2>3, <3>1
  <2>6. h[0] = last /\ h[b] = last
    OBVIOUS
  <2> HIDE DEF h, fields, last
  <2> QED
    BY <2>4, <2>5, <2>6, EndsLoop
<1>15. Ends(<<Malformed({})>>, last, last)
  BY <1>7, EndsMalformed
<1>9. Ends(ParseSchema(n, t, b), Fresh, last)
  <2> HIDE DEF g, last, head, checks, fields, turns
  <2>1. Ends(head \o Keep(Objects, {}), Fresh, g[0])
    BY <1>3, <1>4, EndsConcat
  <2>2. Ends(head \o Keep(Objects, {}) \o FlattenSeq(turns), Fresh, last)
    BY <1>5, <1>6, <2>1, EndsConcat
  <2>3. Ends(head \o Keep(Objects, {}) \o FlattenSeq(turns) \o checks, Fresh, last)
    BY <1>8, <2>2, EndsConcat
  <2>4. Ends(head \o Keep(Objects, {}) \o FlattenSeq(turns) \o checks
               \o FlattenSeq(fields), Fresh, last)
    BY <1>14, <2>3, EndsConcat
  <2>5. Ends(head \o Keep(Objects, {}) \o FlattenSeq(turns) \o checks
               \o FlattenSeq(fields) \o <<Malformed({})>>, Fresh, last)
    BY <1>15, <2>4, EndsConcat
  <2> QED
    BY <2>5 DEF ParseSchema, head, turns, checks, fields
<1>10. Kept(last)
  <2> DEFINE F == SchemaFields(n, t)
             D == SchemaCounts(n, t, n)
  <2>1. D \in [Blocks -> Nat] /\ D[Objects] = n /\ D[Transforms] = 0 /\ D[Samples] = 0
    BY SchemaCountsAre
  <2>2. Objects \in F /\ \A i \in 1 .. n : <<"tlvs", i>> \in F
    BY DEF SchemaFields, Tlvs
  <2>3. \A i \in 1 .. D[Samples] : <<"values", i>> \in F
    BY <2>1
  <2> HIDE DEF F, D
  <2>4. Reached(State(F, D, {}))
    BY <1>7 DEF F, D
  <2>5. Kept(State(F, D, {}))
    BY <2>1, <2>2, <2>3, <2>4, KeptIf
  <2> QED
    BY <2>5 DEF F, D
<1>11. last.locals = {}
  BY DEF State
<1> HIDE DEF last
<1> QED
  BY <1>9, <1>10, <1>11 DEF Parsed, GoesOn

-----------------------------------------------------------------------------
(* The records without arrays to walk. *)

\* Fields of which none hangs on an element, and no count of an array that
\* is walked.
Plain(F, C) ==
  /\ C \in [Blocks -> Nat]
  /\ C[Transforms] = 0 /\ C[Objects] = 0
  /\ Samples \notin F /\ \A b \in F : \E x \in Names : b = <<x>>

LEMMA PlainIsKept ==
  ASSUME NEW F, NEW C, NEW L, Plain(F, C)
  PROVE  Reached(State(F, C, L)) /\ Kept(State(F, C, L))
<1>1. Reached(State(F, C, L))
  BY ReachedIf DEF Plain, InWalk
<1>2. \A i \in 1 .. C[Objects] : <<"tlvs", i>> \in F
  BY DEF Plain
<1> QED
  BY <1>1, <1>2, KeptIf DEF Plain

LEMMA FreshIsPlain == Plain({}, NoCounts)
BY NoCountsType, BlockNames DEF Plain

LEMMA EndsKeepPlain ==
  ASSUME NEW F, NEW C, Plain(F, C), NEW x \in Names, <<x>> \notin F, <<x>> # Samples
  PROVE  /\ Plain(F \cup {<<x>>}, C)
         /\ Ends(Keep(<<x>>, {}), State(F, C, {}), State(F \cup {<<x>>}, C, {}))
<1>1. Plain(F \cup {<<x>>}, C)
  BY DEF Plain
<1> QED
  BY <1>1, PlainIsKept, EndsKeep, BlockNames

LEMMA ParsedText == Parsed(ParseText)
<1> DEFINE t == State({} \cup {<<"message">>}, NoCounts, {})
<1>1. Ends(<<Check({"LIMIT", "FORMAT"}, {})>>, Fresh, Fresh)
  BY FreshIsPlain, PlainIsKept, MeetsCheck, EndsOne,
     {"LIMIT", "FORMAT"} \in SUBSET Failures DEF Fresh, Failures
<1>2. /\ Plain({} \cup {<<"message">>}, NoCounts)
      /\ Ends(Keep(<<"message">>, {}), Fresh, t)
  BY "message" \in Names, "message" # "samples", FreshIsPlain, EndsKeepPlain
     DEF Names, Samples, Fresh
<1>3. t.locals = {}
  BY DEF State
<1>4. Kept(t)
  BY <1>2, PlainIsKept
<1> HIDE DEF t
<1> QED
  BY <1>1, <1>2, <1>3, <1>4, EndsConcat DEF ParseText, Parsed, GoesOn

LEMMA ParsedUnknown == Parsed(ParseUnknown)
<1> DEFINE s == State({} \cup {<<"type_header">>}, NoCounts, {})
           t == State(({} \cup {<<"type_header">>}) \cup {<<"payload">>}, NoCounts, {})
<1>1. /\ Plain({} \cup {<<"type_header">>}, NoCounts)
      /\ Ends(Keep(<<"type_header">>, {}), Fresh, s)
  BY "type_header" \in Names, FreshIsPlain, EndsKeepPlain
     DEF Names, Samples, Fresh
<1>2. /\ Plain(({} \cup {<<"type_header">>}) \cup {<<"payload">>}, NoCounts)
      /\ Ends(Keep(<<"payload">>, {}), s, t)
  <2>1. <<"payload">> \notin {} \cup {<<"type_header">>} /\ <<"payload">> # Samples
    BY DEF Samples
  <2> QED
    BY <1>1, <2>1, "payload" \in Names, EndsKeepPlain DEF Names
<1>3. t.locals = {}
  BY DEF State
<1>4. Kept(t)
  BY <1>2, PlainIsKept
<1> HIDE DEF s, t
<1> QED
  BY <1>1, <1>2, <1>3, <1>4, EndsConcat DEF ParseUnknown, Parsed, GoesOn

LEMMA ParsedEnd == Parsed(<<Malformed({})>>)
<1>1. Ends(<<Malformed({})>>, Fresh, Fresh) /\ Kept(Fresh)
  BY FreshIsPlain, PlainIsKept, EndsMalformed DEF Fresh
<1>2. Fresh.locals = {}
  BY DEF Fresh, State
<1> QED
  BY <1>1, <1>2 DEF Parsed, GoesOn

LEMMA ParsedIndex ==
  ASSUME NEW n \in Nat
  PROVE  Parsed(ParseIndex(n))
<1> DEFINE e == <<"entries">>
           F == {} \cup {e}
           C == [NoCounts EXCEPT ![e] = n]
           t == State(F, C, {})
<1>1. Ends(<<Malformed({})>>, Fresh, Fresh)
  BY FreshIsPlain, PlainIsKept, EndsMalformed DEF Fresh
<1>2. Plain(F, NoCounts) /\ Ends(Keep(e, {}), Fresh, State(F, NoCounts, {}))
  BY "entries" \in Names, FreshIsPlain, EndsKeepPlain DEF Names, Samples, Fresh
<1>3. e \in Blocks /\ e # Transforms /\ e # Objects
  BY "entries" \in Names, BlockNames DEF Names, Transforms, Objects
<1>4. Plain(F, C)
  <2>1. C \in [Blocks -> Nat]
    BY NoCountsType
  <2>2. C[Transforms] = 0 /\ C[Objects] = 0
    BY <1>3, NoCountsType, BlockNames
  <2> HIDE DEF C
  <2> QED
    BY <1>2, <2>1, <2>2 DEF Plain
<1>5. Ends(<<SetCount(e, n), Malformed({})>>, State(F, NoCounts, {}), t)
  <2>1. Meets(Malformed({}), t) /\ After(Malformed({}), t) = t
    BY <1>4, PlainIsKept, MeetsMalformed
  <2> QED
    BY <1>3, <2>1, MeetsCount, EndsTwo
<1>6. t.locals = {}
  BY DEF State
<1>7. Kept(t)
  BY <1>4, PlainIsKept
<1>8. Ends(ParseIndex(n), Fresh, t)
  <2> HIDE DEF t, F
  <2>1. Ends(<<Malformed({})>> \o Keep(e, {}), Fresh, State(F, NoCounts, {}))
    BY <1>1, <1>2, EndsConcat
  <2>2. Ends(<<Malformed({})>> \o Keep(e, {}) \o <<SetCount(e, n), Malformed({})>>, Fresh, t)
    BY <1>5, <2>1, EndsConcat
  <2> QED
    BY <2>2 DEF ParseIndex
<1> HIDE DEF t
<1> QED
  BY <1>6, <1>7, <1>8 DEF Parsed, GoesOn

-----------------------------------------------------------------------------
(* Transforms. *)

TransformFields(n) == {Transforms} \cup Parameters(n)

LEMMA ParametersAre ==
  ASSUME NEW i \in Nat
  PROVE  /\ Parameters(0) = {}
         /\ Parameters(i + 1) = Parameters(i) \cup {<<"parameters", i + 1>>}
         /\ <<"parameters", i + 1>> \notin TransformFields(i)
         /\ <<"parameters", i + 1>> \in Blocks
<1>1. 1 .. 0 = {} /\ 1 .. i + 1 = (1 .. i) \cup {i + 1} /\ i + 1 \notin 1 .. i
  OBVIOUS
<1>2. <<"parameters", i + 1>> # Transforms
  BY DEF Transforms
<1>3. <<"parameters", i + 1>> \notin Parameters(i)
  BY <1>1 DEF Parameters
<1>4. <<"parameters", i + 1>> \in Blocks
  BY i + 1 \in Nat, "parameters" \in Names, BlockNames DEF Names
<1>5. Parameters(0) = {}
  BY <1>1 DEF Parameters
<1>6. Parameters(i + 1) = Parameters(i) \cup {<<"parameters", i + 1>>}
  BY <1>1 DEF Parameters
<1> QED
  BY <1>2, <1>3, <1>4, <1>5, <1>6 DEF TransformFields

(***************************************************************************)
(* parse_transforms, which fails with all of its list released and hands   *)
(* it over whole.                                                          *)
(***************************************************************************)
LEMMA EndsParseTransforms ==
  ASSUME NEW n \in Nat, NEW C \in [Blocks -> Nat]
  PROVE  Ends(ParseTransforms(n), State({}, C, {}), State(TransformFields(n), C, {}))
<1> DEFINE T(i) == {Transforms} \cup Parameters(i)
           g == [i \in 0 .. n |-> State({}, C, T(i))]
           turns == [i \in 1 .. n |->
              LET sofar == {Transforms} \cup Parameters(i - 1) IN
              <<Malformed(sofar), Claim(<<"parameters", i>>, {"MEMORY"}, sofar),
                Malformed({Transforms} \cup Parameters(i))>>]
           first == <<Claim(Transforms, {"MEMORY"}, {})>>
           last == <<Give({Transforms} \cup Parameters(n))>>
           end == State(TransformFields(n), C, {})
<1>1. {"MEMORY"} \in SUBSET Failures
  BY DEF Failures
<1>2. \A L : Reached(State({}, C, L))
  BY FreshIsReached
<1>3. Ends(first, State({}, C, {}), g[0])
  <2>1. T(0) = {} \cup {Transforms}
    BY 0 \in Nat, ParametersAre
  <2>2. g[0] = State({}, C, {} \cup {Transforms})
    <3>1. 0 \in 0 .. n
      OBVIOUS
    <3>2. g[0] = State({}, C, T(0))
      BY <3>1
    <3> QED
      BY <2>1, <3>2
  <2> HIDE DEF g
  <2> QED
    BY <1>1, <1>2, <2>2, BlockNames, MeetsClaim, EndsOne
<1>4. ASSUME NEW i \in 1 .. n PROVE Ends(turns[i], g[i - 1], g[i])
  <2> DEFINE b == <<"parameters", i>>
             s == State({}, C, T(i - 1))
             u == State({}, C, T(i))
  <2>1. i - 1 \in Nat /\ (i - 1) + 1 = i /\ i - 1 \in 0 .. n /\ i \in 0 .. n
    OBVIOUS
  <2>2. g[i - 1] = s /\ g[i] = u
    BY <2>1
  <2>3. b \in Blocks /\ b \notin T(i - 1) /\ T(i) = T(i - 1) \cup {b}
    <3>1. /\ Parameters((i - 1) + 1)
               = Parameters(i - 1) \cup {<<"parameters", (i - 1) + 1>>}
          /\ <<"parameters", (i - 1) + 1>> \notin TransformFields(i - 1)
          /\ <<"parameters", (i - 1) + 1>> \in Blocks
      BY <2>1, ParametersAre
    <3> QED
      BY <2>1, <3>1 DEF TransformFields
  <2>4. Meets(Malformed(T(i - 1)), s) /\ After(Malformed(T(i - 1)), s) = s
    BY <1>2, MeetsMalformed
  <2>5. /\ Meets(Claim(b, {"MEMORY"}, T(i - 1)), s)
        /\ After(Claim(b, {"MEMORY"}, T(i - 1)), s) = u
    <3> HIDE DEF T, b
    <3> QED
      BY <1>1, <1>2, <2>3, MeetsClaim
  <2>6. Meets(Malformed(T(i)), u) /\ After(Malformed(T(i)), u) = u
    BY <1>2, MeetsMalformed
  <2>7. turns[i] = <<Malformed(T(i - 1)), Claim(b, {"MEMORY"}, T(i - 1)), Malformed(T(i))>>
    OBVIOUS
  <2> HIDE DEF turns, g, s, u, T, b
  <2> QED
    BY <2>2, <2>4, <2>5, <2>6, <2>7, EndsThree
<1>5. Ends(FlattenSeq(turns), g[0], g[n])
  <2>1. turns = [i \in 1 .. n |-> turns[i]]
    OBVIOUS
  <2> HIDE DEF turns, g
  <2> QED
    BY <1>4, <2>1, EndsLoop
<1>6. g[n] = State({}, C, T(n))
  OBVIOUS
<1>7. Ends(last, g[n], end)
  <2>1. T(n) \in SUBSET T(n) /\ T(n) \ T(n) = {} /\ {} \cup T(n) = TransformFields(n)
    BY DEF TransformFields
  <2>2. last = <<Give(T(n))>>
    OBVIOUS
  <2> HIDE DEF T, g, last
  <2> QED
    BY <1>6, <2>1, <2>2, MeetsGive, EndsOne
<1>8. Ends(first \o FlattenSeq(turns) \o last, State({}, C, {}), end)
  <2> HIDE DEF first, turns, last, g, end
  <2>1. Ends(first \o FlattenSeq(turns), State({}, C, {}), g[n])
    BY <1>3, <1>5, EndsConcat
  <2> QED
    BY <1>7, <2>1, EndsConcat
<1> QED
  BY <1>8 DEF ParseTransforms

\* Plain fields, but not the samples, and the transforms that are counted.
WithTransforms(F, C) ==
  /\ C \in [Blocks -> Nat]
  /\ C[Objects] = 0
  /\ Transforms \in F /\ Samples \notin F
  /\ \A b \in F : b \in Parameters(C[Transforms]) \/ \E x \in Names : b = <<x>>

LEMMA WithTransformsIsKept ==
  ASSUME NEW F, NEW C, NEW L, WithTransforms(F, C)
  PROVE  Reached(State(F, C, L)) /\ Kept(State(F, C, L))
<1>1. ASSUME NEW b \in F PROVE InWalk(b, C)
  <2>1. CASE b \in Parameters(C[Transforms])
    <3>1. PICK i \in 1 .. C[Transforms] : b = <<"parameters", i>>
      BY <2>1 DEF Parameters
    <3>2. i \in Nat /\ i <= C[Transforms]
      BY <3>1, BlockNames DEF WithTransforms
    <3> QED
      BY <3>1, <3>2 DEF InWalk
  <2> QED
    BY <2>1 DEF WithTransforms, InWalk
<1>2. Reached(State(F, C, L))
  BY <1>1, ReachedIf DEF WithTransforms
<1>3. \A i \in 1 .. C[Objects] : <<"tlvs", i>> \in F
  BY DEF WithTransforms
<1> QED
  BY <1>2, <1>3, KeptIf DEF WithTransforms

LEMMA OneMore ==
  ASSUME NEW F, NEW C, WithTransforms(F, C), NEW x \in Names, <<x>> # Samples
  PROVE  WithTransforms(F \cup {<<x>>}, C)
BY DEF WithTransforms

(***************************************************************************)
(* A block is made, filled and moved into a field; what the caller holds   *)
(* is freed when that fails.                                               *)
(***************************************************************************)
LEMMA EndsDecompress ==
  ASSUME NEW F, NEW C, NEW L, NEW b \in Blocks, b \notin F, b \notin L,
         Reached(State(F, C, L)), Reached(State(F, C, L \cup {b}))
  PROVE  Ends(Decompress(b, L), State(F, C, L), State(F, C, L \cup {b}))
<1>1. {"MEMORY"} \in SUBSET Failures
  BY DEF Failures
<1>2. /\ Meets(Claim(b, {"MEMORY"}, L), State(F, C, L))
      /\ After(Claim(b, {"MEMORY"}, L), State(F, C, L)) = State(F, C, L \cup {b})
  BY <1>1, MeetsClaim
<1>3. /\ Meets(Malformed(L \cup {b}), State(F, C, L \cup {b}))
      /\ After(Malformed(L \cup {b}), State(F, C, L \cup {b})) = State(F, C, L \cup {b})
  BY MeetsMalformed
<1> QED
  BY <1>2, <1>3, EndsTwo DEF Decompress

(***************************************************************************)
(* sdaf_decode_transforms, for no transform, for one and for more.         *)
(***************************************************************************)
LEMMA EndsDecodeTransforms ==
  ASSUME NEW n \in Nat, NEW F, NEW C, NEW L, WithTransforms(F, C),
         Decoded \notin F \cup L, <<"intermediate">> \notin F \cup L,
         Work \cap (F \cup L) = {}
  PROVE  Ends(DecodeTransforms(n, L), State(F, C, L), State(F \cup {Decoded}, C, L))
<1> DEFINE inner == <<"intermediate">>
           zigzag == <<"zigzag">>
           previous == <<"previous">>
           raw == <<"raw">>
           end == State(F \cup {Decoded}, C, L)
<1>1. \A K : Reached(State(F, C, K))
  BY WithTransformsIsKept
<1>2. /\ Decoded \in Blocks /\ inner \in Blocks
      /\ zigzag \in Blocks /\ previous \in Blocks /\ raw \in Blocks
  BY "decoded_payload" \in Names, "intermediate" \in Names, "zigzag" \in Names,
     "previous" \in Names, "raw" \in Names, BlockNames DEF Names, Decoded
<1>3. Ends(<<Give({Decoded})>>, State(F, C, L \cup {Decoded}), end)
  <2>1. {Decoded} \in SUBSET (L \cup {Decoded}) /\ (L \cup {Decoded}) \ {Decoded} = L
    OBVIOUS
  <2> QED
    BY <2>1, MeetsGive, EndsOne
<1>4. CASE n = 0
  <2>1. Ends(Keep(Decoded, L), State(F, C, L), end)
    BY <1>1, <1>2, EndsKeep
  <2> QED
    BY <1>4, <2>1 DEF DecodeTransforms
<1>5. CASE n = 1
  <2>1. Ends(Decompress(Decoded, L), State(F, C, L), State(F, C, L \cup {Decoded}))
    BY <1>1, <1>2, EndsDecompress
  <2>2. Ends(Decompress(Decoded, L) \o <<Give({Decoded})>>, State(F, C, L), end)
    BY <1>3, <2>1, EndsConcat
  <2> QED
    BY <1>5, <2>2 DEF DecodeTransforms
<1>6. CASE n # 0 /\ n # 1
  <2> DEFINE all == L \cup Work \cup {inner}
             L1 == L \cup {inner}
             L2 == L \cup {inner, zigzag}
             L3 == L \cup {inner, zigzag, previous}
             o1 == Claim(zigzag, {"MEMORY"}, L1)
             o2 == Malformed(L2)
             o3 == Claim(previous, {"MEMORY"}, L2)
             o4 == Claim(raw, {"MEMORY"}, all \ {raw})
             o5 == Claim(Decoded, {"MEMORY"}, all)
             o6 == Malformed(all \cup {Decoded})
             o7 == Drop(Work \cup {inner})
             o8 == Give({Decoded})
             ops == <<o1, o2, o3, o4, o5, o6, o7, o8>>
             s1 == State(F, C, L1)
             s2 == State(F, C, L2)
             s3 == State(F, C, L3)
             s4 == State(F, C, all)
             s5 == State(F, C, all \cup {Decoded})
             s6 == State(F, C, L \cup {Decoded})
             states == <<s1, s2, s2, s3, s4, s5, s5, s6, end>>
             front == <<Check({"FORMAT", "LIMIT"}, L)>>
  <2>0. {"MEMORY"} \in SUBSET Failures /\ {"FORMAT", "LIMIT"} \in SUBSET Failures
    BY DEF Failures
  <2>1. zigzag \notin F \cup L /\ previous \notin F \cup L /\ raw \notin F \cup L
    BY DEF Work
  <2>2. /\ inner # zigzag /\ inner # previous /\ inner # raw /\ inner # Decoded
        /\ zigzag # previous /\ zigzag # raw /\ zigzag # Decoded
        /\ previous # raw /\ previous # Decoded /\ raw # Decoded
    BY DEF Decoded
  <2>3. all = L \cup {inner, zigzag, previous, raw}
    BY DEF Work
  <2>4. /\ L1 \cup {zigzag} = L2 /\ L2 \cup {previous} = L3
        /\ L3 \cup {raw} = all /\ all \ {raw} = L3
    BY <2>1, <2>2, <2>3
  <2>5. /\ (all \cup {Decoded}) \ (Work \cup {inner}) = L \cup {Decoded}
        /\ Work \cup {inner} \in SUBSET (all \cup {Decoded})
    BY <2>1, <2>2 DEF Work
  <2>6. /\ zigzag \notin L1 /\ previous \notin L2 /\ raw \notin L3
        /\ Decoded \notin all
    BY <2>1, <2>2, <2>3
  <2> HIDE DEF zigzag, previous, raw, inner, all, L1, L2, L3
  <2>11. Meets(o1, s1) /\ s2 = After(o1, s1)
    BY <1>1, <1>2, <2>0, <2>1, <2>4, <2>6, MeetsClaim, SMTT(30)
  <2>12. Meets(o2, s2) /\ s2 = After(o2, s2)
    BY <1>1, MeetsMalformed
  <2>13. Meets(o3, s2) /\ s3 = After(o3, s2)
    BY <1>1, <1>2, <2>0, <2>1, <2>4, <2>6, MeetsClaim, SMTT(30)
  <2>14. Meets(o4, s3) /\ s4 = After(o4, s3)
    BY <1>1, <1>2, <2>0, <2>1, <2>4, <2>6, MeetsClaim, SMTT(30)
  <2>15. Meets(o5, s4) /\ s5 = After(o5, s4)
    BY <1>1, <1>2, <2>0, <2>1, <2>6, MeetsClaim, SMTT(30)
  <2>16. Meets(o6, s5) /\ s5 = After(o6, s5)
    BY <1>1, MeetsMalformed
  <2>17. Meets(o7, s5) /\ s6 = After(o7, s5)
    BY <2>5, MeetsDrop
  <2>18. Meets(o8, s6) /\ end = After(o8, s6)
    <3>1. {Decoded} \in SUBSET (L \cup {Decoded}) /\ (L \cup {Decoded}) \ {Decoded} = L
      OBVIOUS
    <3> QED
      BY <3>1, MeetsGive
  <2>20. Ends(ops, s1, end)
    <3> HIDE DEF o1, o2, o3, o4, o5, o6, o7, o8, s1, s2, s3, s4, s5, s6, end
    <3>1. /\ ops \in Seq({o1, o2, o3, o4, o5, o6, o7, o8}) /\ Len(ops) = 8
          /\ ops[1] = o1 /\ ops[2] = o2 /\ ops[3] = o3 /\ ops[4] = o4
          /\ ops[5] = o5 /\ ops[6] = o6 /\ ops[7] = o7 /\ ops[8] = o8
      OBVIOUS
    <3>2. /\ states[1] = s1 /\ states[2] = s2 /\ states[3] = s2 /\ states[4] = s3
          /\ states[5] = s4 /\ states[6] = s5 /\ states[7] = s5 /\ states[8] = s6
          /\ states[9] = end
      OBVIOUS
    <3> HIDE DEF ops, states
    <3>3. ASSUME NEW k \in 1 .. 8
          PROVE  Meets(ops[k], states[k]) /\ states[k + 1] = After(ops[k], states[k])
      <4>1. \/ k = 1 \/ k = 2 \/ k = 3 \/ k = 4 \/ k = 5 \/ k = 6 \/ k = 7 \/ k = 8
        OBVIOUS
      <4> QED
        BY <2>11, <2>12, <2>13, <2>14, <2>15, <2>16, <2>17, <2>18, <3>1, <3>2, <4>1
    <3>4. IsSeq(ops)
      BY <3>1 DEF IsSeq
    <3>5. Ends(ops, states[1], states[8 + 1])
      BY <3>1, <3>3, <3>4, EndsStates
    <3> QED
      BY <3>2, <3>5
  <2>21. Ends(front, State(F, C, L), State(F, C, L))
    BY <1>1, <2>0, MeetsCheck, EndsOne
  <2>22. Ends(Decompress(inner, L), State(F, C, L), s1)
    <3>1. inner \notin F /\ inner \notin L
      BY DEF inner
    <3> QED
      BY <1>1, <1>2, <3>1, EndsDecompress DEF L1
  <2>23. Ends(front \o Decompress(inner, L) \o ops, State(F, C, L), end)
    <3> HIDE DEF front, ops, s1, end
    <3>1. Ends(front \o Decompress(inner, L), State(F, C, L), s1)
      BY <2>21, <2>22, EndsConcat
    <3> QED
      BY <2>20, <3>1, EndsConcat
  <2>24. DecodeTransforms(n, L) = front \o Decompress(inner, L) \o ops
    BY <1>6 DEF DecodeTransforms, inner, all, L1, L2, zigzag, previous, raw
  <2> QED
    BY <2>23, <2>24
<1> QED
  BY <1>4, <1>5, <1>6

(***************************************************************************)
(* parse_blob.                                                             *)
(***************************************************************************)
LEMMA ParsedBlob ==
  ASSUME NEW n \in Nat
  PROVE  Parsed(ParseBlob(n))
<1> DEFINE C == [NoCounts EXCEPT ![Transforms] = n]
           T == TransformFields(n)
           F == T \cup {Stored}
           s0 == State({}, C, {})
           s1 == State(T, C, {})
           s2 == State(F, C, {})
           end == State(F \cup {Decoded}, C, {})
           front == <<Malformed({}), SetCount(Transforms, n),
                      Malformed({}), Check({"LIMIT"}, {})>>
           rest == IF n = 0 THEN Keep(Decoded, {})
                   ELSE <<MayReturn({})>> \o Decompress(Decoded, {}) \o <<Give({Decoded})>>
<1>1. C \in [Blocks -> Nat] /\ C[Transforms] = n /\ C[Objects] = 0
  <2>1. Transforms # Objects
    BY DEF Transforms, Objects
  <2> QED
    BY <2>1, NoCountsType, BlockNames
<1>2. /\ {"LIMIT"} \in SUBSET Failures
      /\ "stored_payload" \in Names /\ "decoded_payload" \in Names
      /\ Stored \in Blocks /\ Decoded \in Blocks
  BY BlockNames DEF Failures, Names, Stored, Decoded
<1> HIDE DEF C
<1>3. Ends(front, Fresh, s0)
  <2> DEFINE o1 == Malformed({})
             o2 == SetCount(Transforms, n)
             o4 == Check({"LIMIT"}, {})
             states == <<Fresh, Fresh, s0, s0, s0>>
  <2>1. Meets(o1, Fresh) /\ Fresh = After(o1, Fresh)
    BY FreshIsPlain, PlainIsKept, MeetsMalformed DEF Fresh
  <2>2. Meets(o2, Fresh) /\ s0 = After(o2, Fresh)
    BY BlockNames, MeetsCount DEF Fresh, C
  <2>3. Meets(o1, s0) /\ s0 = After(o1, s0)
    BY <1>1, FreshIsReached, MeetsMalformed
  <2>4. Meets(o4, s0) /\ s0 = After(o4, s0)
    BY <1>1, <1>2, FreshIsReached, MeetsCheck
  <2> HIDE DEF o1, o2, o4, s0
  <2>5. /\ front \in Seq({o1, o2, o4}) /\ Len(front) = 4
        /\ front[1] = o1 /\ front[2] = o2 /\ front[3] = o1 /\ front[4] = o4
    BY DEF o1, o2, o4
  <2>6. /\ states[1] = Fresh /\ states[2] = Fresh /\ states[3] = s0
        /\ states[4] = s0 /\ states[5] = s0
    OBVIOUS
  <2> HIDE DEF front, states
  <2>7. ASSUME NEW k \in 1 .. 4
        PROVE  Meets(front[k], states[k]) /\ states[k + 1] = After(front[k], states[k])
    <3>1. k = 1 \/ k = 2 \/ k = 3 \/ k = 4
      OBVIOUS
    <3> QED
      BY <2>1, <2>2, <2>3, <2>4, <2>5, <2>6, <3>1
  <2>8. Ends(front, states[1], states[4 + 1])
    BY <2>5, <2>7, EndsStates DEF IsSeq
  <2> QED
    BY <2>6, <2>8
<1>4. Ends(ParseTransforms(n), s0, s1)
  BY <1>1, EndsParseTransforms
<1>5. WithTransforms(T, C)
  <2>1. Transforms = <<"transforms">> /\ "transforms" \in Names
    BY DEF Transforms, Names
  <2>2. Samples \notin T
    BY DEF TransformFields, Parameters, Samples, Transforms
  <2> QED
    BY <1>1, <2>1, <2>2 DEF WithTransforms, TransformFields
<1>6. WithTransforms(F, C) /\ Stored \notin T /\ Decoded \notin F
  <2>1. Stored # Samples
    BY DEF Stored, Samples
  <2>2. WithTransforms(F, C)
    BY <1>2, <1>5, <2>1, OneMore DEF Stored
  <2>3. Stored \notin T
    BY DEF Stored, TransformFields, Parameters, Transforms
  <2>4. Decoded \notin T /\ Decoded # Stored
    BY DEF Decoded, Stored, TransformFields, Parameters, Transforms
  <2> QED
    BY <2>2, <2>3, <2>4
<1>7. WithTransforms(F \cup {Decoded}, C)
  <2>1. Decoded # Samples
    BY DEF Decoded, Samples
  <2> HIDE DEF F
  <2> QED
    BY <1>2, <1>6, <2>1, OneMore DEF Decoded
<1> HIDE DEF T, F
<1>8. /\ \A L : Reached(State(T, C, L)) /\ Reached(State(F, C, L))
      /\ \A L : Kept(State(F, C, L)) /\ Kept(State(F \cup {Decoded}, C, L))
      /\ \A L : Reached(State(F \cup {Decoded}, C, L))
  BY <1>5, <1>6, <1>7, WithTransformsIsKept
<1>9. Ends(<<Malformed({})>>, s1, s1)
  BY <1>8, EndsMalformed
<1>10. Ends(Keep(Stored, {}), s1, s2)
  BY <1>2, <1>6, <1>8, EndsKeep DEF F
<1>11. Ends(rest, s2, end)
  <2>1. CASE n = 0
    BY <1>2, <1>6, <1>8, <2>1, EndsKeep
  <2>2. CASE n # 0
    <3>1. Ends(<<MayReturn({})>>, s2, s2)
      BY <1>8, MeetsReturn, EndsOne
    <3>2. Ends(Decompress(Decoded, {}), s2, State(F, C, {} \cup {Decoded}))
      BY <1>2, <1>6, <1>8, EndsDecompress
    <3>3. Ends(<<Give({Decoded})>>, State(F, C, {} \cup {Decoded}), end)
      <4>1. {Decoded} \in SUBSET ({} \cup {Decoded}) /\ ({} \cup {Decoded}) \ {Decoded} = {}
        OBVIOUS
      <4> QED
        BY <4>1, MeetsGive, EndsOne
    <3> HIDE DEF s2, end
    <3>4. Ends(<<MayReturn({})>> \o Decompress(Decoded, {}), s2, State(F, C, {} \cup {Decoded}))
      BY <3>1, <3>2, EndsConcat
    <3>5. Ends(<<MayReturn({})>> \o Decompress(Decoded, {}) \o <<Give({Decoded})>>, s2, end)
      BY <3>3, <3>4, EndsConcat
    <3> QED
      BY <2>2, <3>5
  <2> QED
    BY <2>1, <2>2
<1>12. Ends(<<Malformed({})>>, end, end)
  BY <1>8, EndsMalformed
<1>13. Ends(ParseBlob(n), Fresh, end)
  <2> DEFINE m == <<Malformed({})>>
  <2> HIDE DEF front, rest, s0, s1, s2, end
  <2>1. Ends(front \o ParseTransforms(n), Fresh, s1)
    BY <1>3, <1>4, EndsConcat
  <2>2. Ends(front \o ParseTransforms(n) \o m, Fresh, s1)
    BY <1>9, <2>1, EndsConcat
  <2>3. Ends(front \o ParseTransforms(n) \o m \o Keep(Stored, {}), Fresh, s2)
    BY <1>10, <2>2, EndsConcat
  <2>4. Ends(front \o ParseTransforms(n) \o m \o Keep(Stored, {}) \o rest, Fresh, end)
    BY <1>11, <2>3, EndsConcat
  <2>5. Ends(front \o ParseTransforms(n) \o m \o Keep(Stored, {}) \o rest \o m, Fresh, end)
    BY <1>12, <2>4, EndsConcat
  <2> QED
    BY <2>5 DEF ParseBlob, front, rest
<1>14. end.locals = {} /\ Kept(end)
  BY <1>8 DEF State
<1> HIDE DEF end
<1> QED
  BY <1>13, <1>14 DEF Parsed, GoesOn

-----------------------------------------------------------------------------
(* Samples and their values. *)

Row(i) == <<"values", i>>
Rows(i) == {Row(s) : s \in 1 .. i}

\* n transforms and m samples are announced, and the first i samples have
\* their l values counted.
DataCounts(n, m, l, i) ==
  [a \in Blocks |->
     IF a = Samples THEN m ELSE IF a = Transforms THEN n
     ELSE IF a \in Rows(i) THEN l ELSE 0]

LEMMA DataCountsAre ==
  ASSUME NEW n \in Nat, NEW m \in Nat, NEW l \in Nat, NEW i \in Nat
  PROVE  /\ DataCounts(n, m, l, i) \in [Blocks -> Nat]
         /\ DataCounts(n, m, l, i)[Samples] = m
         /\ DataCounts(n, m, l, i)[Transforms] = n
         /\ DataCounts(n, m, l, i)[Objects] = 0
         /\ \A k \in 1 .. i : DataCounts(n, m, l, i)[Row(k)] = l
<1>1. \A a \in Blocks : (IF a = Samples THEN m ELSE IF a = Transforms THEN n
                         ELSE IF a \in Rows(i) THEN l ELSE 0) \in Nat
  OBVIOUS
<1>2. Objects # Transforms /\ Objects # Samples /\ Transforms # Samples
  BY DEF Objects, Transforms, Samples
<1>3. Objects \notin Rows(i)
  BY DEF Rows, Row, Objects
<1>4. ASSUME NEW k \in 1 .. i
      PROVE  /\ Row(k) \in Blocks /\ Row(k) \in Rows(i)
             /\ Row(k) # Samples /\ Row(k) # Transforms
  <2>1. Row(k) \in Blocks
    BY k \in Nat, "values" \in Names, BlockNames DEF Names, Row
  <2> QED
    BY <2>1 DEF Rows, Row, Samples, Transforms
<1> QED
  BY <1>1, <1>2, <1>3, <1>4, BlockNames DEF DataCounts

LEMMA DataCountsRow ==
  ASSUME NEW n \in Nat, NEW m \in Nat, NEW l \in Nat, NEW i \in Nat, NEW k \in 1 .. i
  PROVE  DataCounts(n, m, l, i)[Row(k)] = l
<1> DEFINE b == Row(k)
<1>1. b \in Blocks
  BY k \in Nat, "values" \in Names, BlockNames DEF Names, Row
<1>2. b \in Rows(i) /\ b # Samples /\ b # Transforms
  BY DEF Rows, Row, Samples, Transforms
<1> HIDE DEF b
<1>3. DataCounts(n, m, l, i)[b] = l
  BY <1>1, <1>2 DEF DataCounts
<1> QED
  BY <1>3 DEF b

LEMMA RowsNext ==
  ASSUME NEW i \in Nat \ {0}
  PROVE  /\ Rows(i) = Rows(i - 1) \cup {Row(i)}
         /\ Row(i) \notin Rows(i - 1)
         /\ Row(i) \in Blocks
         /\ Rows(0) = {}
<1>1. 1 .. i = (1 .. i - 1) \cup {i} /\ i \notin 1 .. i - 1 /\ 1 .. 0 = {}
  OBVIOUS
<1>2. Row(i) \in Blocks
  BY "values" \in Names, BlockNames DEF Names, Row
<1>3. Row(i) \notin Rows(i - 1)
  BY <1>1 DEF Rows, Row
<1> QED
  BY <1>1, <1>2, <1>3 DEF Rows

LEMMA DataCountsNext ==
  ASSUME NEW n \in Nat, NEW m \in Nat, NEW l \in Nat, NEW i \in Nat \ {0}
  PROVE  [DataCounts(n, m, l, i - 1) EXCEPT ![Row(i)] = l]
           = DataCounts(n, m, l, i)
<1>1. Row(i) # Samples /\ Row(i) # Transforms
  BY DEF Samples, Transforms, Row
<1>2. /\ Rows(i) = Rows(i - 1) \cup {Row(i)}
      /\ Row(i) \in Blocks
  BY RowsNext
<1> QED
  BY <1>1, <1>2 DEF DataCounts

\* The blocks for the fixed bytes of the values before lane j of sample i.
Fixed(i, j) == <<"bytes", i, j>>
AllBytes(l, i) == {Fixed(s, k) : s \in 1 .. i, k \in 1 .. l}
Bytes(l, i, j) == AllBytes(l, i - 1) \cup {Fixed(i, k) : k \in 1 .. j}

LEMMA BytesNext ==
  ASSUME NEW l \in Nat, NEW i \in Nat \ {0}
  PROVE  /\ Bytes(l, i, l) = Bytes(l, i + 1, 0)
         /\ Bytes(l, 1, 0) = {}
         /\ \A j \in 1 .. l :
              /\ Bytes(l, i, j) = Bytes(l, i, j - 1) \cup {Fixed(i, j)}
              /\ Fixed(i, j) \notin Bytes(l, i, j - 1)
              /\ Fixed(i, j) \in Blocks
<1>1. /\ 1 .. (i + 1) - 1 = (1 .. i - 1) \cup {i} /\ 1 .. 0 = {} /\ 1 .. 1 - 1 = {}
      /\ i \notin 1 .. i - 1
  OBVIOUS
<1>2. Bytes(l, i, l) = Bytes(l, i + 1, 0)
  BY <1>1 DEF Bytes, AllBytes
<1>3. Bytes(l, 1, 0) = {}
  BY <1>1 DEF Bytes, AllBytes
<1>4. ASSUME NEW j \in 1 .. l
      PROVE  /\ Bytes(l, i, j) = Bytes(l, i, j - 1) \cup {Fixed(i, j)}
             /\ Fixed(i, j) \notin Bytes(l, i, j - 1)
             /\ Fixed(i, j) \in Blocks
  <2>1. 1 .. j = (1 .. j - 1) \cup {j} /\ j \notin 1 .. j - 1
    OBVIOUS
  <2>2. Fixed(i, j) \in Blocks
    BY j \in Nat, "bytes" \in Names, BlockNames DEF Names, Fixed
  <2>3. Bytes(l, i, j) = Bytes(l, i, j - 1) \cup {Fixed(i, j)}
    BY <2>1 DEF Bytes
  <2>4. Fixed(i, j) \notin Bytes(l, i, j - 1)
    BY <1>1, <2>1 DEF Bytes, AllBytes, Fixed
  <2> QED
    BY <2>2, <2>3, <2>4
<1> QED
  BY <1>2, <1>3, <1>4

\* The fields of a record of n transforms whose payload is there.
DataFields(n) == (TransformFields(n) \cup {Stored}) \cup {Decoded}

LEMMA DataFieldsAre ==
  ASSUME NEW n \in Nat, NEW C \in [Blocks -> Nat], C[Transforms] = n, C[Objects] = 0
  PROVE  /\ WithTransforms(TransformFields(n), C)
         /\ WithTransforms(TransformFields(n) \cup {Stored}, C)
         /\ WithTransforms(DataFields(n), C)
         /\ Stored \notin TransformFields(n)
         /\ \A x : <<x>> \in TransformFields(n) \cup {Stored} =>
                      x \in {"transforms", "stored_payload"}
         /\ \A x, i : <<x, i>> \in DataFields(n) => x = "parameters"
         /\ \A x, i, j : <<x, i, j>> \notin DataFields(n)
<1>1. Transforms = <<"transforms">> /\ Stored = <<"stored_payload">> /\ Decoded = <<"decoded_payload">>
  BY DEF Transforms, Stored, Decoded
<1>2. "transforms" \in Names /\ "stored_payload" \in Names /\ "decoded_payload" \in Names
  BY DEF Names
<1>3. Samples \notin TransformFields(n) /\ Stored # Samples /\ Decoded # Samples
  BY DEF TransformFields, Parameters, Transforms, Stored, Samples, Decoded
<1>4. WithTransforms(TransformFields(n), C)
  BY <1>1, <1>2, <1>3 DEF WithTransforms, TransformFields
<1>5. WithTransforms(TransformFields(n) \cup {Stored}, C)
  BY <1>1, <1>2, <1>3, <1>4, OneMore
<1>6. WithTransforms(DataFields(n), C)
  BY <1>1, <1>2, <1>3, <1>5, OneMore DEF DataFields
<1>7. Stored \notin TransformFields(n)
  BY DEF TransformFields, Parameters, Transforms, Stored
<1>8. ASSUME NEW x, <<x>> \in TransformFields(n) \cup {Stored}
      PROVE  x \in {"transforms", "stored_payload"}
  BY <1>8 DEF TransformFields, Parameters, Transforms, Stored
<1>9. ASSUME NEW x, NEW i, <<x, i>> \in DataFields(n) PROVE x = "parameters"
  BY <1>9 DEF DataFields, TransformFields, Parameters, Transforms, Stored, Decoded
<1>10. ASSUME NEW x, NEW i, NEW j PROVE <<x, i, j>> \notin DataFields(n)
  BY DEF DataFields, TransformFields, Parameters, Transforms, Stored, Decoded
<1> QED
  BY <1>4, <1>5, <1>6, <1>7, <1>8, <1>9, <1>10

\* Data fields, the samples, i of them with an array of values and fixed
\* bytes in some.
LEMMA RowsReached ==
  ASSUME NEW n \in Nat, NEW m \in Nat, NEW l \in Nat, NEW i \in 0 .. m, NEW L,
         NEW B \in SUBSET AllBytes(l, i)
  PROVE  Reached(State(((DataFields(n) \cup {Samples}) \cup Rows(i)) \cup B,
                       DataCounts(n, m, l, i), L))
<1> DEFINE C == DataCounts(n, m, l, i)
           F == ((DataFields(n) \cup {Samples}) \cup Rows(i)) \cup B
<1>1. /\ C \in [Blocks -> Nat] /\ C[Samples] = m /\ C[Transforms] = n /\ C[Objects] = 0
      /\ \A k \in 1 .. i : C[Row(k)] = l
  <2>1. i \in Nat
    OBVIOUS
  <2>2. C \in [Blocks -> Nat]
    BY <2>1, DataCountsAre
  <2>3. C[Samples] = m
    BY <2>1, DataCountsAre
  <2>4. C[Transforms] = n
    BY <2>1, DataCountsAre
  <2>5. C[Objects] = 0
    BY <2>1, DataCountsAre
  <2>6. ASSUME NEW k \in 1 .. i PROVE C[Row(k)] = l
    BY <2>1, DataCountsRow
  <2> QED
    BY <2>2, <2>3, <2>4, <2>5, <2>6
<1> HIDE DEF C
<1>2. ASSUME NEW b \in F PROVE InWalk(b, C)
  <2>1. CASE b \in DataFields(n)
    <3>1. b \in Parameters(n) \/ \E x \in Names : b = <<x>>
      BY <1>1, <2>1, DataFieldsAre DEF WithTransforms
    <3>2. CASE b \in Parameters(n)
      BY <1>1, <3>2 DEF Parameters, InWalk
    <3> QED
      BY <3>1, <3>2 DEF InWalk
  <2>2. CASE b = Samples
    BY <2>2, "samples" \in Names DEF InWalk, Samples, Names
  <2>3. CASE b \in Rows(i)
    BY <1>1, <2>3 DEF Rows, Row, InWalk
  <2>4. CASE b \in B
    <3>1. PICK s \in 1 .. i, k \in 1 .. l : b = Fixed(s, k)
      BY <2>4 DEF AllBytes
    <3>2. s \in Nat /\ k \in Nat /\ s <= C[Samples] /\ k <= C[Row(s)]
      BY <1>1, <3>1
    <3> QED
      BY <3>1, <3>2 DEF InWalk, Fixed, Row
  <2> QED
    BY <2>1, <2>2, <2>3, <2>4
<1>3. Reached(State(F, C, L))
  <2> HIDE DEF F
  <2> QED
    BY <1>1, <1>2, ReachedIf
<1> QED
  BY <1>3 DEF C

(***************************************************************************)
(* sdaf_decode_data_samples: an array of values for every sample, and then *)
(* value by value.                                                         *)
(***************************************************************************)
LEMMA EndsRow ==
  ASSUME NEW n \in Nat, NEW m \in Nat, NEW l \in Nat, NEW i \in 1 .. m,
         NEW L, Row(i) \notin L
  PROVE  Ends(<<SetCount(Row(i), l)>>
                \o Keep(Row(i), L) \o <<Malformed(L)>>,
              State((DataFields(n) \cup {Samples}) \cup Rows(i - 1),
                    DataCounts(n, m, l, i - 1), L),
              State((DataFields(n) \cup {Samples}) \cup Rows(i),
                    DataCounts(n, m, l, i), L))
<1> DEFINE b == Row(i)
           F == (DataFields(n) \cup {Samples}) \cup Rows(i - 1)
           G == (DataFields(n) \cup {Samples}) \cup Rows(i)
           C0 == DataCounts(n, m, l, i - 1)
           C1 == DataCounts(n, m, l, i)
<1>1. i \in Nat \ {0} /\ i \in 0 .. m /\ i - 1 \in Nat /\ i - 1 \in 0 .. m
  OBVIOUS
<1>2. [C0 EXCEPT ![b] = l] = C1
  BY <1>1, DataCountsNext
<1>3. /\ b \in Blocks /\ b \notin Rows(i - 1) /\ Rows(i) = Rows(i - 1) \cup {b}
  BY <1>1, RowsNext
<1>4. b \notin F /\ G = F \cup {b}
  <2>1. b \notin DataFields(n)
    <3>1. C0 \in [Blocks -> Nat] /\ C0[Transforms] = n /\ C0[Objects] = 0
      <4>1. C0 \in [Blocks -> Nat]
        BY <1>1, DataCountsAre
      <4>2. C0[Transforms] = n
        BY <1>1, DataCountsAre
      <4>3. C0[Objects] = 0
        BY <1>1, DataCountsAre
      <4> QED
        BY <4>1, <4>2, <4>3
    <3>2. \A x, k : <<x, k>> \in DataFields(n) => x = "parameters"
      BY <3>1, DataFieldsAre
    <3> QED
      BY <3>2 DEF Row
  <2>2. b # Samples
    BY DEF Samples, Row
  <2> QED
    BY <1>3, <2>1, <2>2
<1>5. C1 \in [Blocks -> Nat]
  BY <1>1, DataCountsAre
<1>6. Reached(State(G, C1, L))
  <2>1. G \cup {} = G
    OBVIOUS
  <2> QED
    BY <1>1, <2>1, {} \in SUBSET AllBytes(l, i),
       RowsReached
<1>7. Reached(State(F, C1, L))
  <2>1. F \in SUBSET G
    BY <1>4
  <2> QED
    BY <1>5, <1>6, <2>1, ReachedLess
<1> HIDE DEF F, G, C0, C1
<1>8. Ends(<<SetCount(b, l)>>, State(F, C0, L), State(F, C1, L))
  BY <1>2, <1>3, MeetsCount, EndsOne
<1>9. Ends(Keep(b, L), State(F, C1, L), State(G, C1, L))
  BY <1>3, <1>4, <1>7, EndsKeep
<1>10. Ends(<<Malformed(L)>>, State(G, C1, L), State(G, C1, L))
  BY <1>6, EndsMalformed
<1>11. Ends(<<SetCount(b, l)>> \o Keep(b, L), State(F, C0, L), State(G, C1, L))
  BY <1>8, <1>9, EndsConcat
<1>12. Ends(<<SetCount(b, l)>> \o Keep(b, L) \o <<Malformed(L)>>,
            State(F, C0, L), State(G, C1, L))
  BY <1>10, <1>11, EndsConcat
<1> QED
  BY <1>12 DEF F, G, C0, C1

\* The fixed bytes there are before lane j of sample i, if values are fixed
\* bytes.
Made(fixed, l, i, j) == IF fixed THEN Bytes(l, i, j) ELSE {}

LEMMA EndsDecodeValue ==
  ASSUME NEW n \in Nat, NEW m \in Nat, NEW l \in Nat, NEW fixed \in BOOLEAN,
         NEW i \in 1 .. m, NEW j \in 1 .. l, NEW L, Fixed(i, j) \notin L
  PROVE  LET F == (DataFields(n) \cup {Samples}) \cup Rows(m)
             C == DataCounts(n, m, l, m)
         IN Ends(DecodeValue(i, j, fixed, L),
                 State(F \cup Made(fixed, l, i, j - 1), C, L),
                 State(F \cup Made(fixed, l, i, j), C, L))
<1> DEFINE F == (DataFields(n) \cup {Samples}) \cup Rows(m)
           C == DataCounts(n, m, l, m)
           b == Fixed(i, j)
           B == Made(fixed, l, i, j - 1)
           s == State(F \cup B, C, L)
<1>1. i \in Nat \ {0} /\ m \in 0 .. m /\ i - 1 \in Nat
  OBVIOUS
<1>2. C \in [Blocks -> Nat]
  BY DataCountsAre
<1>3. Reached(s) /\ Reached(State(F \cup B, C, L \cup {b}))
  <2>1. B \in SUBSET AllBytes(l, m)
    <3>1. 1 .. i - 1 \subseteq 1 .. m /\ 1 .. j - 1 \subseteq 1 .. l
      OBVIOUS
    <3> QED
      BY <3>1 DEF Made, Bytes, AllBytes
  <2> HIDE DEF B
  <2> QED
    BY <1>1, <2>1, RowsReached
<1>4. CASE ~fixed
  <2>1. Made(fixed, l, i, j) = B
    BY <1>4 DEF Made
  <2>2. Ends(<<Malformed(L)>>, s, s)
    BY <1>3, EndsMalformed
  <2> QED
    BY <1>4, <2>1, <2>2 DEF DecodeValue
<1>5. CASE fixed
  <2>1. /\ Bytes(l, i, j) = Bytes(l, i, j - 1) \cup {b}
        /\ b \notin Bytes(l, i, j - 1) /\ b \in Blocks
    BY <1>1, BytesNext
  <2>2. B = Bytes(l, i, j - 1) /\ Made(fixed, l, i, j) = Bytes(l, i, j)
    BY <1>5 DEF Made
  <2>3. b \notin F \cup B /\ b \notin L /\ F \cup Made(fixed, l, i, j) = (F \cup B) \cup {b}
    <3>1. b \notin DataFields(n)
      <4>1. /\ DataCounts(n, m, l, m)[Transforms] = n
            /\ DataCounts(n, m, l, m)[Objects] = 0
        BY DataCountsAre, SMTT(20)
      <4>2. \A x, v, k : <<x, v, k>> \notin DataFields(n)
        BY <1>2, <4>1, DataFieldsAre
      <4> QED
        BY <4>2 DEF Fixed
    <3>2. b # Samples /\ b \notin Rows(m)
      BY DEF Samples, Rows, Row, Fixed
    <3> QED
      BY <2>1, <2>2, <3>1, <3>2
  <2>4. {"FORMAT"} \in SUBSET Failures
    BY DEF Failures
  <2> DEFINE o1 == Malformed(L)
             o2 == Claim(b, {"FORMAT"}, L)
             o3 == Give({b})
             t == State(F \cup B, C, L \cup {b})
             u == State((F \cup B) \cup {b}, C, L)
  <2> HIDE DEF F, B, C, b
  <2>5. Meets(o1, s) /\ s = After(o1, s)
    BY <1>3, MeetsMalformed
  <2>6. Meets(o2, s) /\ t = After(o2, s)
    BY <1>3, <2>1, <2>3, <2>4, MeetsClaim
  <2>7. Meets(o3, t) /\ u = After(o3, t)
    <3>1. {b} \in SUBSET (L \cup {b}) /\ (L \cup {b}) \ {b} = L
      BY <2>3
    <3> DEFINE K == L \cup {b}
               H == F \cup B
    <3> HIDE DEF K, H
    <3>2. {b} \in SUBSET K /\ K \ {b} = L
      BY <3>1 DEF K
    <3>3. /\ Meets(Give({b}), State(H, C, K))
          /\ After(Give({b}), State(H, C, K)) = State(H \cup {b}, C, K \ {b})
      BY <3>2, MeetsGive
    <3> QED
      BY <3>2, <3>3 DEF H, K
  <2>8. Ends(<<o1, o2, o3>>, s, u)
    <3> HIDE DEF o1, o2, o3, s, t, u
    <3> QED
      BY <2>5, <2>6, <2>7, EndsThree
  <2>9. DecodeValue(i, j, fixed, L) = <<o1, o2, o3>>
    BY <1>5 DEF DecodeValue, b, Fixed
  <2> QED
    BY <2>3, <2>8, <2>9 DEF F, C, B, b
<1> QED
  BY <1>4, <1>5

\* The fields of a record of n transforms and m samples of l values.
SampleFields(n, m, l, fixed) ==
  ((DataFields(n) \cup {Samples}) \cup Rows(m)) \cup Made(fixed, l, m + 1, 0)

Both == {Channels, SampleChannels}

LEMMA BothAre ==
  /\ Channels # SampleChannels
  /\ Channels \in Blocks /\ SampleChannels \in Blocks
  /\ \A i : Row(i) \notin Both
  /\ \A i, j : Fixed(i, j) \notin Both
  /\ \A n \in Nat : Channels \notin DataFields(n) /\ SampleChannels \notin DataFields(n)
  /\ \A n \in Nat : Samples \notin DataFields(n) \cup Both
<1>1. Channels # SampleChannels
  BY DEF Channels, SampleChannels
<1>2. Channels \in Blocks /\ SampleChannels \in Blocks
  BY "channels" \in Names, "its channels" \in Names, BlockNames
     DEF Names, Channels, SampleChannels
<1>3. \A i : Row(i) \notin Both
  BY DEF Both, Row, Channels, SampleChannels
<1>4. \A i, j : Fixed(i, j) \notin Both
  BY DEF Both, Fixed, Channels, SampleChannels
<1>5. ASSUME NEW n \in Nat
      PROVE  /\ Channels \notin DataFields(n) /\ SampleChannels \notin DataFields(n)
             /\ Samples \notin DataFields(n) \cup Both
  BY DEF DataFields, TransformFields, Parameters, Transforms, Stored, Decoded,
         Channels, SampleChannels, Samples, Both
<1> QED
  BY <1>1, <1>2, <1>3, <1>4, <1>5

\* A part of the state in which the values are read.
ValueState(n, m, l, fixed, i, j) ==
  State(((DataFields(n) \cup {Samples}) \cup Rows(m)) \cup Made(fixed, l, i, j),
        DataCounts(n, m, l, m), Both)

LEMMA EndsValues ==
  ASSUME NEW n \in Nat, NEW m \in Nat, NEW l \in Nat, NEW fixed \in BOOLEAN
  PROVE  Ends(FlattenSeq([s \in 1 .. m |->
                FlattenSeq([k \in 1 .. l |-> DecodeValue(s, k, fixed, Both)])]),
              ValueState(n, m, l, fixed, 1, 0),
              ValueState(n, m, l, fixed, m + 1, 0))
<1> DEFINE row(s) == [k \in 1 .. l |-> DecodeValue(s, k, fixed, Both)]
           turns == [s \in 1 .. m |-> FlattenSeq(row(s))]
           V(i, j) == ValueState(n, m, l, fixed, i, j)
           h == [i \in 0 .. m |-> V(i + 1, 0)]
<1>1. ASSUME NEW s \in 1 .. m PROVE Ends(FlattenSeq(row(s)), V(s, 0), V(s + 1, 0))
  <2> DEFINE g == [j \in 0 .. l |-> V(s, j)]
             F == row(s)
  <2>1. F = [k \in 1 .. l |-> F[k]]
    OBVIOUS
  <2>2. ASSUME NEW k \in 1 .. l PROVE Ends(F[k], g[k - 1], g[k])
    <3>1. k - 1 \in 0 .. l /\ k \in 0 .. l
      OBVIOUS
    <3>2. Fixed(s, k) \notin Both
      BY BothAre
    <3>3. Ends(DecodeValue(s, k, fixed, Both), V(s, k - 1), V(s, k))
      BY <3>2, EndsDecodeValue DEF ValueState
    <3>4. F[k] = DecodeValue(s, k, fixed, Both) /\ g[k - 1] = V(s, k - 1) /\ g[k] = V(s, k)
      BY <3>1
    <3> HIDE DEF F, g, V
    <3> QED
      BY <3>3, <3>4
  <2>3. g[0] = V(s, 0) /\ g[l] = V(s, l)
    OBVIOUS
  <2>4. V(s, l) = V(s + 1, 0)
    <3>1. s \in Nat \ {0}
      OBVIOUS
    <3>2. Bytes(l, s, l) = Bytes(l, s + 1, 0)
      BY <3>1, BytesNext
    <3> QED
      BY <3>2 DEF ValueState, Made
  <2> HIDE DEF F, g, V
  <2>5. Ends(FlattenSeq(F), g[0], g[l])
    BY <2>1, <2>2, EndsLoop
  <2> QED
    BY <2>3, <2>4, <2>5 DEF F
<1>2. turns = [s \in 1 .. m |-> turns[s]]
  OBVIOUS
<1>3. ASSUME NEW s \in 1 .. m PROVE Ends(turns[s], h[s - 1], h[s])
  <2>1. s - 1 \in 0 .. m /\ s \in 0 .. m /\ (s - 1) + 1 = s
    OBVIOUS
  <2>2. h[s - 1] = V(s, 0) /\ h[s] = V(s + 1, 0) /\ turns[s] = FlattenSeq(row(s))
    BY <2>1
  <2> HIDE DEF h, turns, V, row
  <2> QED
    BY <1>1, <2>2
<1>4. h[0] = V(1, 0) /\ h[m] = V(m + 1, 0)
  OBVIOUS
<1>5. Ends(FlattenSeq(turns), h[0], h[m])
  <2> HIDE DEF h, turns
  <2> QED
    BY <1>2, <1>3, EndsLoop
<1> QED
  BY <1>4, <1>5

LEMMA EndsDecodeSamples ==
  ASSUME NEW n \in Nat, NEW m \in Nat, NEW l \in Nat, NEW fixed \in BOOLEAN
  PROVE  Ends(DecodeSamples(m, l, fixed),
              State(DataFields(n), DataCounts(n, m, l, 0), {Channels}),
              State(SampleFields(n, m, l, fixed), DataCounts(n, m, l, m), {Channels}))
<1> DEFINE DF == DataFields(n)
           C0 == DataCounts(n, m, l, 0)
           C1 == DataCounts(n, m, l, m)
           s0 == State(DF, C0, {Channels})
           s1 == State(DF, C0, Both)
           g == [i \in 0 .. m |-> State((DF \cup {Samples}) \cup Rows(i),
                                        DataCounts(n, m, l, i), Both)]
           v0 == ValueState(n, m, l, fixed, 1, 0)
           v1 == ValueState(n, m, l, fixed, m + 1, 0)
           end == State(SampleFields(n, m, l, fixed), C1, {Channels})
           front == <<Check({"LIMIT"}, {Channels}),
                      Claim(SampleChannels, {"MEMORY"}, {Channels}),
                      Check({"FORMAT", "LIMIT"}, Both)>>
           rows == [s \in 1 .. m |->
                      <<SetCount(<<"values", s>>, l)>>
                        \o Keep(<<"values", s>>, Both) \o <<Malformed(Both)>>]
           values == [s \in 1 .. m |->
                        FlattenSeq([k \in 1 .. l |-> DecodeValue(s, k, fixed, Both)])]
           tail == <<Malformed(Both), Drop({SampleChannels})>>
<1>1. C0 \in [Blocks -> Nat] /\ C0[Transforms] = n /\ C0[Objects] = 0
  <2>1. C0 \in [Blocks -> Nat]
    BY 0 \in Nat, DataCountsAre
  <2>2. C0[Transforms] = n
    BY 0 \in Nat, DataCountsAre
  <2>3. C0[Objects] = 0
    BY 0 \in Nat, DataCountsAre
  <2> QED
    BY <2>1, <2>2, <2>3
<1>2. \A L : Reached(State(DF, C0, L))
  <2> HIDE DEF C0
  <2> QED
    BY <1>1, DataFieldsAre, WithTransformsIsKept
<1>3. /\ {"LIMIT"} \in SUBSET Failures /\ {"MEMORY"} \in SUBSET Failures
      /\ {"FORMAT", "LIMIT"} \in SUBSET Failures
  BY DEF Failures
<1> HIDE DEF C0, DF
<1>4. Ends(front, s0, s1)
  <2>1. /\ Meets(Check({"LIMIT"}, {Channels}), s0)
        /\ After(Check({"LIMIT"}, {Channels}), s0) = s0
    BY <1>2, <1>3, MeetsCheck
  <2>2. /\ Meets(Claim(SampleChannels, {"MEMORY"}, {Channels}), s0)
        /\ After(Claim(SampleChannels, {"MEMORY"}, {Channels}), s0) = s1
    <3>1. {Channels} \cup {SampleChannels} = Both
      BY DEF Both
    <3>2. SampleChannels \notin DF /\ SampleChannels \notin {Channels}
      BY BothAre DEF DF
    <3> QED
      BY <1>2, <1>3, <3>1, <3>2, BothAre, MeetsClaim
  <2>3. /\ Meets(Check({"FORMAT", "LIMIT"}, Both), s1)
        /\ After(Check({"FORMAT", "LIMIT"}, Both), s1) = s1
    BY <1>2, <1>3, MeetsCheck
  <2> HIDE DEF s0, s1
  <2> QED
    BY <2>1, <2>2, <2>3, EndsThree
<1>5. Ends(Keep(Samples, Both), s1, g[0])
  <2>1. (DF \cup {Samples}) \cup Rows(0) = DF \cup {Samples}
    BY 1 \in Nat \ {0}, RowsNext
  <2>2. g[0] = State(DF \cup {Samples}, C0, Both)
    <3>1. 0 \in 0 .. m
      OBVIOUS
    <3>2. g[0] = State((DF \cup {Samples}) \cup Rows(0), DataCounts(n, m, l, 0), Both)
      BY <3>1
    <3> QED
      BY <2>1, <3>2 DEF C0
  <2>3. Samples \notin DF /\ Samples \notin Both
    BY BothAre DEF DF
  <2> HIDE DEF g
  <2> QED
    BY <1>2, <2>2, <2>3, BlockNames, EndsKeep
<1>6. Ends(FlattenSeq(rows), g[0], g[m])
  <2>1. rows = [s \in 1 .. m |-> rows[s]]
    OBVIOUS
  <2>2. ASSUME NEW s \in 1 .. m PROVE Ends(rows[s], g[s - 1], g[s])
    <3> DEFINE turn == <<SetCount(Row(s), l)>> \o Keep(Row(s), Both) \o <<Malformed(Both)>>
               a == State((DF \cup {Samples}) \cup Rows(s - 1), DataCounts(n, m, l, s - 1), Both)
               b == State((DF \cup {Samples}) \cup Rows(s), DataCounts(n, m, l, s), Both)
    <3>1. s - 1 \in 0 .. m /\ s \in 0 .. m
      OBVIOUS
    <3>2. g[s - 1] = a /\ g[s] = b
      BY <3>1
    <3>3. rows[s] = turn
      BY DEF Row
    <3>4. Ends(turn, a, b)
      BY BothAre, EndsRow DEF DF
    <3> HIDE DEF g, rows, turn, a, b
    <3> QED
      BY <3>2, <3>3, <3>4
  <2> HIDE DEF rows, g
  <2> QED
    BY <2>1, <2>2, EndsLoop
<1>7. g[m] = v0
  <2>1. Made(fixed, l, 1, 0) = {}
    BY 1 \in Nat \ {0}, BytesNext DEF Made
  <2>2. g[m] = State((DF \cup {Samples}) \cup Rows(m), DataCounts(n, m, l, m), Both)
    OBVIOUS
  <2> HIDE DEF g
  <2> QED
    BY <2>1, <2>2 DEF ValueState, DF
<1>8. Ends(FlattenSeq(values), v0, v1)
  BY EndsValues
<1>9. v1 = State(SampleFields(n, m, l, fixed), C1, Both)
  BY DEF ValueState, SampleFields
<1>10. \A L : Reached(State(SampleFields(n, m, l, fixed), C1, L))
  <2> DEFINE B == Made(fixed, l, m + 1, 0)
  <2>1. B \in SUBSET AllBytes(l, m)
    <3>1. (m + 1) - 1 = m /\ 1 .. 0 = {}
      OBVIOUS
    <3> QED
      BY <3>1 DEF Made, Bytes
  <2> HIDE DEF B
  <2>2. m \in 0 .. m
    OBVIOUS
  <2> QED
    BY <2>1, <2>2, RowsReached DEF SampleFields, B
<1>11. Ends(tail, v1, end)
  <2> DEFINE SF == SampleFields(n, m, l, fixed)
  <2>1. Meets(Malformed(Both), v1) /\ After(Malformed(Both), v1) = v1
    BY <1>9, <1>10, MeetsMalformed
  <2>2. {SampleChannels} \in SUBSET Both /\ Both \ {SampleChannels} = {Channels}
    BY BothAre DEF Both
  <2>3. Meets(Drop({SampleChannels}), v1) /\ After(Drop({SampleChannels}), v1) = end
    BY <1>9, <2>2, MeetsDrop
  <2> HIDE DEF v1, end
  <2> QED
    BY <2>1, <2>3, EndsTwo
<1>12. Ends(front \o Keep(Samples, Both) \o FlattenSeq(rows) \o FlattenSeq(values) \o tail,
            s0, end)
  <2> HIDE DEF front, rows, values, tail, s0, s1, g, v0, v1, end
  <2>1. Ends(front \o Keep(Samples, Both), s0, g[0])
    BY <1>4, <1>5, EndsConcat
  <2>2. Ends(front \o Keep(Samples, Both) \o FlattenSeq(rows), s0, v0)
    BY <1>6, <1>7, <2>1, EndsConcat
  <2>3. Ends(front \o Keep(Samples, Both) \o FlattenSeq(rows) \o FlattenSeq(values), s0, v1)
    BY <1>8, <2>2, EndsConcat
  <2> QED
    BY <1>11, <2>3, EndsConcat
<1>13. DecodeSamples(m, l, fixed)
         = front \o Keep(Samples, Both) \o FlattenSeq(rows) \o FlattenSeq(values) \o tail
  BY DEF DecodeSamples, Both
<1> QED
  BY <1>12, <1>13 DEF DF, C0

(***************************************************************************)
(* parse_data.                                                             *)
(***************************************************************************)
LEMMA DataCountsFirst ==
  ASSUME NEW n \in Nat, NEW m \in Nat, NEW l \in Nat
  PROVE  /\ [NoCounts EXCEPT ![Samples] = m] \in [Blocks -> Nat]
         /\ [[NoCounts EXCEPT ![Samples] = m] EXCEPT ![Transforms] = n]
              = DataCounts(n, m, l, 0)
<1>1. Rows(0) = {}
  BY 1 .. 0 = {} DEF Rows
<1>2. Samples # Transforms /\ Samples \in Blocks /\ Transforms \in Blocks
  BY BlockNames DEF Samples, Transforms
<1> QED
  BY <1>1, <1>2 DEF NoCounts, DataCounts

\* Up to the transforms.
LEMMA EndsDataFront ==
  ASSUME NEW n \in Nat, NEW m \in Nat, NEW l \in Nat
  PROVE  Ends(<<Malformed({}), SetCount(Samples, m), SetCount(Transforms, n),
                Malformed({}), Check({"LIMIT"}, {}), Malformed({})>>,
              Fresh, State({}, DataCounts(n, m, l, 0), {}))
<1> DEFINE B == [NoCounts EXCEPT ![Samples] = m]
           C == DataCounts(n, m, l, 0)
           r == State({}, B, {})
           s == State({}, C, {})
           o1 == Malformed({})
           o2 == SetCount(Samples, m)
           o3 == SetCount(Transforms, n)
           o5 == Check({"LIMIT"}, {})
           ops == <<o1, o2, o3, o1, o5, o1>>
           states == <<Fresh, Fresh, r, s, s, s, s>>
<1>1. B \in [Blocks -> Nat] /\ [B EXCEPT ![Transforms] = n] = C
  BY DataCountsFirst
<1>2. C \in [Blocks -> Nat]
  BY DataCountsAre
<1>3. {"LIMIT"} \in SUBSET Failures
  BY DEF Failures
<1>4. Meets(o1, Fresh) /\ Fresh = After(o1, Fresh)
  BY FreshIsPlain, PlainIsKept, MeetsMalformed DEF Fresh
<1>5. Meets(o2, Fresh) /\ r = After(o2, Fresh)
  BY BlockNames, MeetsCount DEF Fresh
<1> HIDE DEF B, C
<1>6. Meets(o3, r) /\ s = After(o3, r)
  BY <1>1, BlockNames, MeetsCount
<1>7. Meets(o1, s) /\ s = After(o1, s)
  BY <1>2, FreshIsReached, MeetsMalformed
<1>8. Meets(o5, s) /\ s = After(o5, s)
  BY <1>2, <1>3, FreshIsReached, MeetsCheck
<1>9. ops = <<Malformed({}), SetCount(Samples, m), SetCount(Transforms, n),
              Malformed({}), Check({"LIMIT"}, {}), Malformed({})>>
  OBVIOUS
<1> HIDE DEF o1, o2, o3, o5, r, s
<1>10. /\ ops \in Seq({o1, o2, o3, o5}) /\ Len(ops) = 6
       /\ ops[1] = o1 /\ ops[2] = o2 /\ ops[3] = o3
       /\ ops[4] = o1 /\ ops[5] = o5 /\ ops[6] = o1
  OBVIOUS
<1>11. /\ states[1] = Fresh /\ states[2] = Fresh /\ states[3] = r
       /\ states[4] = s /\ states[5] = s /\ states[6] = s /\ states[7] = s
  OBVIOUS
<1> HIDE DEF ops, states
<1>12. ASSUME NEW k \in 1 .. 6
       PROVE  Meets(ops[k], states[k]) /\ states[k + 1] = After(ops[k], states[k])
  <2>1. k = 1 \/ k = 2 \/ k = 3 \/ k = 4 \/ k = 5 \/ k = 6
    OBVIOUS
  <2> QED
    BY <1>4, <1>5, <1>6, <1>7, <1>8, <1>10, <1>11, <2>1
<1>13. Ends(ops, states[1], states[6 + 1])
  BY <1>10, <1>12, EndsStates DEF IsSeq
<1> QED
  BY <1>9, <1>11, <1>13 DEF s, C

\* From the payload to the channels of its schema.
LEMMA EndsDataSchema ==
  ASSUME NEW F, NEW C, WithTransforms(F, C), Channels \notin F
  PROVE  Ends(<<MayReturn({}), Malformed({}), Check({"LIMIT"}, {}),
                Claim(Channels, {"MEMORY"}, {}),
                Check({"FORMAT", "LIMIT"}, {Channels})>>,
              State(F, C, {}), State(F, C, {Channels}))
<1> DEFINE s == State(F, C, {})
           t == State(F, C, {Channels})
           o1 == MayReturn({})
           o2 == Malformed({})
           o3 == Check({"LIMIT"}, {})
           o4 == Claim(Channels, {"MEMORY"}, {})
           o5 == Check({"FORMAT", "LIMIT"}, {Channels})
           ops == <<o1, o2, o3, o4, o5>>
           states == <<s, s, s, s, t, t>>
<1>1. /\ {"LIMIT"} \in SUBSET Failures /\ {"MEMORY"} \in SUBSET Failures
      /\ {"FORMAT", "LIMIT"} \in SUBSET Failures
  BY DEF Failures
<1>2. \A L : Reached(State(F, C, L)) /\ Kept(State(F, C, L))
  BY WithTransformsIsKept
<1>3. Meets(o1, s) /\ s = After(o1, s)
  BY <1>2, MeetsReturn
<1>4. Meets(o2, s) /\ s = After(o2, s)
  BY <1>2, MeetsMalformed
<1>5. Meets(o3, s) /\ s = After(o3, s)
  BY <1>1, <1>2, MeetsCheck
<1>6. Meets(o4, s) /\ t = After(o4, s)
  <2>1. {} \cup {Channels} = {Channels}
    OBVIOUS
  <2> QED
    BY <1>1, <1>2, <2>1, BothAre, MeetsClaim
<1>7. Meets(o5, t) /\ t = After(o5, t)
  BY <1>1, <1>2, MeetsCheck
<1>8. ops = <<MayReturn({}), Malformed({}), Check({"LIMIT"}, {}),
              Claim(Channels, {"MEMORY"}, {}),
              Check({"FORMAT", "LIMIT"}, {Channels})>>
  OBVIOUS
<1> HIDE DEF o1, o2, o3, o4, o5, s, t
<1>9. /\ ops \in Seq({o1, o2, o3, o4, o5}) /\ Len(ops) = 5
      /\ ops[1] = o1 /\ ops[2] = o2 /\ ops[3] = o3 /\ ops[4] = o4 /\ ops[5] = o5
  OBVIOUS
<1>10. /\ states[1] = s /\ states[2] = s /\ states[3] = s
       /\ states[4] = s /\ states[5] = t /\ states[6] = t
  OBVIOUS
<1> HIDE DEF ops, states
<1>11. ASSUME NEW k \in 1 .. 5
       PROVE  Meets(ops[k], states[k]) /\ states[k + 1] = After(ops[k], states[k])
  <2>1. k = 1 \/ k = 2 \/ k = 3 \/ k = 4 \/ k = 5
    OBVIOUS
  <2> QED
    BY <1>3, <1>4, <1>5, <1>6, <1>7, <1>9, <1>10, <2>1
<1>12. Ends(ops, states[1], states[5 + 1])
  BY <1>9, <1>11, EndsStates DEF IsSeq
<1> QED
  BY <1>8, <1>10, <1>12 DEF s, t

\* Once the values are there, every array is.
LEMMA SampleFieldsKept ==
  ASSUME NEW n \in Nat, NEW m \in Nat, NEW l \in Nat, NEW fixed \in BOOLEAN
  PROVE  Kept(State(SampleFields(n, m, l, fixed), DataCounts(n, m, l, m), {}))
<1> DEFINE C == DataCounts(n, m, l, m)
           B == Made(fixed, l, m + 1, 0)
           F == ((DataFields(n) \cup {Samples}) \cup Rows(m)) \cup B
<1>1. B \in SUBSET AllBytes(l, m)
  <2>1. Bytes(l, m + 1, 0) = AllBytes(l, m)
    BY (m + 1) - 1 = m, 1 .. 0 = {} DEF Bytes
  <2> QED
    BY <2>1 DEF Made
<1>2. Reached(State(F, C, {}))
  <2>1. m \in 0 .. m
    OBVIOUS
  <2> QED
    BY <1>1, <2>1, RowsReached
<1>3. C \in [Blocks -> Nat] /\ C[Samples] = m /\ C[Objects] = 0
  BY DataCountsAre
<1>4. Transforms \in F
  BY DEF DataFields, TransformFields
<1>5. \A i \in 1 .. C[Samples] : <<"values", i>> \in F
  BY <1>3 DEF Rows, Row
<1>6. \A i \in 1 .. C[Objects] : <<"tlvs", i>> \in F
  BY <1>3
<1> HIDE DEF F, C
<1>7. Kept(State(F, C, {}))
  BY <1>2, <1>3, <1>4, <1>5, <1>6, KeptIf
<1> QED
  BY <1>7 DEF F, C, SampleFields

LEMMA ParsedData ==
  ASSUME NEW n \in Nat, NEW m \in Nat, NEW l \in Nat, NEW fixed \in BOOLEAN
  PROVE  Parsed(ParseData(n, m, l, fixed))
<1> DEFINE C == DataCounts(n, m, l, 0)
           T == TransformFields(n)
           F == T \cup {Stored}
           L == {Channels}
           s0 == State({}, C, {})
           s1 == State(T, C, {})
           s2 == State(F, C, {})
           s3 == State(F, C, L)
           s4 == State(DataFields(n), C, L)
           G == SampleFields(n, m, l, fixed)
           D == DataCounts(n, m, l, m)
           s5 == State(G, D, L)
           end == State(G, D, {})
           front == <<Malformed({}), SetCount(Samples, m), SetCount(Transforms, n),
                      Malformed({}), Check({"LIMIT"}, {}), Malformed({})>>
           transforms == ParseTransforms(n)
           check == <<Malformed({})>>
           keep == Keep(Stored, {})
           schema == <<MayReturn({}), Malformed({}), Check({"LIMIT"}, {}),
                       Claim(Channels, {"MEMORY"}, {}),
                       Check({"FORMAT", "LIMIT"}, {Channels})>>
           undecoded == IF n = 0 THEN <<>> ELSE <<MayReturn({Channels})>>
           payload == DecodeTransforms(n, {Channels})
           size == <<Malformed({Channels})>>
           samples == DecodeSamples(m, l, fixed)
           drop == <<Drop({Channels})>>
<1>1. C \in [Blocks -> Nat] /\ C[Transforms] = n /\ C[Objects] = 0
  BY DataCountsAre
<1>2. ParseData(n, m, l, fixed)
        = front \o transforms \o check \o keep \o schema \o undecoded
            \o payload \o size \o samples \o drop
  BY DEF ParseData
<1>3. Ends(front, Fresh, s0)
  BY EndsDataFront
<1> HIDE DEF C
<1>4. Ends(transforms, s0, s1)
  BY <1>1, EndsParseTransforms
<1>5. /\ WithTransforms(T, C) /\ WithTransforms(F, C)
      /\ WithTransforms(DataFields(n), C) /\ Stored \notin T
  <2>1. WithTransforms(T, C)
    BY <1>1, DataFieldsAre
  <2>2. WithTransforms(F, C)
    BY <1>1, DataFieldsAre
  <2>3. WithTransforms(DataFields(n), C)
    BY <1>1, DataFieldsAre
  <2>4. Stored \notin T
    BY <1>1, DataFieldsAre
  <2> QED
    BY <2>1, <2>2, <2>3, <2>4
<1>6. Stored \in Blocks
  BY "stored_payload" \in Names, BlockNames DEF Names, Stored
<1>7. /\ Channels \notin F /\ Decoded \notin F \cup L /\ <<"intermediate">> \notin F \cup L
      /\ Work \cap (F \cup L) = {}
  BY DEF TransformFields, Parameters, Transforms, Stored, Channels, Decoded, Work
<1>8. F \cup {Decoded} = DataFields(n)
  BY DEF DataFields
<1> HIDE DEF T, F, G, D
<1>9. /\ \A K : Reached(State(T, C, K))
      /\ \A K : Reached(State(F, C, K)) /\ Kept(State(F, C, K))
      /\ \A K : Reached(State(DataFields(n), C, K))
  BY <1>5, WithTransformsIsKept
<1>10. Ends(check, s1, s1)
  BY <1>9, EndsMalformed
<1>11. Ends(keep, s1, s2)
  BY <1>5, <1>6, <1>9, EndsKeep DEF F
<1>12. Ends(schema, s2, s3)
  BY <1>5, <1>7, EndsDataSchema
<1>13. Ends(undecoded, s3, s3)
  <2>1. CASE n = 0
    BY <2>1, EndsNone
  <2>2. CASE n # 0
    BY <1>9, <2>2, MeetsReturn, EndsOne
  <2> QED
    BY <2>1, <2>2
<1>14. Ends(payload, s3, s4)
  <2>1. Ends(DecodeTransforms(n, L), State(F, C, L), State(F \cup {Decoded}, C, L))
    <3> HIDE DEF L
    <3> QED
      BY <1>5, <1>7, EndsDecodeTransforms
  <2> QED
    BY <1>8, <2>1
<1>15. Ends(size, s4, s4)
  BY <1>9, EndsMalformed
<1>16. Ends(samples, s4, s5)
  BY EndsDecodeSamples DEF C, G, D
<1>17. Ends(drop, s5, end)
  <2>1. L \in SUBSET L /\ L \ L = {}
    OBVIOUS
  <2> QED
    BY <2>1, MeetsDrop, EndsOne
<1>18. Ends(ParseData(n, m, l, fixed), Fresh, end)
  <2> HIDE DEF front, transforms, check, keep, schema, undecoded, payload,
               size, samples, drop, s0, s1, s2, s3, s4, s5, end
  <2>1. Ends(front \o transforms, Fresh, s1)
    BY <1>3, <1>4, EndsConcat
  <2>2. Ends(front \o transforms \o check, Fresh, s1)
    BY <1>10, <2>1, EndsConcat
  <2>3. Ends(front \o transforms \o check \o keep, Fresh, s2)
    BY <1>11, <2>2, EndsConcat
  <2>4. Ends(front \o transforms \o check \o keep \o schema, Fresh, s3)
    BY <1>12, <2>3, EndsConcat
  <2>5. Ends(front \o transforms \o check \o keep \o schema \o undecoded, Fresh, s3)
    BY <1>13, <2>4, EndsConcat
  <2>6. Ends(front \o transforms \o check \o keep \o schema \o undecoded \o payload,
             Fresh, s4)
    BY <1>14, <2>5, EndsConcat
  <2>7. Ends(front \o transforms \o check \o keep \o schema \o undecoded \o payload
               \o size, Fresh, s4)
    BY <1>15, <2>6, EndsConcat
  <2>8. Ends(front \o transforms \o check \o keep \o schema \o undecoded \o payload
               \o size \o samples, Fresh, s5)
    BY <1>16, <2>7, EndsConcat
  <2>9. Ends(front \o transforms \o check \o keep \o schema \o undecoded \o payload
               \o size \o samples \o drop, Fresh, end)
    BY <1>17, <2>8, EndsConcat
  <2> QED
    BY <1>2, <2>9
<1>19. end.locals = {} /\ Kept(end)
  BY SampleFieldsKept DEF State, G, D
<1> HIDE DEF end
<1> QED
  BY <1>18, <1>19 DEF Parsed, GoesOn

\* Whatever the record at hand.
LEMMA EveryParse ==
  ASSUME NEW p \in Parses
  PROVE  Parsed(p.todo)
<1>1. /\ TransformCounts \subseteq Nat /\ ObjectCounts \subseteq Nat
      /\ TlvCounts \subseteq Nat /\ EntryCounts \subseteq Nat
      /\ SampleCounts \subseteq Nat /\ LaneCounts \subseteq Nat
  BY OwnershipAssumption
<1>2. CASE \E n \in ObjectCounts, t \in TlvCounts : \E b \in 0 .. n :
             p.todo = ParseSchema(n, t, b)
  <2>1. PICK n \in ObjectCounts, t \in TlvCounts :
               \E b \in 0 .. n : p.todo = ParseSchema(n, t, b)
    BY <1>2
  <2>2. PICK b \in 0 .. n : p.todo = ParseSchema(n, t, b)
    BY <2>1
  <2>3. n \in Nat /\ t \in Nat /\ b \in Nat
    BY <1>1
  <2> QED
    BY <2>2, <2>3, ParsedSchema
<1>3. CASE \E n \in TransformCounts, s \in SampleCounts, l \in LaneCounts, f \in BOOLEAN :
             p.todo = ParseData(n, s, l, f)
  BY <1>1, <1>3, ParsedData
<1>4. CASE \E n \in TransformCounts : p.todo = ParseBlob(n)
  BY <1>1, <1>4, ParsedBlob
<1>5. CASE p.todo = ParseText
  BY <1>5, ParsedText
<1>6. CASE \E n \in EntryCounts : p.todo = ParseIndex(n)
  BY <1>1, <1>6, ParsedIndex
<1>7. CASE p.todo = <<Malformed({})>>
  BY <1>7, ParsedEnd
<1>8. CASE p.todo = ParseUnknown
  BY <1>8, ParsedUnknown
<1>9. \/ p.todo \in SchemaParses \/ p.todo \in DataParses \/ p.todo \in BlobParses
      \/ p.todo \in IndexParses \/ p.todo = ParseText \/ p.todo = <<Malformed({})>>
      \/ p.todo = ParseUnknown
  BY DEF Parses
<1>10. ASSUME p.todo \in SchemaParses
       PROVE  \E n \in ObjectCounts, t \in TlvCounts : \E b \in 0 .. n :
                p.todo = ParseSchema(n, t, b)
  <2>1. PICK n \in ObjectCounts :
               p.todo \in {ParseSchema(n, t, b) : t \in TlvCounts, b \in 0 .. n}
    BY <1>10 DEF SchemaParses
  <2> QED
    BY <2>1
<1> QED
  BY <1>2, <1>3, <1>4, <1>5, <1>6, <1>7, <1>8, <1>9, <1>10
     DEF DataParses, BlobParses, IndexParses

-----------------------------------------------------------------------------
(* The invariant of the call. *)

NowOf(r, ls) ==
  [fields |-> r.fields, counts |-> [a \in Blocks |-> CountOf(r, a)], locals |-> ls]

RecordTypes == {"SCMA", "DATA", "BLOB", "TEXT", "NOTE", "INDX", "END!", "PRIV"}

IsRecord(r) ==
  /\ r = [type |-> r.type, timed |-> r.timed, fields |-> r.fields, counts |-> r.counts]
  /\ r.timed \in BOOLEAN
  /\ DOMAIN r.counts \subseteq Blocks
  /\ \A a \in DOMAIN r.counts : r.counts[a] \in Nat

\* A record of the document.
IsKept(r) == Kept(r) /\ IsRecord(r) /\ r.type \in RecordTypes

Tagged(n, bs) == {<<n, b>> : b \in bs}

OfDocument(rs) == UNION {{<<i, b>> : b \in rs[i].fields} : i \in 1 .. Len(rs)}

Working == {"parsing", "failing", "died"}

Owned ==
  /\ IsSeq(records)
  /\ held = OfDocument(records)
              \cup Tagged(Len(records) + 1, record.fields \cup locals)
  /\ record.fields \cap locals = {}
  /\ IsRecord(record)
  /\ \A i \in 1 .. Len(records) : IsKept(records[i])
  /\ status \in Working => record.type \in RecordTypes
  /\ status \in {"idle", "scanning", "OK"} \cup Working \cup Failures
  /\ status \notin Working => record = NoRecord /\ locals = {} /\ todo = <<>>
  /\ status = "idle" => records = <<>>
  /\ status = "parsing" => GoesOn(todo, NowOf(record, locals))
  /\ status = "failing" =>
       todo = <<>> /\ locals = {} /\ Reached(record) /\ verdict \in Failures
  /\ status = "died" => todo = <<>> /\ locals = {}

\* A count that no array has is zero either way.
LEMMA NowOfIs ==
  ASSUME NEW r, NEW ls, DOMAIN r.counts \subseteq Blocks
  PROVE  /\ Reached(NowOf(r, ls)) <=> Reached(r)
         /\ Kept(NowOf(r, ls)) <=> Kept(r)
<1> DEFINE s == NowOf(r, ls)
<1>1. s.fields = r.fields /\ s.counts = [a \in Blocks |-> CountOf(r, a)]
  BY DEF NowOf
<1> HIDE DEF s
<1>2. ASSUME NEW a PROVE CountOf(s, a) = CountOf(r, a)
  BY <1>1 DEF CountOf
<1>3. Released(s) = Released(r)
  BY <1>1, <1>2 DEF Released
<1>4. Walked(s) = Walked(r)
  BY <1>1, <1>2 DEF Walked
<1>5. ReadsMissing(s) <=> ReadsMissing(r)
  BY <1>1, <1>2, <1>4 DEF ReadsMissing
<1>6. Reached(s) <=> Reached(r)
  BY <1>1, <1>3 DEF Reached
<1> QED
  BY <1>5, <1>6 DEF Kept, s

LEMMA FreshIsNow ==
  ASSUME NEW r, r.fields = {}, r.counts = <<>>
  PROVE  NowOf(r, {}) = Fresh
BY DEF NowOf, CountOf, Fresh, State, NoCounts

LEMMA NoRecordIs ==
  /\ IsRecord(NoRecord) /\ NoRecord.fields = {} /\ NoRecord.counts = <<>>
BY DEF IsRecord, NoRecord

LEMMA MineIs ==
  ASSUME NEW bs
  PROVE  Mine(bs) = Tagged(Len(records) + 1, bs)
BY DEF Mine, Tagged

LEMMA NotOfDocument ==
  ASSUME NEW rs, IsSeq(rs), NEW b
  PROVE  <<Len(rs) + 1, b>> \notin OfDocument(rs)
<1>1. Len(rs) \in Nat
  BY DEF IsSeq
<1>2. Len(rs) + 1 \notin 1 .. Len(rs)
  BY <1>1
<1> QED
  BY <1>2 DEF OfDocument

\* Blocks of the record at hand that are freed.
LEMMA TaggedLess ==
  ASSUME NEW D, NEW n, NEW A, NEW B, \A b : <<n, b>> \notin D
  PROVE  (D \cup Tagged(n, A)) \ Tagged(n, B) = D \cup Tagged(n, A \ B)
BY DEF Tagged

LEMMA TaggedMore ==
  ASSUME NEW n, NEW A, NEW B
  PROVE  Tagged(n, A) \cup Tagged(n, B) = Tagged(n, A \cup B)
BY DEF Tagged

LEMMA InDocument ==
  ASSUME NEW q, NEW x
  PROVE  x \in OfDocument(q) <=> \E i \in 1 .. Len(q) : x \in Tagged(i, q[i].fields)
BY DEF OfDocument, Tagged

LEMMA OfDocumentMore ==
  ASSUME NEW rs, IsSeq(rs), NEW r
  PROVE  /\ OfDocument(Append(rs, r)) = OfDocument(rs) \cup Tagged(Len(rs) + 1, r.fields)
         /\ IsSeq(Append(rs, r)) /\ Len(Append(rs, r)) = Len(rs) + 1
         /\ \A i \in 1 .. Len(rs) + 1 :
              Append(rs, r)[i] = IF i = Len(rs) + 1 THEN r ELSE rs[i]
<1>1. PICK S : rs \in Seq(S)
  BY DEF IsSeq
<1> DEFINE T == S \cup {r}
           n == Len(rs)
           as == Append(rs, r)
<1>2. rs \in Seq(T) /\ r \in T
  BY <1>1
<1>3. /\ as \in Seq(T) /\ n \in Nat /\ Len(as) = n + 1
      /\ \A i \in 1 .. n : as[i] = rs[i]
      /\ as[n + 1] = r
  BY <1>2, AppendProperties
<1>4. 1 .. n + 1 = (1 .. n) \cup {n + 1} /\ n + 1 \notin 1 .. n
  BY <1>3
<1> HIDE DEF as, n
<1>5. OfDocument(as) = OfDocument(rs) \cup Tagged(n + 1, r.fields)
  <2>1. \A x : x \in OfDocument(as) <=> \E i \in 1 .. n + 1 : x \in Tagged(i, as[i].fields)
    BY <1>3, InDocument
  <2>2. \A x : x \in OfDocument(rs) <=> \E i \in 1 .. n : x \in Tagged(i, rs[i].fields)
    BY InDocument DEF n
  <2>3. \A i \in 1 .. n : Tagged(i, as[i].fields) = Tagged(i, rs[i].fields)
    BY <1>3
  <2>4. Tagged(n + 1, r.fields) = Tagged(n + 1, as[n + 1].fields)
    BY <1>3
  <2> QED
    BY <1>4, <2>1, <2>2, <2>3, <2>4
<1>6. IsSeq(as)
  BY <1>3 DEF IsSeq
<1>7. \A i \in 1 .. n + 1 : as[i] = IF i = n + 1 THEN r ELSE rs[i]
  BY <1>3, <1>4
<1> QED
  BY <1>3, <1>5, <1>6, <1>7 DEF as, n

LEMMA OfNoDocument ==
  OfDocument(<<>>) = {} /\ IsSeq(<<>>) /\ Len(<<>>) = 0
<1>1. <<>> \in Seq({}) /\ Len(<<>>) = 0 /\ 1 .. 0 = {}
  OBVIOUS
<1> QED
  BY <1>1 DEF OfDocument, IsSeq

\* The first operation, while a parse function is at work.
LEMMA AtHead ==
  ASSUME NEW ops, NEW s, GoesOn(ops, s), ops # <<>>
  PROVE  Meets(Head(ops), s) /\ GoesOn(Tail(ops), After(Head(ops), s))
<1>1. PICK t : Ends(ops, s, t) /\ t.locals = {} /\ Kept(t)
  BY DEF GoesOn
<1> QED
  BY <1>1, EndsHead DEF GoesOn

\* And at its end.
LEMMA AtEnd ==
  ASSUME NEW s
  PROVE  GoesOn(<<>>, s) <=> s.locals = {} /\ Kept(s)
<1>1. ASSUME GoesOn(<<>>, s) PROVE s.locals = {} /\ Kept(s)
  <2>1. PICK t : Ends(<<>>, s, t) /\ t.locals = {} /\ Kept(t)
    BY <1>1 DEF GoesOn
  <2> QED
    BY <2>1, EndsEmpty
<1> QED
  BY <1>1, EndsNone DEF GoesOn

\* What the variables must satisfy while a parse function is at work, in
\* terms of the operations that are left.
LEMMA WorkingOwned ==
  ASSUME Owned, status = "parsing", todo # <<>>
  PROVE  LET s == NowOf(record, locals) IN
         /\ Meets(Head(todo), s) /\ GoesOn(Tail(todo), After(Head(todo), s))
         /\ s.fields = record.fields /\ s.locals = locals
         /\ Reached(s) <=> Reached(record)
         /\ Kept(s) <=> Kept(record)
<1> DEFINE s == NowOf(record, locals)
<1>1. GoesOn(todo, s)
  BY DEF Owned
<1>2. Meets(Head(todo), s) /\ GoesOn(Tail(todo), After(Head(todo), s))
  <2> HIDE DEF s
  <2> QED
    BY <1>1, AtHead
<1>3. DOMAIN record.counts \subseteq Blocks
  BY DEF Owned, IsRecord
<1>4. (Reached(s) <=> Reached(record)) /\ (Kept(s) <=> Kept(record))
  BY <1>3, NowOfIs
<1>5. s.fields = record.fields /\ s.locals = locals
  BY DEF NowOf
<1> QED
  BY <1>2, <1>4, <1>5

LEMMA HeldLess ==
  ASSUME Owned, NEW bs
  PROVE  held \ Mine(bs)
           = OfDocument(records)
               \cup Tagged(Len(records) + 1, (record.fields \cup locals) \ bs)
<1> DEFINE D == OfDocument(records)
           n == Len(records) + 1
           A == record.fields \cup locals
<1>1. held = D \cup Tagged(n, A) /\ Mine(bs) = Tagged(n, bs)
  BY MineIs DEF Owned
<1>2. \A b : <<n, b>> \notin D
  BY NotOfDocument DEF Owned
<1> HIDE DEF A, D, n
<1>3. (D \cup Tagged(n, A)) \ Tagged(n, bs) = D \cup Tagged(n, A \ bs)
  BY <1>2, TaggedLess
<1> QED
  BY <1>1, <1>3 DEF A, D, n

LEMMA FailKeepsOwned ==
  ASSUME Owned, status = "parsing", todo # <<>>, Head(todo).do \in {"check", "claim"}, Fail
  PROVE  Owned'
<1> DEFINE s == NowOf(record, locals)
           op == Head(todo)
<1>1. /\ Meets(op, s)
      /\ s.fields = record.fields /\ s.locals = locals
      /\ Reached(s) <=> Reached(record)
  BY WorkingOwned
<1> HIDE DEF s
<1>2. op.as \subseteq Failures /\ op.frees = locals /\ Reached(record)
  <2>1. CASE op.do = "check"
    BY <1>1, <2>1 DEF Meets
  <2>2. CASE op.do = "claim"
    BY <1>1, <2>2 DEF Meets
  <2> QED
    BY <2>1, <2>2
<1>3. /\ verdict' \in Failures /\ status' = "failing" /\ locals' = {} /\ todo' = <<>>
      /\ records' = records /\ record' = record
      /\ held' = held \ Mine(locals)
  BY <1>2 DEF Fail
<1>4. held' = OfDocument(records)
                \cup Tagged(Len(records) + 1, (record.fields \cup locals) \ locals)
  BY <1>3, HeldLess
<1>5. (record.fields \cup locals) \ locals = record.fields \cup {}
  BY DEF Owned
<1>6. held' = OfDocument(records') \cup Tagged(Len(records') + 1, record'.fields \cup locals')
  BY <1>3, <1>4, <1>5
<1>7. status' \in Working /\ status' \notin {"idle", "parsing", "died"}
  BY <1>3 DEF Working
<1> QED
  BY <1>2, <1>3, <1>6, <1>7 DEF Owned, Working

\* An operation done: the variables are as After says.
LEMMA DoneKeepsOwned ==
  ASSUME Owned, status = "parsing", todo # <<>>,
         status' = "parsing", records' = records, todo' = Tail(todo),
         NowOf(record, locals)' = After(Head(todo), NowOf(record, locals)),
         IsRecord(record)', record'.type = record.type,
         record'.fields \cap locals' = {},
         held' = OfDocument(records)
                   \cup Tagged(Len(records) + 1, record'.fields \cup locals')
  PROVE  Owned'
<1>1. GoesOn(Tail(todo), After(Head(todo), NowOf(record, locals)))
  BY WorkingOwned
<1>2. GoesOn(todo', NowOf(record, locals)')
  BY <1>1
<1>3. status' \in Working /\ status' \notin {"idle", "failing", "died"}
  BY DEF Working
<1>4. GoesOn(todo, NowOf(record, locals))'
  BY <1>2
<1> QED
  BY <1>3, <1>4 DEF Owned, Working

LEMMA TypesOfParses ==
  ASSUME NEW p \in Parses
  PROVE  p.type \in RecordTypes /\ p.timed \in BOOLEAN
BY DEF Parses, RecordTypes

LEMMA ReadyKeepsOwned ==
  ASSUME Owned, BeginRecord
  PROVE  Owned'
<1>1. status = "scanning" /\ status' = "parsing" /\ records' = records
        /\ locals' = locals /\ held' = held
  BY DEF BeginRecord
<1>2. PICK p \in Parses :
        /\ record' = [NoRecord EXCEPT !.type = p.type, !.timed = p.timed]
        /\ todo' = p.todo
  BY DEF BeginRecord
<1>3. record'.fields = {} /\ record'.counts = <<>> /\ IsRecord(record')
  <2>1. record' = [type |-> p.type, timed |-> p.timed, fields |-> {}, counts |-> <<>>]
    BY <1>2 DEF NoRecord
  <2>2. record'.fields = {} /\ record'.counts = <<>> /\ record'.timed \in BOOLEAN
    BY <2>1, TypesOfParses
  <2>3. DOMAIN record'.counts = {}
    BY <2>2
  <2> QED
    BY <2>1, <2>2, <2>3 DEF IsRecord
<1>4. record = NoRecord /\ locals = {} /\ record.fields = {}
  BY <1>1, NoRecordIs DEF Owned, Working
<1>7. record'.type \in RecordTypes
  <2>1. record'.type = p.type
    BY <1>2 DEF NoRecord
  <2> QED
    BY <2>1, TypesOfParses
<1>5. GoesOn(todo', NowOf(record', locals'))
  <2>1. NowOf(record', {}) = Fresh
    BY <1>3, FreshIsNow
  <2>2. GoesOn(p.todo, Fresh)
    BY EveryParse DEF Parsed, GoesOn
  <2> QED
    BY <1>1, <1>2, <1>4, <2>1, <2>2
<1>6. status' \in Working /\ status' \notin {"idle", "failing", "died"}
  BY <1>1 DEF Working
<1> QED
  BY <1>1, <1>3, <1>4, <1>5, <1>6, <1>7 DEF Owned, Working

LEMMA AppendKeepsOwned ==
  ASSUME Owned, AppendRecord
  PROVE  Owned'
<1>1. /\ status = "parsing" /\ todo = <<>> /\ status' = "scanning"
      /\ records' = Append(records, record) /\ record' = NoRecord
      /\ todo' = todo /\ locals' = locals /\ held' = held
  BY DEF AppendRecord
<1>2. locals = {} /\ IsKept(record)
  <2>1. NowOf(record, locals).locals = {} /\ Kept(NowOf(record, locals))
    BY <1>1, AtEnd DEF Owned
  <2>2. locals = {} /\ Kept(record)
    BY <2>1, NowOfIs DEF Owned, IsRecord, NowOf
  <2> QED
    BY <1>1, <2>2 DEF Owned, IsKept, Working
<1>3. held' = OfDocument(records')
                \cup Tagged(Len(records') + 1, record'.fields \cup locals')
  <2>1. held' = OfDocument(records) \cup Tagged(Len(records) + 1, record.fields)
    BY <1>1, <1>2 DEF Owned
  <2>2. OfDocument(records')
          = OfDocument(records) \cup Tagged(Len(records) + 1, record.fields)
    BY <1>1, OfDocumentMore DEF Owned
  <2>3. Tagged(Len(records') + 1, record'.fields \cup locals') = {}
    BY <1>1, <1>2, NoRecordIs DEF Tagged
  <2> QED
    BY <2>1, <2>2, <2>3
<1>4. IsSeq(records') /\ \A i \in 1 .. Len(records') : IsKept(records'[i])
  <2>1. /\ IsSeq(records') /\ Len(records') = Len(records) + 1
        /\ \A i \in 1 .. Len(records) + 1 :
             records'[i] = IF i = Len(records) + 1 THEN record ELSE records[i]
    BY <1>1, OfDocumentMore DEF Owned
  <2>2. Len(records) \in Nat
    BY DEF Owned, IsSeq
  <2>3. \A i \in 1 .. Len(records) : IsKept(records[i])
    BY DEF Owned
  <2>4. ASSUME NEW i \in 1 .. Len(records) + 1 PROVE IsKept(records'[i])
    <3>1. CASE i = Len(records) + 1
      BY <1>2, <2>1, <3>1
    <3>2. CASE i # Len(records) + 1
      <4>1. i \in 1 .. Len(records)
        BY <2>2, <3>2
      <4> QED
        BY <2>1, <2>3, <3>2, <4>1
    <3> QED
      BY <3>1, <3>2
  <2> QED
    BY <2>1, <2>4
<1>5. status' \notin Working /\ status' \notin {"idle", "parsing", "failing", "died"}
  BY <1>1 DEF Working
<1> QED
  BY <1>1, <1>2, <1>3, <1>4, <1>5, NoRecordIs DEF Owned

LEMMA FailAppendKeepsOwned ==
  ASSUME Owned, FailAppend
  PROVE  Owned'
<1>1. /\ status = "parsing" /\ todo = <<>> /\ status' = "failing"
      /\ verdict' \in Failures
      /\ records' = records /\ record' = record
      /\ todo' = todo /\ locals' = locals /\ held' = held
  BY DEF FailAppend, Failures
<1>2. locals = {} /\ Reached(record)
  <2>1. NowOf(record, locals).locals = {} /\ Kept(NowOf(record, locals))
    BY <1>1, AtEnd DEF Owned
  <2>2. Kept(record)
    BY <2>1, NowOfIs DEF Owned, IsRecord
  <2> QED
    BY <2>1, <2>2 DEF Kept, NowOf
<1>3. /\ status' \in Working /\ status' \notin {"idle", "parsing", "died"}
      /\ status \in Working
  BY <1>1 DEF Working
<1> QED
  BY <1>1, <1>2, <1>3 DEF Owned

LEMMA FreeRecordKeepsOwned ==
  ASSUME Owned, FreeRecord
  PROVE  Owned'
<1>1. /\ status = "failing" /\ status' = verdict /\ record' = NoRecord
      /\ held' = held \ Mine(Released(record))
      /\ records' = records /\ todo' = todo /\ locals' = locals
  BY DEF FreeRecord
<1>2. /\ todo = <<>> /\ locals = {} /\ Reached(record) /\ verdict \in Failures
  BY <1>1 DEF Owned
<1>3. held' = OfDocument(records)
                \cup Tagged(Len(records) + 1,
                            (record.fields \cup locals) \ Released(record))
  BY <1>1, HeldLess
<1>4. (record.fields \cup locals) \ Released(record) = NoRecord.fields \cup {}
  BY <1>2, NoRecordIs DEF Reached
<1>5. status' \notin Working /\ status' \notin {"idle", "parsing", "failing", "died"}
  BY <1>1, <1>2 DEF Working, Failures
<1> QED
  BY <1>1, <1>2, <1>3, <1>4, <1>5, NoRecordIs DEF Owned

\* The document is released whole.
LEMMA FreeDocumentKeepsOwned ==
  ASSUME Owned, FreeDocument
  PROVE  Owned' /\ held' = {}
<1>1. /\ Returned
      /\ held' = held \ UNION {{<<i, b>> : b \in Released(records[i])} :
                                 i \in 1 .. Len(records)}
      /\ records' = <<>> /\ status' = "idle"
      /\ record' = record /\ todo' = todo /\ locals' = locals
  BY DEF FreeDocument
<1>2. status \notin Working /\ status' \notin Working
        /\ status' \notin {"parsing", "failing", "died"}
  BY <1>1 DEF Returned, Working, Failures
<1>3. record = NoRecord /\ locals = {} /\ todo = <<>>
  BY <1>2 DEF Owned
<1>4. held = OfDocument(records)
  BY <1>3, NoRecordIs DEF Owned, Tagged
<1>5. ASSUME NEW i \in 1 .. Len(records) PROVE records[i].fields \subseteq Released(records[i])
  <2>1. Kept(records[i])
    BY DEF Owned, IsKept
  <2> QED
    BY <2>1 DEF Kept, Reached
<1>6. OfDocument(records)
        \subseteq UNION {{<<i, b>> : b \in Released(records[i])} : i \in 1 .. Len(records)}
  BY <1>5 DEF OfDocument
<1>7. held' = {}
  BY <1>1, <1>4, <1>6
<1>8. held' = OfDocument(records')
                \cup Tagged(Len(records') + 1, record'.fields \cup locals')
  BY <1>1, <1>3, <1>7, NoRecordIs, OfNoDocument DEF Tagged
<1> QED
  BY <1>1, <1>2, <1>3, <1>7, <1>8, NoRecordIs, OfNoDocument DEF Owned

LEMMA PassCheckKeepsOwned ==
  ASSUME Owned, Does("check") \/ Does("return"), todo' = Tail(todo),
         UNCHANGED <<records, record, locals, held, status>>
  PROVE  Owned'
<1>1. status = "parsing" /\ todo # <<>> /\ Head(todo).do \in {"check", "return"}
  BY DEF Does
<1>2. After(Head(todo), NowOf(record, locals)) = NowOf(record, locals)
  BY <1>1 DEF After
<1>3. /\ IsRecord(record) /\ record.fields \cap locals = {}
      /\ held = OfDocument(records)
                  \cup Tagged(Len(records) + 1, record.fields \cup locals)
  BY DEF Owned
<1> QED
  BY <1>1, <1>2, <1>3, DoneKeepsOwned

LEMMA AllocateKeepsOwned ==
  ASSUME Owned, Allocate
  PROVE  Owned'
<1> DEFINE op == Head(todo)
           b == op.block
           s == NowOf(record, locals)
           n == Len(records) + 1
<1>1. /\ status = "parsing" /\ todo # <<>> /\ op.do = "claim"
      /\ locals' = locals \cup {b} /\ held' = held \cup Mine({b})
      /\ todo' = Tail(todo) /\ record' = record /\ records' = records
      /\ status' = status
  BY DEF Allocate, Does
<1>2. b \notin record.fields \cup locals
  <2>1. Meets(op, s) /\ s.fields = record.fields /\ s.locals = locals
    BY <1>1, WorkingOwned
  <2> HIDE DEF s, op
  <2> QED
    BY <1>1, <2>1 DEF Meets
<1>3. NowOf(record', locals') = After(op, s)
  BY <1>1 DEF After, NowOf
<1>4. /\ IsRecord(record') /\ record'.fields \cap locals' = {}
  BY <1>1, <1>2 DEF Owned
<1>5. held' = OfDocument(records) \cup Tagged(n, record'.fields \cup locals')
  <2>1. held = OfDocument(records) \cup Tagged(n, record.fields \cup locals)
    BY DEF Owned
  <2>2. Mine({b}) = Tagged(n, {b})
    BY MineIs
  <2>3. Tagged(n, record.fields \cup locals) \cup Tagged(n, {b})
          = Tagged(n, (record.fields \cup locals) \cup {b})
    BY TaggedMore
  <2>4. record'.fields \cup locals' = (record.fields \cup locals) \cup {b}
    BY <1>1
  <2> DEFINE A == record.fields \cup locals
             D == OfDocument(records)
             N == record'.fields \cup locals'
  <2>5. held' = held \cup Mine({b})
    BY <1>1
  <2> HIDE DEF b, n, A, D, N
  <2>6. held' = (D \cup Tagged(n, A)) \cup Tagged(n, {b})
    BY <2>1, <2>2, <2>5 DEF A, D
  <2>7. held' = D \cup Tagged(n, N)
    BY <2>3, <2>4, <2>6 DEF A, N
  <2> QED
    BY <2>7 DEF D, N
<1> QED
  BY <1>1, <1>3, <1>4, <1>5, DoneKeepsOwned

LEMMA SetFieldKeepsOwned ==
  ASSUME Owned, SetField
  PROVE  Owned'
<1> DEFINE op == Head(todo)
           bs == op.blocks
           s == NowOf(record, locals)
<1>1. /\ status = "parsing" /\ todo # <<>> /\ op.do = "give"
      /\ record' = [record EXCEPT !.fields = @ \cup bs]
      /\ locals' = locals \ bs /\ todo' = Tail(todo)
      /\ records' = records /\ held' = held /\ status' = status
  BY DEF SetField, Does
<1>2. bs \subseteq locals
  <2>1. Meets(op, s) /\ s.locals = locals
    BY <1>1, WorkingOwned
  <2> HIDE DEF s, op
  <2> QED
    BY <1>1, <2>1 DEF Meets
<1>3. /\ record'.fields = record.fields \cup bs /\ record'.counts = record.counts
      /\ IsRecord(record') /\ record'.type = record.type
  <2>1. record = [type |-> record.type, timed |-> record.timed,
                  fields |-> record.fields, counts |-> record.counts]
    BY DEF Owned, IsRecord
  <2>2. record' = [type |-> record.type, timed |-> record.timed,
                   fields |-> record.fields \cup bs, counts |-> record.counts]
    BY <1>1, <2>1
  <2>3. /\ DOMAIN record.counts \subseteq Blocks /\ record.timed \in BOOLEAN
        /\ \A a \in DOMAIN record.counts : record.counts[a] \in Nat
    BY DEF Owned, IsRecord
  <2> QED
    BY <2>2, <2>3 DEF IsRecord
<1>4. NowOf(record', locals') = After(op, s)
  BY <1>1, <1>3 DEF After, NowOf, CountOf
<1>5. record'.fields \cap locals' = {} /\ record'.fields \cup locals' = record.fields \cup locals
  BY <1>1, <1>2, <1>3 DEF Owned
<1>6. held' = OfDocument(records)
                \cup Tagged(Len(records) + 1, record'.fields \cup locals')
  BY <1>1, <1>5 DEF Owned
<1> QED
  BY <1>1, <1>3, <1>4, <1>5, <1>6, DoneKeepsOwned

LEMMA SetArrayCountKeepsOwned ==
  ASSUME Owned, SetArrayCount
  PROVE  Owned'
<1> DEFINE op == Head(todo)
           s == NowOf(record, locals)
           counts == [a \in DOMAIN record.counts \cup {op.array} |->
                        IF a = op.array THEN op.n ELSE record.counts[a]]
<1>1. /\ status = "parsing" /\ todo # <<>> /\ op.do = "count"
      /\ record' = [record EXCEPT !.counts = counts]
      /\ locals' = locals /\ todo' = Tail(todo)
      /\ records' = records /\ held' = held /\ status' = status
  BY DEF SetArrayCount, Does, Owned, IsRecord
<1>2. op.array \in Blocks /\ op.n \in Nat
  <2>1. Meets(op, s)
    BY <1>1, WorkingOwned
  <2> HIDE DEF s, op
  <2> QED
    BY <1>1, <2>1 DEF Meets
<1>3. /\ record'.fields = record.fields /\ record'.counts = counts
      /\ IsRecord(record') /\ record'.type = record.type
  <2>1. record = [type |-> record.type, timed |-> record.timed,
                  fields |-> record.fields, counts |-> record.counts]
    BY DEF Owned, IsRecord
  <2>2. record' = [type |-> record.type, timed |-> record.timed,
                   fields |-> record.fields, counts |-> counts]
    BY <1>1, <2>1
  <2>3. /\ DOMAIN counts \subseteq Blocks /\ record.timed \in BOOLEAN
        /\ \A a \in DOMAIN counts : counts[a] \in Nat
    BY <1>2 DEF Owned, IsRecord
  <2> QED
    BY <2>2, <2>3 DEF IsRecord
<1>4. NowOf(record', locals') = After(op, s)
  <2>1. \A a \in Blocks : CountOf(record', a) = IF a = op.array THEN op.n ELSE CountOf(record, a)
    BY <1>3 DEF CountOf
  <2>2. After(op, s) = [s EXCEPT !.counts[op.array] = op.n]
    BY <1>1 DEF After
  <2>3. NowOf(record', locals')
          = [fields |-> record.fields,
             counts |-> [a \in Blocks |-> IF a = op.array THEN op.n ELSE CountOf(record, a)],
             locals |-> locals]
    BY <1>1, <1>3, <2>1 DEF NowOf
  <2> HIDE DEF op
  <2> QED
    BY <2>2, <2>3 DEF NowOf
<1>5. record'.fields \cap locals' = {}
  BY <1>1, <1>3 DEF Owned
<1>6. held' = OfDocument(records)
                \cup Tagged(Len(records) + 1, record'.fields \cup locals')
  BY <1>1, <1>3 DEF Owned
<1> QED
  BY <1>1, <1>3, <1>4, <1>5, <1>6, DoneKeepsOwned

LEMMA FreeLocalsKeepsOwned ==
  ASSUME Owned, FreeLocals
  PROVE  Owned'
<1> DEFINE op == Head(todo)
           s == NowOf(record, locals)
<1>1. /\ status = "parsing" /\ todo # <<>>
      /\ \/ op.do = "drop" /\ todo' = Tail(todo)
         \/ op.do = "return" /\ todo' = <<>>
      /\ held' = held \ Mine(op.frees) /\ locals' = locals \ op.frees
      /\ records' = records /\ record' = record /\ status' = status
  BY DEF FreeLocals, Does
<1>2. Meets(op, s) /\ s.locals = locals /\ (Kept(s) <=> Kept(record))
  BY <1>1, WorkingOwned
<1>3. op.frees \subseteq locals
  <2> HIDE DEF s, op
  <2>1. CASE op.do = "drop"
    BY <1>2, <2>1 DEF Meets
  <2>2. CASE op.do = "return"
    BY <1>2, <2>2 DEF Meets
  <2> QED
    BY <1>1, <2>1, <2>2
<1>4. held' = OfDocument(records)
                \cup Tagged(Len(records) + 1, record'.fields \cup locals')
  <2>1. (record.fields \cup locals) \ op.frees = record'.fields \cup locals'
    BY <1>1, <1>3 DEF Owned
  <2> QED
    BY <1>1, <2>1, HeldLess
<1>5. IsRecord(record') /\ record'.fields \cap locals' = {}
  BY <1>1 DEF Owned
<1>6. CASE op.do = "drop"
  <2>1. NowOf(record', locals') = After(op, s)
    BY <1>1, <1>6 DEF After, NowOf
  <2>2. todo' = Tail(todo)
    BY <1>1, <1>6
  <2> QED
    BY <1>1, <1>4, <1>5, <2>1, <2>2, DoneKeepsOwned
<1>7. CASE op.do = "return"
  <2>1. todo' = <<>>
    BY <1>1, <1>7
  <2>2. op.frees = locals /\ Kept(record)
    <3> HIDE DEF s, op
    <3> QED
      BY <1>2, <1>7 DEF Meets
  <2>3. locals' = {}
    BY <1>1, <2>2
  <2>4. NowOf(record', locals').locals = {} /\ Kept(NowOf(record', locals'))
    <3>1. DOMAIN record'.counts \subseteq Blocks /\ Kept(record')
      BY <1>1, <2>2 DEF Owned, IsRecord
    <3>2. Kept(NowOf(record', locals'))
      BY <3>1, NowOfIs
    <3> QED
      BY <2>3, <3>2 DEF NowOf
  <2>5. GoesOn(todo', NowOf(record', locals'))
    BY <2>1, <2>4, AtEnd
  <2>6. status' \in Working /\ status' \notin {"idle", "failing", "died"}
    BY <1>1 DEF Working
  <2> QED
    BY <1>1, <1>4, <1>5, <2>5, <2>6 DEF Owned, Working
<1> QED
  BY <1>1, <1>6, <1>7

(***************************************************************************)
(* Every step of the call keeps the invariant.                             *)
(***************************************************************************)
LEMMA DecodeStepKeepsOwned ==
  ASSUME Owned, DecodeStep
  PROVE  Owned'
<1>1. CASE Decode
  <2>1. /\ status' \notin Working /\ status' \notin {"idle", "parsing", "failing", "died"}
        /\ status' = "scanning" /\ status \notin Working
    BY <1>1 DEF Decode, Working
  <2> QED
    BY <1>1, <2>1 DEF Owned, Decode
<1>2. CASE BeginRecord
  BY <1>2, ReadyKeepsOwned
<1>3. CASE EndScan
  <2>1. /\ status' \notin Working /\ status' \notin {"idle", "parsing", "failing", "died"}
        /\ status' \in {"OK"} \cup Failures /\ status \notin Working
    BY <1>3 DEF EndScan, Working, Failures
  <2> QED
    BY <1>3, <2>1 DEF Owned, EndScan
<1>4. CASE PassCheck \/ GoOn
  BY <1>4, PassCheckKeepsOwned DEF PassCheck, GoOn
<1>5. CASE FailCheck \/ FailAllocation
  <2>1. status = "parsing" /\ todo # <<>> /\ Head(todo).do \in {"check", "claim"} /\ Fail
    BY <1>5 DEF FailCheck, FailAllocation, Does
  <2> QED
    BY <2>1, FailKeepsOwned
<1>6. CASE Allocate
  BY <1>6, AllocateKeepsOwned
<1>7. CASE SetField
  BY <1>7, SetFieldKeepsOwned
<1>8. CASE SetArrayCount
  BY <1>8, SetArrayCountKeepsOwned
<1>9. CASE FreeLocals
  BY <1>9, FreeLocalsKeepsOwned
<1>10. CASE AppendRecord
  BY <1>10, AppendKeepsOwned
<1>11. CASE FailAppend
  BY <1>11, FailAppendKeepsOwned
<1>12. CASE FreeRecord
  BY <1>12, FreeRecordKeepsOwned
<1>13. CASE Die
  <2>1. /\ status' = "died" /\ status = "failing"
        /\ status' \in Working /\ status \in Working
    BY <1>13 DEF Die, Working
  <2> QED
    BY <1>13, <2>1 DEF Owned, Die
<1> QED
  BY <1>1, <1>2, <1>3, <1>4, <1>5, <1>6, <1>7, <1>8, <1>9, <1>10, <1>11, <1>12, <1>13
     DEF DecodeStep

LEMMA InitOwned ==
  ASSUME OwnershipInit
  PROVE  Owned
<1>1. status \notin Working /\ status = "idle"
  BY DEF OwnershipInit, Working
<1>2. held = OfDocument(records)
               \cup Tagged(Len(records) + 1, record.fields \cup locals)
  BY NoRecordIs, OfNoDocument DEF OwnershipInit, Tagged
<1> QED
  BY <1>1, <1>2, NoRecordIs, OfNoDocument DEF OwnershipInit, Owned

LEMMA StillOwned ==
  ASSUME Owned, UNCHANGED ownershipVars
  PROVE  Owned'
BY DEF Owned, ownershipVars

\* What the invariant is for.
LEMMA OwnedSuffices ==
  ASSUME Owned
  PROVE  EveryBlockOwned /\ CountsHaveArrays
<1>1. held = (UNION {{<<i, b>> : b \in records[i].fields} : i \in 1 .. Len(records)})
               \cup Mine(record.fields \cup locals)
  BY MineIs DEF Owned, OfDocument
<1>2. ASSUME todo # <<>> PROVE Head(todo).frees \subseteq locals
  <2>1. status = "parsing"
    BY <1>2 DEF Owned, Working, Failures
  <2> DEFINE s == NowOf(record, locals)
             op == Head(todo)
  <2>2. Meets(op, s) /\ s.locals = locals
    BY <1>2, <2>1, WorkingOwned
  <2> HIDE DEF s, op
  <2>3. op.do \in {"check", "claim", "give", "drop", "count", "return"}
    BY <2>2 DEF Meets
  <2>4. op.frees \subseteq locals
    <3>1. CASE op.do \in {"check", "claim", "return"}
      BY <2>2, <3>1 DEF Meets
    <3>2. CASE op.do \in {"give", "drop", "count"}
      BY <2>2, <3>2 DEF Meets
    <3> QED
      BY <2>3, <3>1, <3>2
  <2> QED
    BY <2>4 DEF op
<1>3. record.fields \cap locals = {}
  BY DEF Owned
<1>4. CountsHaveArrays
  BY DEF Owned, CountsHaveArrays, IsKept, Kept
<1> QED
  BY <1>1, <1>2, <1>3, <1>4 DEF EveryBlockOwned

(***************************************************************************)
(* The ownership of the blocks through every step of sdaf_decode and its   *)
(* caller: what is held is what the document, the record at hand and the   *)
(* local variables of the parse function point to, and the operations that *)
(* are still to come find what they rely on.                               *)
(***************************************************************************)
THEOREM OwnershipIsKept == OwnershipSpec => []Owned
<1>1. OwnershipInit => Owned
  BY InitOwned
<1>2. Owned /\ [OwnershipNext]_ownershipVars => Owned'
  BY DecodeStepKeepsOwned, FreeDocumentKeepsOwned, StillOwned DEF OwnershipNext
<1> QED
  BY <1>1, <1>2, PTL DEF OwnershipSpec

(***************************************************************************)
(* Nothing leaks and nothing is released twice (sdaf_reader.c): every      *)
(* block that is held belongs to one record of the document or to one      *)
(* local variable of the function at work, whatever is declared in the     *)
(* file and whichever check or allocation fails.                           *)
(***************************************************************************)
THEOREM EveryBlockIsOwned == OwnershipSpec => []EveryBlockOwned
<1>1. Owned => EveryBlockOwned
  BY OwnedSuffices
<1> QED
  BY <1>1, OwnershipIsKept, PTL

(***************************************************************************)
(* A record of the document has an array for every count that free_record  *)
(* or an exporter walks.                                                   *)
(***************************************************************************)
THEOREM CountsAlwaysHaveArrays == OwnershipSpec => []CountsHaveArrays
<1>1. Owned => CountsHaveArrays
  BY OwnedSuffices
<1> QED
  BY <1>1, OwnershipIsKept, PTL

-----------------------------------------------------------------------------
(* The command. *)

\* What main knows at each stage: the document is decoded before it is
\* exported, and released before the exit.
Accounted ==
  /\ Owned
  /\ stage = "arguments" => status = "idle" /\ format = "none"
  /\ stage \in {"writing", "closing", "freeing"} => status = "OK"
  /\ stage = "freeing" /\ named /\ result = 0 => arrived
  /\ stage = "exited" =>
       /\ held = {}
       /\ exit = 0 /\ format # "none" /\ named => arrived
  /\ stage \in {"arguments", "decoding", "writing", "closing", "freeing", "exited"}

LEMMA IdleHoldsNothing ==
  ASSUME Owned, status = "idle"
  PROVE  held = {}
<1>1. status \notin Working
  BY DEF Working
<1>2. records = <<>> /\ record = NoRecord /\ locals = {}
  BY <1>1 DEF Owned
<1>3. held = OfDocument(<<>>) \cup Tagged(Len(records) + 1, {} \cup {})
  BY <1>2, NoRecordIs DEF Owned
<1> QED
  BY <1>3, OfNoDocument DEF Tagged

LEMMA CommandStepAccounts ==
  ASSUME Accounted, [CommandNext]_<<ownershipVars, commandVars>>
  PROVE  Accounted'
<1>1. Owned
  BY DEF Accounted
<1>2. CASE RefuseArguments
  <2>1. UNCHANGED ownershipVars /\ stage = "arguments" /\ stage' = "exited"
          /\ format' = format
    BY <1>2 DEF RefuseArguments, Exits
  <2>2. Owned' /\ held' = {} /\ format' = "none"
    BY <1>1, <2>1, StillOwned, IdleHoldsNothing DEF Accounted, ownershipVars
  <2> QED
    BY <2>1, <2>2 DEF Accounted
<1>3. CASE ParseArguments
  <2>1. UNCHANGED ownershipVars /\ stage' = "decoding"
    BY <1>3 DEF ParseArguments
  <2> QED
    BY <1>1, <2>1, StillOwned DEF Accounted
<1>4. CASE CannotRead
  <2>1. UNCHANGED ownershipVars /\ status = "idle" /\ stage' = "exited" /\ exit' = 1
    BY <1>4 DEF CannotRead, Exits
  <2>2. Owned' /\ held' = {}
    BY <1>1, <2>1, StillOwned, IdleHoldsNothing DEF ownershipVars
  <2> QED
    BY <2>1, <2>2 DEF Accounted
<1>5. CASE Decoding
  <2>1. stage' = "decoding" /\ DecodeStep
    BY <1>5 DEF Decoding, commandVars
  <2>2. Owned'
    BY <1>1, <2>1, DecodeStepKeepsOwned
  <2> QED
    BY <2>1, <2>2 DEF Accounted
<1>6. CASE DecodeFailed \/ CannotOpenOutput
  <2>1. FreeDocument /\ stage' = "exited" /\ exit' = 1
    BY <1>6 DEF DecodeFailed, CannotOpenOutput, Exits
  <2>2. Owned' /\ held' = {}
    BY <1>1, <2>1, FreeDocumentKeepsOwned
  <2> QED
    BY <2>1, <2>2 DEF Accounted
<1>7. CASE OpenOutput
  <2>1. UNCHANGED ownershipVars /\ status = "OK" /\ stage' = "writing"
    BY <1>7 DEF OpenOutput
  <2>2. Owned' /\ status' = "OK"
    BY <1>1, <2>1, StillOwned DEF ownershipVars
  <2> QED
    BY <2>1, <2>2 DEF Accounted
<1>8. CASE WriteOutput
  <2>1. /\ UNCHANGED ownershipVars /\ stage = "writing" /\ named' = named
        /\ stage' = IF named THEN "closing" ELSE "freeing"
    BY <1>8 DEF WriteOutput
  <2>2. Owned' /\ status' = "OK"
    BY <1>1, <2>1, StillOwned DEF ownershipVars, Accounted
  <2> QED
    BY <2>1, <2>2 DEF Accounted
<1>9. CASE CloseOutput
  <2>1. /\ UNCHANGED ownershipVars /\ stage = "closing" /\ stage' = "freeing"
    BY <1>9 DEF CloseOutput
  <2>2. Owned' /\ status' = "OK"
    BY <1>1, <2>1, StillOwned DEF ownershipVars, Accounted
  <2>3. PICK closed \in BOOLEAN :
          /\ arrived' = (closed /\ result = 0)
          /\ result' = IF closed THEN result ELSE -1
    BY <1>9 DEF CloseOutput
  <2>4. result' = 0 => arrived'
    BY <2>3
  <2> QED
    BY <2>1, <2>2, <2>4 DEF Accounted
<1>10. CASE Finish
  <2>1. /\ FreeDocument /\ stage = "freeing" /\ stage' = "exited"
        /\ exit' = (IF result # 0 THEN 1 ELSE 0)
        /\ named' = named /\ (named => arrived' = arrived)
    BY <1>10 DEF Finish, Exits
  <2>2. Owned' /\ held' = {}
    BY <1>1, <2>1, FreeDocumentKeepsOwned
  <2>3. exit' = 0 /\ named' => arrived'
    BY <2>1 DEF Accounted
  <2> QED
    BY <2>1, <2>2, <2>3 DEF Accounted
<1>11. CASE UNCHANGED <<ownershipVars, commandVars>>
  <2>1. Owned'
    BY <1>1, <1>11, StillOwned
  <2> QED
    BY <1>11, <2>1 DEF Accounted, ownershipVars, commandVars
<1> QED
  BY <1>2, <1>3, <1>4, <1>5, <1>6, <1>7, <1>8, <1>9, <1>10, <1>11 DEF CommandNext

(***************************************************************************)
(* What main has done so far agrees with what is held and with what it is  *)
(* going to tell.                                                          *)
(***************************************************************************)
THEOREM CommandAccounts == CommandSpec => []Accounted
<1>1. CommandInit => Accounted
  BY InitOwned DEF CommandInit, OwnershipInit, Accounted
<1> QED
  BY <1>1, CommandStepAccounts, PTL DEF CommandSpec

(***************************************************************************)
(* The exit code 0 of the tool means that the named file has all of the    *)
(* dump, and on every way out all of the document was released             *)
(* (cli/main.c).                                                           *)
(***************************************************************************)
THEOREM ExitIsTrue == CommandSpec => []ExitTellsTruth
<1>1. Accounted => ExitTellsTruth
  BY DEF Accounted, ExitTellsTruth
<1> QED
  BY <1>1, CommandAccounts, PTL

(***************************************************************************)
(* The tool calls the library as it is meant to be called: what is proved  *)
(* of sdaf_decode and its caller holds of the command.                     *)
(***************************************************************************)
THEOREM CommandOwnsItsBlocks ==
  CommandSpec => [](EveryBlockOwned /\ CountsHaveArrays)
<1>1. Accounted => EveryBlockOwned /\ CountsHaveArrays
  BY OwnedSuffices DEF Accounted
<1> QED
  BY <1>1, CommandAccounts, PTL

-----------------------------------------------------------------------------
(* The dumps.  What a reader of a dump has kept after its tokens is where  *)
(* they lead.                                                              *)

LEMMA TakenIs ==
  ASSUME NEW form, form # "parse", NEW tokens, NEW s, NEW t,
         Leads(form, tokens, s, t)
  PROVE  Taken(form, s, tokens) = t
<1> DEFINE n == Len(tokens)
           Next1(h, k) == IF k = 0 THEN s ELSE Take(form, h[k - 1], tokens[k])
           state == CHOOSE h : h = [k \in 0 .. n |-> Next1(h, k)]
<1>1. n \in Nat
  BY DEF Leads, IsSeq
<1>2. PICK at : at[0] = s /\ at[n] = t /\ Path(form, tokens, at)
  BY DEF Leads
<1>3. \A k \in 1 .. n : at[k] = Take(form, at[k - 1], tokens[k])
  BY <1>2 DEF Path, Step
<1>4. state = [k \in 0 .. n |-> Next1(state, k)]
  <2> DEFINE h == [k \in 0 .. n |-> at[k]]
  <2>1. ASSUME NEW k \in 0 .. n PROVE h[k] = Next1(h, k)
    <3>1. CASE k = 0
      BY <1>2, <3>1
    <3>2. CASE k # 0
      <4>1. k \in 1 .. n /\ k - 1 \in 0 .. n
        BY <1>1, <3>2
      <4>2. h[k] = at[k] /\ h[k - 1] = at[k - 1]
        BY <4>1
      <4> QED
        BY <1>3, <3>2, <4>1, <4>2
    <3> QED
      BY <3>1, <3>2
  <2>2. h = [k \in 0 .. n |-> Next1(h, k)]
    BY <2>1
  <2> QED
    BY <2>2
<1>5. Taken(form, s, tokens) = state[n]
  BY DEF Taken
<1> HIDE DEF state
<1> DEFINE S == {k \in Nat : k <= n => state[k] = at[k]}
<1>6. 0 \in S
  BY <1>1, <1>2, <1>4
<1>7. ASSUME NEW k \in Nat, k \in S PROVE k + 1 \in S
  <2>1. SUFFICES ASSUME k + 1 <= n PROVE state[k + 1] = at[k + 1]
    OBVIOUS
  <2>2. k <= n /\ k + 1 \in 1 .. n /\ k + 1 \in 0 .. n /\ k + 1 # 0 /\ (k + 1) - 1 = k
    BY <1>1, <2>1
  <2>3. state[k] = at[k]
    BY <1>7, <2>2
  <2>4. state[k + 1] = Take(form, state[k], tokens[k + 1])
    BY <1>4, <2>2
  <2> QED
    BY <1>3, <2>2, <2>3, <2>4
<1>8. n \in S
  <2> HIDE DEF S
  <2> QED
    BY <1>1, <1>6, <1>7, SetInduction
<1> QED
  BY <1>2, <1>5, <1>8

(***************************************************************************)
(* CBOR.  The tokens settle n of the items that are owed and announce p    *)
(* more.                                                                   *)
(***************************************************************************)
Settles(tokens, n, p) ==
  \A k \in Nat : k >= n => Leads("cbor", tokens, k, (k - n) + p)

LEMMA SettlesNone == Settles(<<>>, 0, 0)
<1>1. ASSUME NEW k \in Nat PROVE (k - 0) + 0 = k
  OBVIOUS
<1> QED
  BY <1>1, LeadsNone DEF Settles

LEMMA StepItem ==
  ASSUME NEW k \in Nat, k >= 1
  PROVE  Step("cbor", Item, k, k - 1)
BY DEF Step, Take, TakeItem, Item

LEMMA StepHead ==
  ASSUME NEW n \in Nat, NEW k \in Nat, k >= 1
  PROVE  /\ Step("cbor", Map(n), k, (k - 1) + 2 * n)
         /\ Step("cbor", Array(n), k, (k - 1) + n)
BY DEF Step, Take, TakeItem, Map, Array

LEMMA SettlesMap ==
  ASSUME NEW n \in Nat
  PROVE  Settles(<<Map(n)>>, 1, 2 * n)
BY StepHead, LeadsOne DEF Settles

LEMMA SettlesArray ==
  ASSUME NEW n \in Nat
  PROVE  Settles(<<Item, Array(n)>>, 2, n)
<1>1. SUFFICES ASSUME NEW k \in Nat, k >= 2
               PROVE  Leads("cbor", <<Item, Array(n)>>, k, (k - 2) + n)
  BY DEF Settles
<1>2. Step("cbor", Item, k, k - 1)
  BY <1>1, StepItem
<1>3. Step("cbor", Array(n), k - 1, (k - 2) + n)
  <2>1. k - 1 \in Nat /\ k - 1 >= 1 /\ (k - 1) - 1 = k - 2
    BY <1>1
  <2> QED
    BY <2>1, StepHead
<1> QED
  BY <1>2, <1>3, LeadsTwo

LEMMA SettlesConcat ==
  ASSUME NEW a, NEW b, NEW n \in Nat, NEW p \in Nat, NEW m \in Nat, NEW q \in Nat,
         Settles(a, n, p), Settles(b, m, q)
  PROVE  /\ m <= p => Settles(a \o b, n, (p - m) + q)
         /\ p <= m => Settles(a \o b, n + (m - p), q)
<1>1. ASSUME m <= p, NEW k \in Nat, k >= n
      PROVE  Leads("cbor", a \o b, k, (k - n) + ((p - m) + q))
  <2> DEFINE j == (k - n) + p
  <2>1. j \in Nat /\ j >= m /\ (j - m) + q = (k - n) + ((p - m) + q)
    BY <1>1
  <2>2. Leads("cbor", a, k, j)
    BY <1>1 DEF Settles
  <2> HIDE DEF j
  <2>3. Leads("cbor", b, j, (j - m) + q)
    BY <2>1 DEF Settles
  <2> QED
    BY <2>1, <2>2, <2>3, LeadsConcat
<1>2. ASSUME p <= m, NEW k \in Nat, k >= n + (m - p)
      PROVE  Leads("cbor", a \o b, k, (k - (n + (m - p))) + q)
  <2> DEFINE j == (k - n) + p
  <2>1. k >= n /\ j \in Nat /\ j >= m /\ (j - m) + q = (k - (n + (m - p))) + q
    BY <1>2
  <2>2. Leads("cbor", a, k, j)
    BY <2>1 DEF Settles
  <2> HIDE DEF j
  <2>3. Leads("cbor", b, j, (j - m) + q)
    BY <2>1 DEF Settles
  <2> QED
    BY <2>1, <2>2, <2>3, LeadsConcat
<1> QED
  BY <1>1, <1>2 DEF Settles

\* A loop of which every turn writes one item.
LEMMA SettlesLoop ==
  ASSUME NEW n \in Nat, NEW F, F = [i \in 1 .. n |-> F[i]],
         \A i \in 1 .. n : Settles(F[i], 1, 0)
  PROVE  Settles(Concat(F), n, 0)
<1>1. SUFFICES ASSUME NEW k \in Nat, k >= n
               PROVE  Leads("cbor", FlattenSeq(F), k, (k - n) + 0)
  BY DEF Settles, Concat
<1> DEFINE g == [i \in 0 .. n |-> k - i]
<1>2. ASSUME NEW i \in 1 .. n PROVE Leads("cbor", F[i], g[i - 1], g[i])
  <2>1. i - 1 \in 0 .. n /\ i \in 0 .. n
    OBVIOUS
  <2>2. g[i - 1] = k - (i - 1) /\ g[i] = k - i
    BY <2>1
  <2> DEFINE j == k - (i - 1)
  <2>3. j \in Nat /\ j >= 1 /\ (j - 1) + 0 = k - i
    BY <1>1
  <2> HIDE DEF j
  <2>4. Leads("cbor", F[i], j, (j - 1) + 0)
    BY <2>3 DEF Settles
  <2> QED
    BY <2>2, <2>3, <2>4 DEF j
<1>3. g[0] = k /\ g[n] = (k - n) + 0
  OBVIOUS
<1> HIDE DEF g
<1>4. Leads("cbor", FlattenSeq(F), g[0], g[n])
  BY <1>2, LeadsLoop
<1> QED
  BY <1>3, <1>4

LEMMA RepeatIs ==
  ASSUME NEW token, NEW n \in Nat
  PROVE  /\ IsSeq(Repeat(token, n)) /\ Len(Repeat(token, n)) = n
         /\ \A i \in 1 .. n : Repeat(token, n)[i] = token
         /\ Repeat(token, n) = [i \in 1 .. n |-> Repeat(token, n)[i]]
<1> DEFINE F == [i \in 1 .. n |-> token]
<1>1. F = [i \in 1 .. n |-> F[i]] /\ \A i \in 1 .. n : F[i] = token
  OBVIOUS
<1>2. F = Repeat(token, n)
  BY DEF Repeat
<1> HIDE DEF F
<1>3. IsSeq(F) /\ Len(F) = n
  BY <1>1, IsSeqFunction
<1> QED
  BY <1>1, <1>2, <1>3

LEMMA SettlesPairs ==
  ASSUME NEW n \in Nat
  PROVE  Settles(Pairs(n), 2 * n, 0)
<1> DEFINE m == 2 * n
           F == Repeat(Item, m)
<1>1. m \in Nat
  OBVIOUS
<1> HIDE DEF m
<1>2. IsSeq(F) /\ Len(F) = m /\ \A i \in 1 .. m : F[i] = Item
  BY <1>1, RepeatIs
<1> HIDE DEF F
<1>3. ASSUME NEW k \in Nat, k >= m PROVE Leads("cbor", F, k, (k - m) + 0)
  <2> DEFINE states == [i \in 1 .. m + 1 |-> (k + 1) - i]
  <2>1. ASSUME NEW i \in 1 .. m
        PROVE  Step("cbor", F[i], states[i], states[i + 1])
    <3>1. i \in 1 .. m + 1 /\ i + 1 \in 1 .. m + 1
      BY <1>1
    <3>2. states[i] = (k + 1) - i /\ states[i + 1] = (k + 1) - (i + 1)
      BY <3>1
    <3> DEFINE j == (k + 1) - i
    <3>3. j \in Nat /\ j >= 1 /\ j - 1 = (k + 1) - (i + 1)
      BY <1>1, <1>3
    <3> HIDE DEF j
    <3>4. Step("cbor", Item, j, j - 1)
      BY <3>3, StepItem
    <3> QED
      BY <1>2, <3>2, <3>3, <3>4 DEF j
  <2>2. states[1] = k /\ states[m + 1] = (k - m) + 0
    BY <1>1, <1>3
  <2> HIDE DEF states
  <2>3. Leads("cbor", F, states[1], states[m + 1])
    BY <1>1, <1>2, <2>1, LeadsStates
  <2> QED
    BY <2>2, <2>3
<1>4. Settles(F, m, 0)
  BY <1>3 DEF Settles
<1> QED
  BY <1>4 DEF F, m, Pairs

\* The parts of a map of m entries are settled one after the other.
LEMMA SettlesMore ==
  ASSUME NEW a, NEW b, NEW p \in Nat, NEW m \in Nat, m <= p,
         Settles(a, 1, p), Settles(b, m, 0)
  PROVE  Settles(a \o b, 1, p - m)
<1>1. Settles(a \o b, 1, (p - m) + 0)
  BY SettlesConcat
<1>2. (p - m) + 0 = p - m
  OBVIOUS
<1> QED
  BY <1>1, <1>2

LEMMA SettlesCborValue ==
  ASSUME NEW r, NEW i, NEW v
  PROVE  Settles(CborValue(r, i, v), 1, 0)
<1>1. CASE IsBytes(r, i, v)
  <2>1. Settles(<<Map(3)>>, 1, 6)
    <3>1. Settles(<<Map(3)>>, 1, 2 * 3)
      BY SettlesMap
    <3> QED
      BY <3>1
  <2>2. Settles(Pairs(3), 6, 0)
    <3>1. Settles(Pairs(3), 2 * 3, 0)
      BY SettlesPairs
    <3> QED
      BY <3>1
  <2>3. Settles(<<Map(3)>> \o Pairs(3), 1, 6 - 6)
    BY <2>1, <2>2, SettlesMore
  <2> QED
    BY <1>1, <2>3 DEF CborValue
<1>2. CASE ~IsBytes(r, i, v)
  <2>1. Settles(<<Map(4)>>, 1, 8)
    <3>1. Settles(<<Map(4)>>, 1, 2 * 4)
      BY SettlesMap
    <3> QED
      BY <3>1
  <2>2. Settles(Pairs(3), 6, 0) /\ Settles(Pairs(1), 2, 0)
    <3>1. Settles(Pairs(3), 2 * 3, 0) /\ Settles(Pairs(1), 2 * 1, 0)
      BY SettlesPairs
    <3> QED
      BY <3>1
  <2>3. Settles(<<Map(4)>> \o Pairs(3), 1, 8 - 6)
    BY <2>1, <2>2, SettlesMore
  <2> DEFINE a == <<Map(4)>> \o Pairs(3)
  <2>4. CborValue(r, i, v) = a \o Pairs(1)
    BY <1>2 DEF CborValue
  <2>5. Settles(a, 1, 2)
    BY <2>3
  <2> HIDE DEF a
  <2>6. Settles(a \o Pairs(1), 1, 2 - 2)
    BY <2>2, <2>5, SettlesMore
  <2> QED
    BY <2>4, <2>6
<1> QED
  BY <1>1, <1>2

LEMMA SettlesCborSample ==
  ASSUME NEW r, IsRecord(r), NEW i
  PROVE  Settles(CborSample(r, i), 1, 0)
<1> DEFINE n == Values(r, i)
           F == [v \in 1 .. n |-> CborValue(r, i, v)]
           e == IF r.timed THEN 3 ELSE 2
           a == <<Map(e)>>
           b == IF r.timed THEN Pairs(1) ELSE <<>>
           c == <<Item, Array(n)>>
<1>1. n \in Nat
  BY DEF Values, CountOf, IsRecord
<1>2. F = [v \in 1 .. n |-> F[v]] /\ \A v \in 1 .. n : F[v] = CborValue(r, i, v)
  OBVIOUS
<1>3. e \in Nat /\ e = IF r.timed THEN 3 ELSE 2
  OBVIOUS
<1>4. Settles(a, 1, 2 * e)
  BY <1>3, SettlesMap
<1>5. Settles(Pairs(1), 2, 0)
  <2>1. Settles(Pairs(1), 2 * 1, 0)
    BY SettlesPairs
  <2> QED
    BY <2>1
<1>6. Settles(b, IF r.timed THEN 2 ELSE 0, 0)
  BY <1>5, SettlesNone
<1>7. Settles(c, 2, n)
  BY <1>1, SettlesArray
<1>8. CborSample(r, i) = (((a \o Pairs(1)) \o b) \o c) \o Concat(F)
  BY DEF CborSample
<1> HIDE DEF n, F, e, a, b, c
<1>9. Settles(Concat(F), n, 0)
  BY <1>1, <1>2, SettlesCborValue, SettlesLoop
<1>10. Settles(a \o Pairs(1), 1, 2 * e - 2)
  <2>1. 2 * e \in Nat /\ 2 <= 2 * e
    BY <1>3
  <2> QED
    BY <1>4, <1>5, <2>1, SettlesMore
<1>11. Settles((a \o Pairs(1)) \o b, 1, 2)
  <2>1. CASE r.timed
    <3>1. 2 * e - 2 = 4 /\ (2 * e - 2) - 2 = 2
      BY <1>3, <2>1
    <3> QED
      BY <1>6, <1>10, <2>1, <3>1, SettlesMore
  <2>2. CASE ~r.timed
    <3>1. 2 * e - 2 = 2 /\ 2 - 0 = 2
      BY <1>3, <2>2
    <3> QED
      BY <1>6, <1>10, <2>2, <3>1, SettlesMore
  <2> QED
    BY <2>1, <2>2
<1>12. Settles(((a \o Pairs(1)) \o b) \o c, 1, (2 - 2) + n)
  BY <1>1, <1>7, <1>11, SettlesConcat
<1>13. Settles(CborSample(r, i), 1, n - n)
  BY <1>1, <1>8, <1>9, <1>12, SettlesMore
<1> QED
  BY <1>1, <1>13

LEMMA SettlesCborSamples ==
  ASSUME NEW r, IsRecord(r)
  PROVE  Settles(CborSamples(r), 2, 0)
<1> DEFINE n == Walkable(r)
           F == [i \in 1 .. n |-> CborSample(r, i)]
<1>1. n \in Nat
  BY DEF Walkable, CountOf, IsRecord
<1>2. F = [i \in 1 .. n |-> F[i]] /\ \A i \in 1 .. n : F[i] = CborSample(r, i)
  OBVIOUS
<1>3. CborSamples(r) = <<Item, Array(n)>> \o Concat(F)
  BY DEF CborSamples
<1> HIDE DEF n, F
<1>4. Settles(Concat(F), n, 0)
  BY <1>1, <1>2, SettlesCborSample, SettlesLoop
<1>5. Settles(<<Item, Array(n)>> \o Concat(F), 2, (n - n) + 0)
  BY <1>1, <1>4, SettlesArray, SettlesConcat
<1> QED
  BY <1>1, <1>3, <1>5

LEMMA SettlesCborObjects ==
  ASSUME NEW r, IsRecord(r)
  PROVE  Settles(CborObjects(r), 2, 0)
<1> DEFINE n == CountOf(r, Objects)
           F == [i \in 1 .. n |-> <<Map(3)>> \o Pairs(3)]
<1>1. n \in Nat
  BY DEF CountOf, IsRecord
<1>2. F = [i \in 1 .. n |-> F[i]] /\ \A i \in 1 .. n : F[i] = <<Map(3)>> \o Pairs(3)
  OBVIOUS
<1>3. CborObjects(r) = <<Item, Array(n)>> \o Concat(F)
  BY DEF CborObjects
<1>4. Settles(<<Map(3)>> \o Pairs(3), 1, 0)
  <2>1. Settles(<<Map(3)>>, 1, 2 * 3) /\ Settles(Pairs(3), 2 * 3, 0)
    BY SettlesMap, SettlesPairs
  <2>2. Settles(<<Map(3)>>, 1, 6) /\ Settles(Pairs(3), 6, 0)
    BY <2>1
  <2>3. Settles(<<Map(3)>> \o Pairs(3), 1, 6 - 6)
    BY <2>2, SettlesMore
  <2> QED
    BY <2>3
<1> HIDE DEF n, F
<1>5. \A i \in 1 .. n : Settles(F[i], 1, 0)
  BY <1>2, <1>4
<1>6. Settles(Concat(F), n, 0)
  BY <1>1, <1>2, <1>5, SettlesLoop
<1>7. Settles(<<Item, Array(n)>> \o Concat(F), 2, (n - n) + 0)
  BY <1>1, <1>6, SettlesArray, SettlesConcat
<1> QED
  BY <1>1, <1>3, <1>7

LEMMA SettlesCborRecord ==
  ASSUME NEW r, IsRecord(r), r.type \in RecordTypes
  PROVE  Settles(CborRecord(r), 1, 0)
<1> DEFINE e == Extras(r.type)
           a == <<Map(3 + e)>>
           c == CborContent(r)
<1>1. e \in 1 .. 5
  BY DEF Extras, RecordTypes
<1>2. Settles(c, 2 * e, 0)
  <2>1. CASE r.type = "SCMA"
    <3>1. Settles(Pairs(2), 4, 0)
      <4>1. Settles(Pairs(2), 2 * 2, 0)
        BY SettlesPairs
      <4> QED
        BY <4>1
    <3>2. Settles(Pairs(2) \o CborObjects(r), 4 + (2 - 0), 0)
      BY <3>1, SettlesCborObjects, SettlesConcat
    <3>3. e = 3 /\ c = Pairs(2) \o CborObjects(r)
      BY <2>1 DEF Extras, CborContent
    <3> QED
      BY <3>2, <3>3
  <2>2. CASE r.type = "DATA"
    <3>1. Settles(Pairs(3), 6, 0)
      <4>1. Settles(Pairs(3), 2 * 3, 0)
        BY SettlesPairs
      <4> QED
        BY <4>1
    <3>2. Settles(Pairs(3) \o CborSamples(r), 6 + (2 - 0), 0)
      BY <3>1, SettlesCborSamples, SettlesConcat
    <3>3. e = 4 /\ c = Pairs(3) \o CborSamples(r)
      BY <2>2 DEF Extras, CborContent
    <3> QED
      BY <3>2, <3>3
  <2>3. CASE r.type \notin {"SCMA", "DATA"}
    <3>1. c = Pairs(e)
      BY <2>3 DEF CborContent
    <3> HIDE DEF e, c
    <3> QED
      BY <1>1, <3>1, SettlesPairs
  <2> QED
    BY <2>1, <2>2, <2>3
<1>3. Settles(a, 1, 2 * (3 + e))
  <2> HIDE DEF e
  <2> QED
    BY <1>1, SettlesMap
<1>4. Settles(Pairs(3), 6, 0)
  <2>1. Settles(Pairs(3), 2 * 3, 0)
    BY SettlesPairs
  <2> QED
    BY <2>1
<1>5. CborRecord(r) = (a \o Pairs(3)) \o c
  BY DEF CborRecord
<1> HIDE DEF e, a, c
<1>6. Settles(a \o Pairs(3), 1, 2 * e)
  <2>1. 2 * (3 + e) \in Nat /\ 6 <= 2 * (3 + e) /\ 2 * (3 + e) - 6 = 2 * e
    BY <1>1
  <2>2. Settles(a \o Pairs(3), 1, 2 * (3 + e) - 6)
    BY <1>3, <1>4, <2>1, SettlesMore
  <2> QED
    BY <2>1, <2>2
<1>7. 2 * e \in Nat /\ 2 * e - 2 * e = 0
  BY <1>1
<1>8. Settles((a \o Pairs(3)) \o c, 1, 2 * e - 2 * e)
  BY <1>2, <1>6, <1>7, SettlesMore
<1> QED
  BY <1>5, <1>7, <1>8

\* What the exporters need of a document.
Exported(document) ==
  /\ IsSeq(document)
  /\ \A i \in 1 .. Len(document) :
       IsRecord(document[i]) /\ document[i].type \in RecordTypes

LEMMA WriteCborIsOneItem ==
  ASSUME NEW document, Exported(document)
  PROVE  IsOneItem(WriteCbor(document))
<1> DEFINE n == Len(document)
           F == [i \in 1 .. n |-> CborRecord(document[i])]
           a == <<Map(2), Item, Map(2)>>
           c == <<Item, Array(n)>>
<1>1. n \in Nat
  BY DEF Exported, IsSeq
<1>2. F = [i \in 1 .. n |-> F[i]] /\ \A i \in 1 .. n : F[i] = CborRecord(document[i])
  OBVIOUS
<1>3. Leads("cbor", a, 1, 6)
  <2>1. Step("cbor", Map(2), 1, (1 - 1) + 2 * 2) /\ Step("cbor", Map(2), 3, (3 - 1) + 2 * 2)
    BY StepHead
  <2>2. Step("cbor", Item, 4, 4 - 1)
    BY StepItem
  <2>3. Step("cbor", Map(2), 1, 4) /\ Step("cbor", Item, 4, 3) /\ Step("cbor", Map(2), 3, 6)
    BY <2>1, <2>2
  <2> QED
    BY <2>3, LeadsThree
<1>4. Leads("cbor", Pairs(2), 6, 2)
  <2>1. Settles(Pairs(2), 2 * 2, 0)
    BY SettlesPairs
  <2>2. 6 >= 2 * 2 /\ (6 - 2 * 2) + 0 = 2
    OBVIOUS
  <2>3. Leads("cbor", Pairs(2), 6, (6 - 2 * 2) + 0)
    BY <2>1, <2>2 DEF Settles
  <2> QED
    BY <2>2, <2>3
<1>5. WriteCbor(document) = ((a \o Pairs(2)) \o c) \o Concat(F)
  BY DEF WriteCbor
<1>6. Settles(c, 2, n)
  BY <1>1, SettlesArray
<1> HIDE DEF n, F, a, c
<1>7. Leads("cbor", c, 2, n)
  <2>1. Leads("cbor", c, 2, (2 - 2) + n)
    BY <1>6 DEF Settles
  <2>2. (2 - 2) + n = n
    BY <1>1
  <2> QED
    BY <2>1, <2>2
<1>8. Leads("cbor", Concat(F), n, 0)
  <2>1. \A i \in 1 .. n : Settles(F[i], 1, 0)
    BY <1>2, SettlesCborRecord DEF Exported, n
  <2>2. Settles(Concat(F), n, 0)
    BY <1>1, <1>2, <2>1, SettlesLoop
  <2>3. (n - n) + 0 = 0 /\ n >= n
    BY <1>1
  <2>4. Leads("cbor", Concat(F), n, (n - n) + 0)
    BY <1>1, <2>2, <2>3 DEF Settles
  <2> QED
    BY <2>3, <2>4
<1>9. Leads("cbor", ((a \o Pairs(2)) \o c) \o Concat(F), 1, 0)
  BY <1>3, <1>4, <1>7, <1>8, LeadsConcat
<1> QED
  BY <1>5, <1>9, TakenIs DEF IsOneItem

(***************************************************************************)
(* CSV.                                                                    *)
(***************************************************************************)
Column(n, last) == [column |-> n, last |-> last]

LEMMA StepCell ==
  ASSUME NEW n \in Nat
  PROVE  /\ Step("csv", "cell", Column(n, "comma"), Column(n, "cell"))
         /\ Step("csv", "cell", Column(n, "newline"), Column(n, "cell"))
         /\ Step("csv", "comma", Column(n, "comma"), Column(n + 1, "comma"))
         /\ Step("csv", "comma", Column(n, "cell"), Column(n + 1, "comma"))
         /\ Step("csv", "newline", Column(10, "comma"), LineStart)
         /\ Step("csv", "newline", Column(10, "cell"), LineStart)
BY DEF Step, Take, TakeCell, Column, LineStart

LEMMA WriteCsvHeading == Leads("csv", CsvHeading, LineStart, LineStart)
<1> DEFINE cells == Repeat(<<"cell">>, 10)
           F == [i \in 1 .. 10 |-> IF i = 1 THEN <<"cell">> ELSE <<"comma">> \o <<"cell">>]
           g == [i \in 0 .. 10 |-> IF i = 0 THEN LineStart ELSE Column(i, "cell")]
<1>1. Separated(cells) = FlattenSeq(F)
  <2>1. Len(cells) = 10 /\ \A i \in 1 .. 10 : cells[i] = <<"cell">>
    BY RepeatIs
  <2> HIDE DEF cells
  <2>2. F = [i \in 1 .. Len(cells) |-> IF i = 1 THEN cells[1] ELSE <<"comma">> \o cells[i]]
    BY <2>1
  <2> QED
    BY <2>2 DEF Separated, Concat
<1>2. F = [i \in 1 .. 10 |-> F[i]] /\ F[1] = <<"cell">>
        /\ \A i \in 1 .. 10 : i # 1 => F[i] = <<"comma">> \o <<"cell">>
  OBVIOUS
<1>3. g[0] = LineStart /\ g[1] = Column(1, "cell") /\ g[10] = Column(10, "cell")
        /\ \A i \in 1 .. 10 : g[i] = Column(i, "cell")
  OBVIOUS
<1>4. LineStart = Column(1, "newline")
  BY DEF LineStart, Column
<1>5. CsvHeading = Separated(cells) \o <<"newline">>
  BY DEF CsvHeading
<1> HIDE DEF F, g, cells
<1>6. ASSUME NEW i \in 1 .. 10 PROVE Leads("csv", F[i], g[i - 1], g[i])
  <2>1. CASE i = 1
    <3>1. Leads("csv", <<"cell">>, Column(1, "newline"), Column(1, "cell"))
      BY StepCell, LeadsOne
    <3> QED
      BY <1>2, <1>3, <1>4, <2>1, <3>1
  <2>2. CASE i # 1
    <3>1. i - 1 \in 1 .. 10 /\ i - 1 \in Nat /\ i \in Nat /\ (i - 1) + 1 = i
      BY <2>2
    <3>2. Leads("csv", <<"comma">>, Column(i - 1, "cell"), Column(i, "comma"))
      BY <3>1, StepCell, LeadsOne
    <3>3. Leads("csv", <<"cell">>, Column(i, "comma"), Column(i, "cell"))
      BY <3>1, StepCell, LeadsOne
    <3>4. Leads("csv", <<"comma">> \o <<"cell">>, Column(i - 1, "cell"), Column(i, "cell"))
      BY <3>2, <3>3, LeadsConcat
    <3> QED
      BY <1>2, <1>3, <2>2, <3>1, <3>4
  <2> QED
    BY <2>1, <2>2
<1>7. Leads("csv", FlattenSeq(F), g[0], g[10])
  BY <1>2, <1>6, LeadsLoop
<1>8. Leads("csv", <<"newline">>, Column(10, "cell"), LineStart)
  BY StepCell, LeadsOne
<1> QED
  BY <1>1, <1>3, <1>5, <1>7, <1>8, LeadsConcat

\* Three cells and their commas, from a column to the third after it.
LEMMA LeadsCells ==
  ASSUME NEW n \in Nat, NEW last \in {"comma", "newline"}
  PROVE  Leads("csv", <<"cell", "comma", "cell", "comma", "cell", "comma">>,
               Column(n, last), Column(n + 3, "comma"))
<1> DEFINE ops == <<"cell", "comma", "cell", "comma", "cell", "comma">>
           states == <<Column(n, last), Column(n, "cell"), Column(n + 1, "comma"),
                       Column(n + 1, "cell"), Column(n + 2, "comma"),
                       Column(n + 2, "cell"), Column(n + 3, "comma")>>
<1>1. IsSeq(ops) /\ Len(ops) = 6
  <2>1. ops \in Seq({"cell", "comma"})
    OBVIOUS
  <2> QED
    BY <2>1 DEF IsSeq
<1>2. /\ ops[1] = "cell" /\ ops[2] = "comma" /\ ops[3] = "cell"
      /\ ops[4] = "comma" /\ ops[5] = "cell" /\ ops[6] = "comma"
      /\ states[1] = Column(n, last) /\ states[2] = Column(n, "cell")
      /\ states[3] = Column(n + 1, "comma") /\ states[4] = Column(n + 1, "cell")
      /\ states[5] = Column(n + 2, "comma") /\ states[6] = Column(n + 2, "cell")
      /\ states[7] = Column(n + 3, "comma")
  OBVIOUS
<1>3. n + 1 \in Nat /\ n + 2 \in Nat /\ (n + 1) + 1 = n + 2 /\ (n + 2) + 1 = n + 3
  OBVIOUS
<1>4. /\ Step("csv", "cell", Column(n, last), Column(n, "cell"))
      /\ Step("csv", "comma", Column(n, "cell"), Column(n + 1, "comma"))
      /\ Step("csv", "cell", Column(n + 1, "comma"), Column(n + 1, "cell"))
      /\ Step("csv", "comma", Column(n + 1, "cell"), Column(n + 2, "comma"))
      /\ Step("csv", "cell", Column(n + 2, "comma"), Column(n + 2, "cell"))
      /\ Step("csv", "comma", Column(n + 2, "cell"), Column(n + 3, "comma"))
  <2>1. last = "comma" \/ last = "newline"
    OBVIOUS
  <2> QED
    BY <1>3, <2>1, StepCell
<1> HIDE DEF ops, states
<1>5. ASSUME NEW k \in 1 .. 6 PROVE Step("csv", ops[k], states[k], states[k + 1])
  <2>1. k = 1 \/ k = 2 \/ k = 3 \/ k = 4 \/ k = 5 \/ k = 6
    OBVIOUS
  <2>2. CASE k = 1
    BY <1>2, <1>4, <2>2
  <2>3. CASE k = 2
    BY <1>2, <1>4, <2>3
  <2>4. CASE k = 3
    BY <1>2, <1>4, <2>4
  <2>5. CASE k = 4
    BY <1>2, <1>4, <2>5
  <2>6. CASE k = 5
    BY <1>2, <1>4, <2>6
  <2>7. CASE k = 6
    BY <1>2, <1>4, <2>7
  <2> QED
    BY <2>1, <2>2, <2>3, <2>4, <2>5, <2>6, <2>7
<1>6. Leads("csv", ops, states[1], states[6 + 1])
  BY <1>1, <1>5, LeadsStates
<1> QED
  BY <1>2, <1>6 DEF ops

\* A cell that may be left empty, and a comma.
LEMMA LeadsCell ==
  ASSUME NEW n \in Nat, NEW full
  PROVE  \E last \in {"comma", "cell"} :
           Leads("csv", IF full THEN <<"cell">> ELSE <<>>,
                 Column(n, "comma"), Column(n, last))
<1>1. Leads("csv", <<"cell">>, Column(n, "comma"), Column(n, "cell"))
  BY StepCell, LeadsOne
<1>2. Leads("csv", <<>>, Column(n, "comma"), Column(n, "comma"))
  BY LeadsNone
<1> QED
  BY <1>1, <1>2

LEMMA LeadsComma ==
  ASSUME NEW n \in Nat, NEW last \in {"comma", "cell"}
  PROVE  Leads("csv", <<"comma">>, Column(n, last), Column(n + 1, "comma"))
<1>1. Step("csv", "comma", Column(n, last), Column(n + 1, "comma"))
  <2>1. last = "comma" \/ last = "cell"
    OBVIOUS
  <2> QED
    BY <2>1, StepCell
<1> QED
  BY <1>1, LeadsOne

LEMMA WriteCsvValue ==
  ASSUME NEW r, NEW i, NEW v
  PROVE  Leads("csv", CsvValue(r, i, v), LineStart, LineStart)
<1> DEFINE cells == <<"cell", "comma", "cell", "comma", "cell", "comma">>
           time == IF r.timed THEN <<"cell">> ELSE <<>>
           raw == IF ~IsBytes(r, i, v) THEN <<"cell">> ELSE <<>>
           unit == IF HasUnit(v) THEN <<"cell">> ELSE <<>>
           more == <<"comma", "cell", "comma", "cell", "comma", "cell", "comma">>
           value == <<"cell", "comma">>
           eol == <<"newline">>
           comma == <<"comma">>
<1>1. CsvValue(r, i, v) =
        ((((((cells \o time) \o more) \o value) \o raw) \o comma) \o unit) \o eol
  BY DEF CsvValue
<1>2. LineStart = Column(1, "newline")
  BY DEF LineStart, Column
<1>3. Leads("csv", cells, LineStart, Column(4, "comma"))
  <2>1. Leads("csv", cells, Column(1, "newline"), Column(1 + 3, "comma"))
    BY LeadsCells
  <2> QED
    BY <1>2, <2>1
<1>4. PICK l1 \in {"comma", "cell"} : Leads("csv", time, Column(4, "comma"), Column(4, l1))
  BY LeadsCell
<1>5. Leads("csv", more, Column(4, l1), Column(8, "comma"))
  <2>1. Leads("csv", <<"comma">>, Column(4, l1), Column(4 + 1, "comma"))
    BY LeadsComma
  <2>2. Leads("csv", cells, Column(5, "comma"), Column(5 + 3, "comma"))
    BY LeadsCells
  <2>3. more = <<"comma">> \o cells
    OBVIOUS
  <2> HIDE DEF more, cells
  <2>4. Leads("csv", <<"comma">>, Column(4, l1), Column(5, "comma")) /\ Leads("csv", cells, Column(5, "comma"), Column(8, "comma"))
    BY <2>1, <2>2
  <2> QED
    BY <2>3, <2>4, LeadsConcat
<1>6. Leads("csv", value, Column(8, "comma"), Column(9, "comma"))
  <2>1. Step("csv", "cell", Column(8, "comma"), Column(8, "cell"))
          /\ Step("csv", "comma", Column(8, "cell"), Column(8 + 1, "comma"))
    BY StepCell
  <2>2. Step("csv", "comma", Column(8, "cell"), Column(9, "comma"))
    BY <2>1
  <2> QED
    BY <2>1, <2>2, LeadsTwo
<1>7. PICK l2 \in {"comma", "cell"} : Leads("csv", raw, Column(9, "comma"), Column(9, l2))
  BY LeadsCell
<1>8. Leads("csv", comma, Column(9, l2), Column(10, "comma"))
  <2>1. Leads("csv", <<"comma">>, Column(9, l2), Column(9 + 1, "comma"))
    BY LeadsComma
  <2> QED
    BY <2>1
<1>9. PICK l3 \in {"comma", "cell"} : Leads("csv", unit, Column(10, "comma"), Column(10, l3))
  BY LeadsCell
<1>10. Leads("csv", eol, Column(10, l3), LineStart)
  <2>1. Step("csv", "newline", Column(10, l3), LineStart)
    <3>1. l3 = "comma" \/ l3 = "cell"
      OBVIOUS
    <3> QED
      BY <3>1, StepCell
  <2> QED
    BY <2>1, LeadsOne
<1> HIDE DEF cells, time, raw, unit, more, value, eol, comma
<1>11. Leads("csv", (cells \o time) \o more, LineStart, Column(8, "comma"))
  BY <1>3, <1>4, <1>5, LeadsConcat
<1>12. Leads("csv", (((cells \o time) \o more) \o value) \o raw, LineStart, Column(9, l2))
  BY <1>6, <1>7, <1>11, LeadsConcat
<1>13. Leads("csv", (((((cells \o time) \o more) \o value) \o raw) \o comma) \o unit,
             LineStart, Column(10, l3))
  BY <1>8, <1>9, <1>12, LeadsConcat
<1>14. Leads("csv", ((((((cells \o time) \o more) \o value) \o raw) \o comma) \o unit) \o eol,
             LineStart, LineStart)
  BY <1>10, <1>13, LeadsConcat
<1> QED
  BY <1>1, <1>14

\* A loop of which every turn leads back to where it began.
LEMMA LeadsRounds ==
  ASSUME NEW form, NEW n \in Nat, NEW F, F = [i \in 1 .. n |-> F[i]], NEW s,
         \A i \in 1 .. n : Leads(form, F[i], s, s)
  PROVE  Leads(form, Concat(F), s, s)
<1> DEFINE g == [i \in 0 .. n |-> s]
<1>1. g[0] = s /\ g[n] = s
  OBVIOUS
<1>2. ASSUME NEW i \in 1 .. n PROVE g[i - 1] = s /\ g[i] = s
  <2>1. i - 1 \in 0 .. n /\ i \in 0 .. n
    OBVIOUS
  <2> QED
    BY <2>1
<1> HIDE DEF g
<1>3. \A i \in 1 .. n : Leads(form, F[i], g[i - 1], g[i])
  BY <1>2
<1>4. Leads(form, FlattenSeq(F), g[0], g[n])
  BY <1>3, LeadsLoop
<1> QED
  BY <1>1, <1>4 DEF Concat

LEMMA WriteCsvRecord ==
  ASSUME NEW r, IsRecord(r)
  PROVE  Leads("csv", CsvRecord(r), LineStart, LineStart)
<1>1. CASE r.type # "DATA"
  BY <1>1, LeadsNone DEF CsvRecord
<1>2. CASE r.type = "DATA"
  <2> DEFINE F == [i \in 1 .. Walkable(r) |->
                     Concat([v \in 1 .. Values(r, i) |-> CsvValue(r, i, v)])]
             n == Walkable(r)
  <2>1. n \in Nat
    BY DEF Walkable, CountOf, IsRecord
  <2>2. ASSUME NEW i \in 1 .. n PROVE Leads("csv", F[i], LineStart, LineStart)
    <3> DEFINE m == Values(r, i)
               G == [v \in 1 .. m |-> CsvValue(r, i, v)]
    <3>1. m \in Nat
      BY DEF Values, CountOf, IsRecord
    <3>2. F[i] = Concat(G)
      OBVIOUS
    <3>3. G = [v \in 1 .. m |-> G[v]] /\ \A v \in 1 .. m : G[v] = CsvValue(r, i, v)
      OBVIOUS
    <3> HIDE DEF F, G, m
    <3>4. \A v \in 1 .. m : Leads("csv", G[v], LineStart, LineStart)
      BY <3>3, WriteCsvValue
    <3>5. Leads("csv", Concat(G), LineStart, LineStart)
      BY <3>1, <3>3, <3>4, LeadsRounds
    <3> QED
      BY <3>2, <3>5
  <2>3. F = [i \in 1 .. n |-> F[i]]
    OBVIOUS
  <2>4. CsvRecord(r) = Concat(F)
    BY <1>2 DEF CsvRecord
  <2> HIDE DEF F, n
  <2> QED
    BY <2>1, <2>2, <2>3, <2>4, LeadsRounds
<1> QED
  BY <1>1, <1>2

LEMMA WriteCsvIsTable ==
  ASSUME NEW document, Exported(document)
  PROVE  IsTable(WriteCsv(document))
<1> DEFINE n == Len(document)
           F == [i \in 1 .. n |-> CsvRecord(document[i])]
<1>1. n \in Nat
  BY DEF Exported, IsSeq
<1>2. F = [i \in 1 .. n |-> F[i]] /\ \A i \in 1 .. n : F[i] = CsvRecord(document[i])
  OBVIOUS
<1>3. WriteCsv(document) = CsvHeading \o Concat(F)
  BY DEF WriteCsv
<1>4. \A i \in 1 .. n : Leads("csv", F[i], LineStart, LineStart)
  BY <1>2, WriteCsvRecord DEF Exported
<1> HIDE DEF n, F
<1>5. Leads("csv", Concat(F), LineStart, LineStart)
  BY <1>1, <1>2, <1>4, LeadsRounds
<1>6. Leads("csv", WriteCsv(document), LineStart, LineStart)
  BY <1>3, <1>5, WriteCsvHeading, LeadsConcat
<1> QED
  BY <1>6, TakenIs DEF IsTable

(***************************************************************************)
(* JSON.                                                                   *)
(***************************************************************************)
Inside(o, last) == [open |-> o, last |-> last]

Within(bracket, o) == <<bracket>> \o o

Valued == {"scalar", "end_object", "end_array"}

LEMMA WithinIs ==
  ASSUME NEW x, NEW o, IsSeq(o)
  PROVE  /\ IsSeq(Within(x, o)) /\ Within(x, o) # <<>>
         /\ Head(Within(x, o)) = x /\ Tail(Within(x, o)) = o
<1>1. PICK S : o \in Seq(S)
  BY DEF IsSeq
<1> DEFINE T == S \cup {x}
           w == Within(x, o)
<1>2. o \in Seq(T) /\ <<x>> \in Seq(T)
  <2>1. S \subseteq T
    OBVIOUS
  <2>2. o \in Seq(T)
    BY <1>1, <2>1, SeqMonotonic
  <2>3. x \in T
    OBVIOUS
  <2> HIDE DEF T
  <2> QED
    BY <2>2, <2>3
<1> HIDE DEF T
<1>3. w \in Seq(T) /\ Len(w) = 1 + Len(o) /\ w[1] = x
        /\ \A i \in 1 .. Len(o) : w[i + 1] = o[i]
  <2>1. Len(<<x>>) = 1 /\ <<x>>[1] = x
    OBVIOUS
  <2>2. Len(o) \in Nat
    BY <1>2
  <2>3. w \in Seq(T) /\ Len(w) = 1 + Len(o)
          /\ \A i \in 1 .. 1 + Len(o) : w[i] = IF i <= 1 THEN <<x>>[i] ELSE o[i - 1]
    BY <1>2, <2>1, ConcatProperties DEF Within
  <2> HIDE DEF w
  <2>4. ASSUME NEW i \in 1 .. Len(o) PROVE w[i + 1] = o[i]
    <3>1. i + 1 \in 1 .. 1 + Len(o) /\ ~(i + 1 <= 1) /\ (i + 1) - 1 = i
      BY <2>2
    <3> QED
      BY <2>3, <3>1
  <2> QED
    BY <2>1, <2>2, <2>3, <2>4
<1> HIDE DEF w
<1>4. w # <<>> /\ Head(w) = x
  BY <1>2, <1>3
<1>5. Tail(w) = o
  <2>1. Tail(w) \in Seq(T) /\ Len(Tail(w)) = Len(o)
          /\ \A i \in 1 .. Len(Tail(w)) : Tail(w)[i] = w[i + 1]
    BY <1>2, <1>3, <1>4, HeadTailProperties
  <2> QED
    BY <1>2, <1>3, <2>1, SeqEqual
<1> QED
  BY <1>3, <1>4, <1>5 DEF w, IsSeq

LEMMA StepJson ==
  ASSUME NEW o, IsSeq(o), o # <<>>
  PROVE  /\ Step("json", "scalar", Inside(o, "key"), Inside(o, "scalar"))
         /\ \A l \in Valued :
              Step("json", "comma", Inside(o, l), Inside(o, "comma"))
         /\ Head(o) = "object" =>
              \A l \in {"object", "comma"} :
                Step("json", "key", Inside(o, l), Inside(o, "key"))
<1>1. Step("json", "scalar", Inside(o, "key"), Inside(o, "scalar"))
  BY DEF Step, Take, TakeJson, MayFollow, Inside
<1>2. ASSUME NEW l \in Valued
      PROVE  Step("json", "comma", Inside(o, l), Inside(o, "comma"))
  BY DEF Step, Take, TakeJson, MayFollow, Inside, Valued
<1>3. ASSUME Head(o) = "object", NEW l \in {"object", "comma"}
      PROVE  Step("json", "key", Inside(o, l), Inside(o, "key"))
  BY <1>3 DEF Step, Take, TakeJson, MayFollow, Inside
<1> QED
  BY <1>1, <1>2, <1>3

LEMMA StepOpen ==
  ASSUME NEW o, IsSeq(o), o # <<>>, NEW l,
         l = "key" \/ (Head(o) = "array" /\ l \in {"array", "comma"}),
         NEW t \in {"object", "array"}
  PROVE  Step("json", t, Inside(o, l), Inside(Within(t, o), t))
BY DEF Step, Take, TakeJson, MayFollow, Inside, Within

LEMMA StepClose ==
  ASSUME NEW o, IsSeq(o), NEW l
  PROVE  /\ l \in Valued \cup {"object"} =>
              Step("json", "end_object", Inside(Within("object", o), l), Inside(o, "end_object"))
         /\ l \in Valued \cup {"array"} =>
              Step("json", "end_array", Inside(Within("array", o), l), Inside(o, "end_array"))
<1> DEFINE w(x) == Within(x, o)
<1>1. \A x \in {"object", "array"} : w(x) # <<>> /\ Head(w(x)) = x /\ Tail(w(x)) = o
  BY WithinIs
<1> HIDE DEF w
<1>2. ASSUME l \in Valued \cup {"object"}
      PROVE  Step("json", "end_object", Inside(w("object"), l), Inside(o, "end_object"))
  BY <1>1, <1>2 DEF Step, Take, TakeJson, MayFollow, Inside, Valued
<1>3. ASSUME l \in Valued \cup {"array"}
      PROVE  Step("json", "end_array", Inside(w("array"), l), Inside(o, "end_array"))
  BY <1>1, <1>3 DEF Step, Take, TakeJson, MayFollow, Inside, Valued
<1> QED
  BY <1>2, <1>3 DEF w

\* A separated member, and a row of them.
LEMMA LeadsMoreMembers ==
  ASSUME NEW o, IsSeq(o), NEW n \in Nat
  PROVE  Leads("json", MoreMembers(n), Inside(Within("object", o), "scalar"),
               Inside(Within("object", o), "scalar"))
<1> DEFINE w == Within("object", o)
           F == Repeat(<<"comma", "key", "scalar">>, n)
<1>1. IsSeq(w) /\ w # <<>> /\ Head(w) = "object"
  BY WithinIs
<1> HIDE DEF w
<1>2. Leads("json", <<"comma", "key", "scalar">>, Inside(w, "scalar"), Inside(w, "scalar"))
  <2>1. /\ Step("json", "comma", Inside(w, "scalar"), Inside(w, "comma"))
        /\ Step("json", "key", Inside(w, "comma"), Inside(w, "key"))
        /\ Step("json", "scalar", Inside(w, "key"), Inside(w, "scalar"))
    BY <1>1, StepJson DEF Valued
  <2> QED
    BY <2>1, LeadsThree
<1>3. F = [i \in 1 .. n |-> F[i]] /\ \A i \in 1 .. n : F[i] = <<"comma", "key", "scalar">>
  BY RepeatIs
<1>4. MoreMembers(n) = Concat(F)
  BY DEF MoreMembers
<1> HIDE DEF F
<1>5. \A i \in 1 .. n : Leads("json", F[i], Inside(w, "scalar"), Inside(w, "scalar"))
  BY <1>2, <1>3
<1>6. Leads("json", Concat(F), Inside(w, "scalar"), Inside(w, "scalar"))
  BY <1>3, <1>5, LeadsRounds
<1> QED
  BY <1>4, <1>6 DEF w

\* A loop with a separator between its turns.
LEMMA LeadsSeparated ==
  ASSUME NEW form, NEW n \in Nat, NEW F, F = [i \in 1 .. n |-> F[i]],
         NEW s, NEW c, NEW t,
         Step(form, "comma", t, c),
         \A i \in 1 .. n : Leads(form, F[i], s, t) /\ Leads(form, F[i], c, t)
  PROVE  Leads(form, Separated(F), s, IF n = 0 THEN s ELSE t)
<1> DEFINE G == [i \in 1 .. n |-> IF i = 1 THEN F[1] ELSE <<"comma">> \o F[i]]
           g == [i \in 0 .. n |-> IF i = 0 THEN s ELSE t]
<1>1. Separated(F) = FlattenSeq(G)
  <2>1. Len(F) = n
    BY IsSeqFunction
  <2> QED
    BY <2>1 DEF Separated, Concat
<1>2. G = [i \in 1 .. n |-> G[i]] /\ \A i \in 1 .. n :
        G[i] = IF i = 1 THEN F[i] ELSE <<"comma">> \o F[i]
  OBVIOUS
<1>3. g[0] = s /\ g[n] = IF n = 0 THEN s ELSE t
  OBVIOUS
<1>4. ASSUME NEW i \in 1 .. n PROVE g[i - 1] = (IF i = 1 THEN s ELSE t) /\ g[i] = t
  <2>1. i - 1 \in 0 .. n /\ i \in 0 .. n /\ i # 0 /\ (i - 1 = 0 <=> i = 1)
    OBVIOUS
  <2> QED
    BY <2>1
<1>5. Leads(form, <<"comma">>, t, c)
  BY LeadsOne
<1> HIDE DEF G, g
<1>6. ASSUME NEW i \in 1 .. n PROVE Leads(form, G[i], g[i - 1], g[i])
  <2>1. CASE i = 1
    <3>1. G[i] = F[i] /\ g[i - 1] = s /\ g[i] = t
      BY <1>2, <1>4, <2>1
    <3> QED
      BY <3>1
  <2>2. CASE i # 1
    <3>1. G[i] = <<"comma">> \o F[i] /\ g[i - 1] = t /\ g[i] = t
      BY <1>2, <1>4, <2>2
    <3>2. Leads(form, F[i], c, t)
      OBVIOUS
    <3>3. Leads(form, <<"comma">> \o F[i], t, t)
      BY <1>5, <3>2, LeadsConcat
    <3> QED
      BY <3>1, <3>3
  <2> QED
    BY <2>1, <2>2
<1>7. Leads(form, FlattenSeq(G), g[0], g[n])
  BY <1>2, <1>6, LeadsLoop
<1> QED
  BY <1>1, <1>3, <1>7

LEMMA LeadsMembers ==
  ASSUME NEW o, IsSeq(o), NEW n \in Nat \ {0}
  PROVE  Leads("json", Members(n), Inside(Within("object", o), "object"),
               Inside(Within("object", o), "scalar"))
<1> DEFINE w == Within("object", o)
           F == Repeat(<<"key", "scalar">>, n)
<1>1. IsSeq(w) /\ w # <<>> /\ Head(w) = "object"
  BY WithinIs
<1> HIDE DEF w
<1>2. \A l \in {"object", "comma"} :
        Leads("json", <<"key", "scalar">>, Inside(w, l), Inside(w, "scalar"))
  <2>1. ASSUME NEW l \in {"object", "comma"}
        PROVE  /\ Step("json", "key", Inside(w, l), Inside(w, "key"))
               /\ Step("json", "scalar", Inside(w, "key"), Inside(w, "scalar"))
    BY <1>1, StepJson
  <2> QED
    BY <2>1, LeadsTwo
<1>3. Step("json", "comma", Inside(w, "scalar"), Inside(w, "comma"))
  BY <1>1, StepJson DEF Valued
<1>4. F = [i \in 1 .. n |-> F[i]] /\ \A i \in 1 .. n : F[i] = <<"key", "scalar">>
  BY RepeatIs
<1>5. Members(n) = Separated(F)
  BY DEF Members
<1> HIDE DEF F
<1>6. \A i \in 1 .. n : /\ Leads("json", F[i], Inside(w, "object"), Inside(w, "scalar"))
                        /\ Leads("json", F[i], Inside(w, "comma"), Inside(w, "scalar"))
  BY <1>2, <1>4
<1> DEFINE s == Inside(w, "object")
           t == Inside(w, "scalar")
           c == Inside(w, "comma")
<1>7. Leads("json", Separated(F), s, IF n = 0 THEN s ELSE t)
  <2>1. n \in Nat
    OBVIOUS
  <2>2. Step("json", "comma", t, c)
          /\ \A i \in 1 .. n : Leads("json", F[i], s, t) /\ Leads("json", F[i], c, t)
    BY <1>3, <1>6
  <2> HIDE DEF s, t, c
  <2> QED
    BY <1>4, <2>1, <2>2, LeadsSeparated
<1> QED
  BY <1>5, <1>7 DEF w

\* An object that stands in an array.
IsElement(tokens) ==
  \A o : IsSeq(o) /\ o # <<>> /\ Head(o) = "array" =>
    \A l \in {"array", "comma"} :
      Leads("json", tokens, Inside(o, l), Inside(o, "end_object"))

LEMMA LeadsElements ==
  ASSUME NEW n \in Nat, NEW F, F = [i \in 1 .. n |-> F[i]],
         \A i \in 1 .. n : IsElement(F[i]), NEW o, IsSeq(o)
  PROVE  \E l \in {"array", "end_object"} :
           Leads("json", Separated(F), Inside(Within("array", o), "array"),
                 Inside(Within("array", o), l))
<1> DEFINE w == Within("array", o)
           s == Inside(w, "array")
           t == Inside(w, "end_object")
           c == Inside(w, "comma")
<1>1. IsSeq(w) /\ w # <<>> /\ Head(w) = "array"
  BY WithinIs
<1>2. Step("json", "comma", t, c)
  <2> HIDE DEF w
  <2> QED
    BY <1>1, StepJson DEF Valued
<1>3. \A i \in 1 .. n : Leads("json", F[i], s, t) /\ Leads("json", F[i], c, t)
  <2> HIDE DEF w
  <2> QED
    BY <1>1 DEF IsElement
<1>4. Leads("json", Separated(F), s, IF n = 0 THEN s ELSE t)
  <2> HIDE DEF s, t, c
  <2> QED
    BY <1>2, <1>3, LeadsSeparated
<1>5. CASE n = 0
  <2>1. Leads("json", Separated(F), s, Inside(w, "array"))
    BY <1>4, <1>5
  <2> QED
    BY <2>1
<1>6. CASE n # 0
  <2>1. Leads("json", Separated(F), s, Inside(w, "end_object"))
    BY <1>4, <1>6
  <2> QED
    BY <2>1
<1> QED
  BY <1>5, <1>6

LEMMA LeadsObject ==
  ASSUME NEW o, IsSeq(o), o # <<>>, Head(o) = "array",
         NEW l \in {"array", "comma"}, NEW n \in Nat \ {0}
  PROVE  Leads("json", <<"object">> \o Members(n), Inside(o, l),
               Inside(Within("object", o), "scalar"))
<1>1. Leads("json", <<"object">>, Inside(o, l), Inside(Within("object", o), "object"))
  <2>1. Step("json", "object", Inside(o, l), Inside(Within("object", o), "object"))
    BY StepOpen
  <2> QED
    BY <2>1, LeadsOne
<1> QED
  BY <1>1, LeadsMembers, LeadsConcat

LEMMA LeadsArray ==
  ASSUME NEW o, IsSeq(o)
  PROVE  Leads("json", <<"comma", "key", "array">>,
               Inside(Within("object", o), "scalar"),
               Inside(Within("array", Within("object", o)), "array"))
<1> DEFINE w == Within("object", o)
<1>1. IsSeq(w) /\ w # <<>> /\ Head(w) = "object"
  BY WithinIs
<1> HIDE DEF w
<1>2. /\ Step("json", "comma", Inside(w, "scalar"), Inside(w, "comma"))
      /\ Step("json", "key", Inside(w, "comma"), Inside(w, "key"))
  BY <1>1, StepJson DEF Valued
<1>3. Step("json", "array", Inside(w, "key"), Inside(Within("array", w), "array"))
  BY <1>1, StepOpen
<1>4. Leads("json", <<"comma", "key", "array">>, Inside(w, "scalar"),
            Inside(Within("array", w), "array"))
  BY <1>2, <1>3, LeadsThree
<1> QED
  BY <1>4 DEF w

LEMMA JsonValueIsElement ==
  ASSUME NEW r, NEW i, NEW v
  PROVE  IsElement(JsonValue(r, i, v))
<1> SUFFICES ASSUME NEW o, IsSeq(o), o # <<>>, Head(o) = "array",
                    NEW l \in {"array", "comma"}
             PROVE  Leads("json", JsonValue(r, i, v), Inside(o, l), Inside(o, "end_object"))
  BY DEF IsElement
<1> DEFINE a == <<"object">> \o Members(4)
           m == IF IsBytes(r, i, v) THEN 0 ELSE 1
           n == IF HasUnit(v) THEN 1 ELSE 0
           b == MoreMembers(m)
           c == MoreMembers(n)
           d == <<"end_object">>
           s == Inside(Within("object", o), "scalar")
<1>1. JsonValue(r, i, v) = ((a \o b) \o c) \o d
  BY DEF JsonValue
<1>2. Leads("json", a, Inside(o, l), s)
  BY LeadsObject
<1>3. m \in Nat /\ n \in Nat
  OBVIOUS
<1>4. Leads("json", b, s, s) /\ Leads("json", c, s, s)
  <2> HIDE DEF m, n
  <2> QED
    BY <1>3, LeadsMoreMembers
<1>5. Leads("json", d, s, Inside(o, "end_object"))
  <2>1. Step("json", "end_object", s, Inside(o, "end_object"))
    BY StepClose DEF Valued
  <2> QED
    BY <2>1, LeadsOne
<1> HIDE DEF a, b, c, d, s
<1>6. Leads("json", (a \o b) \o c, Inside(o, l), s)
  BY <1>2, <1>4, LeadsConcat
<1> QED
  BY <1>1, <1>5, <1>6, LeadsConcat

LEMMA JsonSampleIsElement ==
  ASSUME NEW r, IsRecord(r), NEW i
  PROVE  IsElement(JsonSample(r, i))
<1> SUFFICES ASSUME NEW o, IsSeq(o), o # <<>>, Head(o) = "array",
                    NEW l \in {"array", "comma"}
             PROVE  Leads("json", JsonSample(r, i), Inside(o, l), Inside(o, "end_object"))
  BY DEF IsElement
<1> DEFINE n == Values(r, i)
           F == [v \in 1 .. n |-> JsonValue(r, i, v)]
           a == <<"object">> \o Members(1)
           m == IF r.timed THEN 1 ELSE 0
           b == MoreMembers(m)
           c == <<"comma", "key", "array">>
           d == Separated(F)
           e == <<"end_array", "end_object">>
           w == Within("object", o)
           s == Inside(w, "scalar")
           t == Inside(Within("array", w), "array")
<1>1. JsonSample(r, i) = (((a \o b) \o c) \o d) \o e
  BY DEF JsonSample
<1>2. Leads("json", a, Inside(o, l), s)
  BY LeadsObject
<1>3. Leads("json", b, s, s)
  <2>1. m \in Nat
    OBVIOUS
  <2> HIDE DEF m
  <2> QED
    BY <2>1, LeadsMoreMembers
<1>4. Leads("json", c, s, t)
  BY LeadsArray
<1>5. IsSeq(w)
  BY WithinIs
<1>6. PICK k \in {"array", "end_object"} :
        Leads("json", d, t, Inside(Within("array", w), k))
  <2>1. n \in Nat
    BY DEF Values, CountOf, IsRecord
  <2>2. F = [v \in 1 .. n |-> F[v]] /\ \A v \in 1 .. n : F[v] = JsonValue(r, i, v)
    OBVIOUS
  <2>3. \A v \in 1 .. n : IsElement(F[v])
    BY <2>2, JsonValueIsElement
  <2> HIDE DEF F, n, w
  <2> QED
    BY <1>5, <2>1, <2>2, <2>3, LeadsElements
<1>7. Leads("json", e, Inside(Within("array", w), k), Inside(o, "end_object"))
  <2>1. Step("json", "end_array", Inside(Within("array", w), k), Inside(w, "end_array"))
    <3> HIDE DEF w
    <3> QED
      BY <1>5, StepClose DEF Valued
  <2>2. Step("json", "end_object", Inside(w, "end_array"), Inside(o, "end_object"))
    BY StepClose DEF Valued
  <2> QED
    BY <2>1, <2>2, LeadsTwo
<1> HIDE DEF a, b, c, d, e, w, s, t
<1>8. Leads("json", (a \o b) \o c, Inside(o, l), t)
  BY <1>2, <1>3, <1>4, LeadsConcat
<1>9. Leads("json", (((a \o b) \o c) \o d) \o e, Inside(o, l), Inside(o, "end_object"))
  BY <1>6, <1>7, <1>8, LeadsConcat
<1> QED
  BY <1>1, <1>9

LEMMA LeadsJsonContent ==
  ASSUME NEW r, IsRecord(r), r.type \in RecordTypes, NEW o, IsSeq(o)
  PROVE  \E l \in Valued :
           Leads("json", JsonContent(r), Inside(Within("object", o), "scalar"),
                 Inside(Within("object", o), l))
<1> DEFINE w == Within("object", o)
           s == Inside(w, "scalar")
<1>1. ASSUME NEW n \in Nat, JsonContent(r) = MoreMembers(n)
      PROVE  Leads("json", JsonContent(r), s, s)
  BY <1>1, LeadsMoreMembers
<1>2. Leads("json", <<>>, s, s)
  BY LeadsNone
<1>3. CASE r.type # "DATA"
  <2>1. \/ \E n \in Nat : JsonContent(r) = MoreMembers(n)
        \/ JsonContent(r) = <<>>
    BY <1>3 DEF JsonContent, RecordTypes
  <2>2. Leads("json", JsonContent(r), s, s)
    <3> HIDE DEF s
    <3> QED
      BY <1>1, <1>2, <2>1
  <2> QED
    BY <2>2 DEF Valued
<1>4. CASE r.type = "DATA"
  <2> DEFINE n == Walkable(r)
             F == [i \in 1 .. n |-> JsonSample(r, i)]
             a == MoreMembers(3)
             c == <<"comma", "key", "array">>
             d == Separated(F)
             e == <<"end_array">>
             t == Inside(Within("array", w), "array")
  <2>1. JsonContent(r) = ((a \o c) \o d) \o e
    BY <1>4 DEF JsonContent
  <2>2. Leads("json", a, s, s)
    BY LeadsMoreMembers
  <2>3. Leads("json", c, s, t)
    BY LeadsArray
  <2>4. IsSeq(w)
    BY WithinIs
  <2>5. PICK k \in {"array", "end_object"} :
          Leads("json", d, t, Inside(Within("array", w), k))
    <3>1. n \in Nat
      BY DEF Walkable, CountOf, IsRecord
    <3>2. F = [i \in 1 .. n |-> F[i]] /\ \A i \in 1 .. n : F[i] = JsonSample(r, i)
      OBVIOUS
    <3>3. \A i \in 1 .. n : IsElement(F[i])
      BY <3>2, JsonSampleIsElement
    <3> HIDE DEF F, n, w
    <3> QED
      BY <2>4, <3>1, <3>2, <3>3, LeadsElements
  <2>6. Leads("json", e, Inside(Within("array", w), k), Inside(w, "end_array"))
    <3>1. Step("json", "end_array", Inside(Within("array", w), k), Inside(w, "end_array"))
      <4> HIDE DEF w
      <4> QED
        BY <2>4, StepClose DEF Valued
    <3> QED
      BY <3>1, LeadsOne
  <2> DEFINE u == Inside(w, "end_array")
  <2> HIDE DEF a, c, d, e, s, t
  <2>7. Leads("json", ((a \o c) \o d) \o e, s, u)
    <3> HIDE DEF u
    <3>1. Leads("json", (a \o c) \o d, s, Inside(Within("array", w), k))
      BY <2>2, <2>3, <2>5, LeadsConcat
    <3> QED
      BY <2>6, <3>1, LeadsConcat DEF u
  <2> QED
    BY <2>1, <2>7 DEF Valued, s
<1> QED
  BY <1>3, <1>4

LEMMA JsonRecordIsElement ==
  ASSUME NEW r, IsRecord(r), r.type \in RecordTypes
  PROVE  IsElement(JsonRecord(r))
<1> SUFFICES ASSUME NEW o, IsSeq(o), o # <<>>, Head(o) = "array",
                    NEW l \in {"array", "comma"}
             PROVE  Leads("json", JsonRecord(r), Inside(o, l), Inside(o, "end_object"))
  BY DEF IsElement
<1> DEFINE a == <<"object">> \o Members(1)
           b == MoreMembers(2)
           c == JsonContent(r)
           d == <<"end_object">>
           w == Within("object", o)
           s == Inside(w, "scalar")
<1>1. JsonRecord(r) = ((a \o b) \o c) \o d
  BY DEF JsonRecord
<1>2. Leads("json", a, Inside(o, l), s)
  BY LeadsObject
<1>3. Leads("json", b, s, s)
  BY LeadsMoreMembers
<1>4. PICK k \in Valued : Leads("json", c, s, Inside(w, k))
  BY LeadsJsonContent
<1>5. Leads("json", d, Inside(w, k), Inside(o, "end_object"))
  <2>1. Step("json", "end_object", Inside(w, k), Inside(o, "end_object"))
    BY StepClose
  <2> QED
    BY <2>1, LeadsOne
<1> HIDE DEF a, b, c, d, w, s
<1>6. Leads("json", (a \o b) \o c, Inside(o, l), Inside(w, k))
  BY <1>2, <1>3, <1>4, LeadsConcat
<1> QED
  BY <1>1, <1>5, <1>6, LeadsConcat

LEMMA WriteJsonIsJson ==
  ASSUME NEW document, Exported(document)
  PROVE  IsJson(WriteJson(document))
<1> DEFINE n == Len(document)
           F == [i \in 1 .. n |-> JsonRecord(document[i])]
           a == <<"object", "key", "object">>
           b == Members(4)
           c == <<"end_object", "comma", "key", "array">>
           d == Separated(F)
           e == <<"end_array", "end_object">>
           start == [open |-> <<>>, last |-> "nothing"]
           o == Within("object", <<>>)
           p == Within("object", o)
           t == Inside(Within("array", o), "array")
           end == Inside(<<>>, "end_object")
<1>1. WriteJson(document) = (((a \o b) \o c) \o d) \o e
  BY DEF WriteJson
<1>2. IsSeq(<<>>) /\ IsSeq(o) /\ o # <<>> /\ Head(o) = "object"
  <2>1. <<>> \in Seq({})
    OBVIOUS
  <2>2. IsSeq(<<>>)
    BY <2>1 DEF IsSeq
  <2> QED
    BY <2>2, WithinIs
<1>3. Leads("json", a, start, Inside(p, "object"))
  <2>1. Step("json", "object", start, Inside(o, "object"))
    BY DEF Step, Take, TakeJson, Inside, Within
  <2> HIDE DEF start, o
  <2>2. Step("json", "key", Inside(o, "object"), Inside(o, "key"))
    BY <1>2, StepJson
  <2>3. Step("json", "object", Inside(o, "key"), Inside(p, "object"))
    BY <1>2, StepOpen
  <2> QED
    BY <2>1, <2>2, <2>3, LeadsThree
<1>4. Leads("json", b, Inside(p, "object"), Inside(p, "scalar"))
  <2> HIDE DEF o
  <2> QED
    BY <1>2, LeadsMembers
<1>5. Leads("json", c, Inside(p, "scalar"), t)
  <2> HIDE DEF o
  <2>1. Step("json", "end_object", Inside(p, "scalar"), Inside(o, "end_object"))
    BY <1>2, StepClose DEF Valued
  <2>2. Leads("json", <<"end_object">>, Inside(p, "scalar"), Inside(o, "end_object"))
    BY <2>1, LeadsOne
  <2>3. /\ Step("json", "comma", Inside(o, "end_object"), Inside(o, "comma"))
        /\ Step("json", "key", Inside(o, "comma"), Inside(o, "key"))
    BY <1>2, StepJson DEF Valued
  <2>4. Step("json", "array", Inside(o, "key"), t)
    BY <1>2, StepOpen
  <2>5. Leads("json", <<"comma", "key", "array">>, Inside(o, "end_object"), t)
    <3> HIDE DEF t
    <3> QED
      BY <2>3, <2>4, LeadsThree
  <2>6. c = <<"end_object">> \o <<"comma", "key", "array">>
    OBVIOUS
  <2> HIDE DEF c, t, p
  <2> QED
    BY <2>2, <2>5, <2>6, LeadsConcat
<1>6. PICK k \in {"array", "end_object"} :
        Leads("json", d, t, Inside(Within("array", o), k))
  <2>1. n \in Nat
    BY DEF Exported, IsSeq
  <2>2. F = [i \in 1 .. n |-> F[i]] /\ \A i \in 1 .. n : F[i] = JsonRecord(document[i])
    OBVIOUS
  <2>3. \A i \in 1 .. n : IsElement(F[i])
    BY <2>2, JsonRecordIsElement DEF Exported
  <2> HIDE DEF F, n, o
  <2> QED
    BY <1>2, <2>1, <2>2, <2>3, LeadsElements
<1>7. Leads("json", e, Inside(Within("array", o), k), end)
  <2>1. Step("json", "end_array", Inside(Within("array", o), k), Inside(o, "end_array"))
    <3> HIDE DEF o
    <3> QED
      BY <1>2, StepClose DEF Valued
  <2>2. Step("json", "end_object", Inside(o, "end_array"), end)
    BY <1>2, StepClose DEF Valued
  <2> HIDE DEF o, end
  <2> QED
    BY <2>1, <2>2, LeadsTwo
<1> HIDE DEF a, b, c, d, e, start, o, p, t, end
<1>8. Leads("json", (a \o b) \o c, start, t)
  BY <1>3, <1>4, <1>5, LeadsConcat
<1>9. Leads("json", (((a \o b) \o c) \o d) \o e, start, end)
  BY <1>6, <1>7, <1>8, LeadsConcat
<1>10. Taken("json", start, WriteJson(document)) = end
  BY <1>1, <1>9, TakenIs
<1> QED
  BY <1>10 DEF IsJson, start, end, Inside

(***************************************************************************)
(* Every document is exported well, and what an exporter has written stays *)
(* what it wrote until it is gone.                                         *)
(***************************************************************************)
Formats == {"json", "cbor", "csv"}

WellWritten ==
  /\ Accounted
  /\ stage = "arguments" => dump = <<>>
  /\ stage \in {"decoding", "writing", "closing", "freeing"} => format \in Formats
  /\ DumpIsWellFormed

LEMMA ExportIsWellFormed ==
  ASSUME Owned, format \in Formats
  PROVE  CASE format = "json" -> IsJson(Export)
           [] format = "cbor" -> IsOneItem(Export)
           [] format = "csv" -> IsTable(Export)
<1>1. Exported(records)
  BY DEF Owned, IsKept, Exported
<1>2. CASE format = "json"
  BY <1>1, <1>2, WriteJsonIsJson DEF Export
<1>3. CASE format = "cbor"
  BY <1>1, <1>3, WriteCborIsOneItem DEF Export
<1>4. CASE format = "csv"
  BY <1>1, <1>4, WriteCsvIsTable DEF Export
<1> QED
  BY <1>2, <1>3, <1>4 DEF Formats

LEMMA CommandStepWritesWell ==
  ASSUME WellWritten, [CommandNext]_<<ownershipVars, commandVars>>
  PROVE  WellWritten'
<1>1. Accounted /\ Accounted'
  BY CommandStepAccounts DEF WellWritten
<1>2. ASSUME UNCHANGED <<dump, format>> PROVE DumpIsWellFormed'
  BY <1>2 DEF WellWritten, DumpIsWellFormed, IsJson, IsOneItem, IsTable
<1>3. ASSUME dump' = <<>> PROVE DumpIsWellFormed'
  BY <1>3 DEF DumpIsWellFormed
<1>4. CASE RefuseArguments \/ CannotRead \/ DecodeFailed \/ CannotOpenOutput
  <2>1. UNCHANGED <<dump, format>> /\ stage' = "exited"
    BY <1>4 DEF RefuseArguments, CannotRead, DecodeFailed, CannotOpenOutput, Exits
  <2> QED
    BY <1>1, <1>2, <2>1 DEF WellWritten
<1>5. CASE ParseArguments
  <2>1. /\ stage = "arguments" /\ stage' = "decoding"
        /\ dump' = dump /\ format' \in Formats
    BY <1>5 DEF ParseArguments, Formats
  <2> QED
    BY <1>1, <1>3, <2>1 DEF WellWritten
<1>6. CASE Decoding
  <2>1. UNCHANGED <<dump, format>> /\ stage' = "decoding" /\ stage = "decoding"
    BY <1>6 DEF Decoding, commandVars
  <2> QED
    BY <1>1, <1>2, <2>1 DEF WellWritten
<1>7. CASE OpenOutput
  <2>1. UNCHANGED <<dump, format>> /\ stage = "decoding" /\ stage' = "writing"
    BY <1>7 DEF OpenOutput
  <2> QED
    BY <1>1, <1>2, <2>1 DEF WellWritten
<1>8. CASE WriteOutput
  <2>1. /\ stage = "writing" /\ format' = format
        /\ stage' \in {"closing", "freeing"}
        /\ dump' = Export \/ dump' = <<>>
    BY <1>8 DEF WriteOutput
  <2>2. format \in Formats /\ Owned
    BY <1>1, <2>1 DEF WellWritten, Accounted
  <2>3. ASSUME dump' = Export PROVE DumpIsWellFormed'
    BY <2>1, <2>2, <2>3, ExportIsWellFormed
       DEF DumpIsWellFormed, IsJson, IsOneItem, IsTable
  <2>4. DumpIsWellFormed'
    BY <1>3, <2>1, <2>3
  <2> QED
    BY <1>1, <2>1, <2>2, <2>4 DEF WellWritten
<1>9. CASE CloseOutput \/ Finish
  <2>1. /\ stage \in {"closing", "freeing"} /\ stage' \in {"freeing", "exited"}
        /\ dump' = <<>> /\ format' = format
    BY <1>9 DEF CloseOutput, Finish, Exits
  <2> QED
    BY <1>1, <1>3, <2>1 DEF WellWritten
<1>10. CASE UNCHANGED <<ownershipVars, commandVars>>
  <2>1. UNCHANGED <<dump, format, stage>>
    BY <1>10 DEF commandVars
  <2> QED
    BY <1>1, <1>2, <2>1 DEF WellWritten
<1> QED
  BY <1>4, <1>5, <1>6, <1>7, <1>8, <1>9, <1>10 DEF CommandNext

(***************************************************************************)
(* Whatever document sdaf_decode_file makes of a file, the dump the tool   *)
(* writes of it is well formed: the CBOR heads announce exactly what       *)
(* follows, JSON brackets and commas match, and every CSV line has ten     *)
(* columns.                                                                *)
(***************************************************************************)
THEOREM EveryDumpIsWellFormed == CommandSpec => []DumpIsWellFormed
<1>1. CommandInit => WellWritten
  BY InitOwned DEF CommandInit, OwnershipInit, Accounted, WellWritten, DumpIsWellFormed
<1>2. WellWritten => DumpIsWellFormed
  BY DEF WellWritten
<1> QED
  BY <1>1, <1>2, CommandStepWritesWell, PTL DEF CommandSpec

=============================================================================
