------------------------ MODULE Utf8ValidatorProofs ------------------------
(***************************************************************************)
(* The automaton of utf8validator.py and Python's decoder agree: the       *)
(* automaton accepts what decode('utf-8') decodes, and rejects where no    *)
(* continuation could be decoded.  Texts of any length; the length is      *)
(* reached by RecursionLemmas.                                             *)
(***************************************************************************)
EXTENDS Utf8Validator, RecursionLemmas, SequenceTheorems

-----------------------------------------------------------------------------
(* The table.                                                              *)

\* The classes are the columns of the table, 0 to 11.
LEMMA OctetClassType ==
  ASSUME NEW b \in 0..255
  PROVE  OctetClass(b) \in 0..11
  BY DEF OctetClass

\* The class of each octet.
LEMMA OctetClasses ==
  ASSUME NEW b \in 0..255
  PROVE  /\ b \in 0..127 => OctetClass(b) = 0
         /\ b \in 128..143 => OctetClass(b) = 1
         /\ b \in 144..159 => OctetClass(b) = 9
         /\ b \in 160..191 => OctetClass(b) = 7
         /\ b \in 192..193 => OctetClass(b) = 8
         /\ b \in 194..223 => OctetClass(b) = 2
         /\ b = 224 => OctetClass(b) = 10
         /\ b \in 225..236 => OctetClass(b) = 3
         /\ b = 237 => OctetClass(b) = 4
         /\ b \in 238..239 => OctetClass(b) = 3
         /\ b = 240 => OctetClass(b) = 11
         /\ b \in 241..243 => OctetClass(b) = 6
         /\ b = 244 => OctetClass(b) = 5
         /\ b \in 245..255 => OctetClass(b) = 8
<1>1. b \in 0..127 => OctetClass(b) = 0
  BY DEF OctetClass
<1>2. b \in 128..143 => OctetClass(b) = 1
  BY DEF OctetClass
<1>3. b \in 144..159 => OctetClass(b) = 9
  BY DEF OctetClass
<1>4. b \in 160..191 => OctetClass(b) = 7
  BY DEF OctetClass
<1>5. b \in 192..193 => OctetClass(b) = 8
  BY DEF OctetClass
<1>6. b \in 194..223 => OctetClass(b) = 2
  BY DEF OctetClass
<1>7. b = 224 => OctetClass(b) = 10
  BY DEF OctetClass
<1>8. b \in 225..236 => OctetClass(b) = 3
  BY DEF OctetClass
<1>9. b = 237 => OctetClass(b) = 4
  BY DEF OctetClass
<1>10. b \in 238..239 => OctetClass(b) = 3
  BY DEF OctetClass
<1>11. b = 240 => OctetClass(b) = 11
  BY DEF OctetClass
<1>12. b \in 241..243 => OctetClass(b) = 6
  BY DEF OctetClass
<1>13. b = 244 => OctetClass(b) = 5
  BY DEF OctetClass
<1>14. b \in 245..255 => OctetClass(b) = 8
  BY DEF OctetClass
<1> QED
  BY <1>1, <1>2, <1>3, <1>4, <1>5, <1>6, <1>7, <1>8, <1>9, <1>10, <1>11, <1>12, <1>13, <1>14

\* An entry of the table behind its first 256 is one of a row.
LEMMA RowEntry ==
  ASSUME NEW q \in 0..8, NEW k \in 0..15
  PROVE  UTF8VALIDATOR_DFA[256 + (q * 16) + k] = Transitions[q + 1][k + 1]
<1>1. 256 + (q * 16) + k \in 0..399 /\ ~(256 + (q * 16) + k < 256)
  OBVIOUS
<1>2. (256 + (q * 16) + k) - 256 = (q * 16) + k
  OBVIOUS
<1>3. ((q * 16) + k) \div 16 = q /\ ((q * 16) + k) % 16 = k
  OBVIOUS
<1> QED
  BY <1>1, <1>2, <1>3, SMTT(30) DEF UTF8VALIDATOR_DFA

\* Every entry of a row is a state.
LEMMA RowType ==
  ASSUME NEW q \in 0..8, NEW k \in 0..15
  PROVE  Transitions[q + 1][k + 1] \in 0..8
  BY DEF Transitions

\* The states that are neither of the two errors.
State == 0..8 \ {UTF8_REJECT}

\* A step from a state on an octet is the entry of the octet's class in the state's row.
LEMMA StepIsRow ==
  ASSUME NEW q \in State, NEW b \in 0..255
  PROVE  /\ Step(q, b) = Transitions[q + 1][OctetClass(b) + 1]
         /\ Step(q, b) \in 0..8
<1> DEFINE k == OctetClass(b)
<1>1. b \in DOMAIN UTF8VALIDATOR_DFA /\ UTF8VALIDATOR_DFA[b] = k
  BY DEF UTF8VALIDATOR_DFA
<1>2. q \notin {UTF8_REJECT, OutOfTable} /\ q \in 0..8
  BY DEF State, UTF8_REJECT, OutOfTable
<1>3. k \in 0..15
  BY OctetClassType
<1>4. Step(q, b) = UTF8VALIDATOR_DFA[256 + (q * 16) + k]
  BY <1>1, <1>2 DEF Step
<1> HIDE DEF k
<1>5. UTF8VALIDATOR_DFA[256 + (q * 16) + k] = Transitions[q + 1][k + 1]
  BY ONLY <1>2, <1>3, RowEntry
<1>6. Transitions[q + 1][k + 1] \in 0..8
  BY ONLY <1>2, <1>3, RowType
<1> QED
  BY ONLY <1>4, <1>5, <1>6 DEF k

\* A step leads to a state or an error, whatever the character.
LEMMA StepType ==
  ASSUME NEW q \in 0..9, NEW c
  PROVE  Step(q, c) \in 0..9
<1>1. CASE q \in {UTF8_REJECT, OutOfTable}
  BY <1>1 DEF Step
<1>2. CASE q \notin {UTF8_REJECT, OutOfTable} /\ c \notin DOMAIN UTF8VALIDATOR_DFA
  BY <1>2 DEF Step, OutOfTable
<1>3. CASE q \notin {UTF8_REJECT, OutOfTable} /\ c \in DOMAIN UTF8VALIDATOR_DFA
  <2>1. c \in 0..399 /\ q \in 0..8
    BY <1>3 DEF UTF8VALIDATOR_DFA, OutOfTable
  <2>2. UTF8VALIDATOR_DFA[c] \in 0..15
    <3>1. CASE c < 256
      <4>1. UTF8VALIDATOR_DFA[c] = OctetClass(c) /\ c \in 0..255
        BY <2>1, <3>1 DEF UTF8VALIDATOR_DFA
      <4> QED
        BY <4>1, OctetClassType
    <3>2. CASE ~(c < 256)
      <4>1. (c - 256) \div 16 \in 0..8 /\ (c - 256) % 16 \in 0..15
        <5>1. c - 256 \in 0..143
          BY <2>1, <3>2
        <5> QED
          BY <5>1
      <4>2. UTF8VALIDATOR_DFA[c] = Transitions[((c - 256) \div 16) + 1][((c - 256) % 16) + 1]
        BY <2>1, <3>2 DEF UTF8VALIDATOR_DFA
      <4>3. Transitions[((c - 256) \div 16) + 1][((c - 256) % 16) + 1] \in 0..8
        BY <4>1, RowType, SMTT(30)
      <4> QED
        BY <4>2, <4>3
    <3> QED
      BY <3>1, <3>2
  <2>3. Step(q, c) = UTF8VALIDATOR_DFA[256 + (q * 16) + UTF8VALIDATOR_DFA[c]]
    BY <1>3 DEF Step
  <2>4. ASSUME NEW k \in 0..15
        PROVE  UTF8VALIDATOR_DFA[256 + (q * 16) + k] \in 0..8
    <3>1. UTF8VALIDATOR_DFA[256 + (q * 16) + k] = Transitions[q + 1][k + 1]
      BY <2>1, RowEntry
    <3> QED
      BY <2>1, <3>1, RowType, SMTT(30)
  <2> QED
    BY <2>2, <2>3, <2>4
<1> QED
  BY <1>1, <1>2, <1>3

\* Where an octet leads to at the start of a character.
LEMMA StepFromAccept ==
  ASSUME NEW b \in 0..255
  PROVE  Step(UTF8_ACCEPT, b) =
           CASE b \in 0..127 -> 0
             [] b \in 194..223 -> 2
             [] b \in 225..239 \ {237} -> 3
             [] b = 224 -> 4
             [] b = 237 -> 5
             [] b = 240 -> 6
             [] b \in 241..243 -> 7
             [] b = 244 -> 8
             [] OTHER -> UTF8_REJECT
<1> DEFINE class == OctetClass(b)  row == Transitions[1]
<1>1. UTF8_ACCEPT = 0 /\ UTF8_ACCEPT \in State
  BY DEF UTF8_ACCEPT, State, UTF8_REJECT
<1>2. Step(UTF8_ACCEPT, b) = row[class + 1]
  <2>1. Step(UTF8_ACCEPT, b) = Transitions[UTF8_ACCEPT + 1][class + 1]
    BY <1>1, StepIsRow
  <2>2. UTF8_ACCEPT + 1 = 1
    BY <1>1
  <2> QED
    BY <2>1, <2>2
<1>3. /\ row[1] = 0 /\ row[2] = 1 /\ row[3] = 2 /\ row[4] = 3 /\ row[5] = 5 /\ row[6] = 8
      /\ row[7] = 7 /\ row[8] = 1 /\ row[9] = 1 /\ row[10] = 1 /\ row[11] = 4 /\ row[12] = 6
  BY DEF Transitions
<1> HIDE DEF row
<1>4. CASE b \in 0..127
  BY <1>2, <1>3, <1>4, OctetClasses
<1>5. CASE b \in 128..193
  BY <1>2, <1>3, <1>5, OctetClasses DEF UTF8_REJECT
<1>6. CASE b \in 194..239
  BY <1>2, <1>3, <1>6, OctetClasses
<1>7. CASE b \in 240..255
  BY <1>2, <1>3, <1>7, OctetClasses DEF UTF8_REJECT
<1> QED
  BY <1>4, <1>5, <1>6, <1>7

\* What may follow inside a character: the octets that lead on, and where to.
Follows(q) ==
  CASE q = 2 -> 128..191
    [] q = 3 -> 128..191
    [] q = 4 -> 160..191
    [] q = 5 -> 128..159
    [] q = 6 -> 144..191
    [] q = 7 -> 128..191
    [] q = 8 -> 128..143

\* The state they lead to.
Onward(q) == CASE q = 2 -> 0 [] q \in 3..5 -> 2 [] q \in 6..8 -> 3

\* Where an octet leads to inside a character.
LEMMA StepInside ==
  ASSUME NEW q \in 2..8, NEW b \in 0..255
  PROVE  Step(q, b) = IF b \in Follows(q) THEN Onward(q) ELSE UTF8_REJECT
<1>1. q \in State
  BY DEF State, UTF8_REJECT
<1> DEFINE class == OctetClass(b)  row == Transitions[q + 1]
<1>2. Step(q, b) = row[class + 1]
  BY <1>1, StepIsRow
<1>3. class = 0 \/ class = 1 \/ class = 2 \/ class = 3 \/ class = 4 \/ class = 5 \/ class = 6
        \/ class = 7 \/ class = 8 \/ class = 9 \/ class = 10 \/ class = 11
  BY OctetClassType
<1>4. /\ class = 1 <=> b \in 128..143
      /\ class = 9 <=> b \in 144..159
      /\ class = 7 <=> b \in 160..191
  BY OctetClasses
<1>5. CASE q = 2
  <2>1. /\ row[1] = 1 /\ row[2] = 0 /\ row[3] = 1 /\ row[4] = 1 /\ row[5] = 1 /\ row[6] = 1
        /\ row[7] = 1 /\ row[8] = 0 /\ row[9] = 1 /\ row[10] = 0 /\ row[11] = 1 /\ row[12] = 1
    BY <1>5 DEF Transitions
  <2> HIDE DEF class, row
  <2>2. row[class + 1] = IF class \in {1, 7, 9} THEN 0 ELSE 1
    BY <1>3, <2>1
  <2> QED
    BY <1>2, <1>4, <1>5, <2>2 DEF UTF8_REJECT, Follows, Onward
<1>6. CASE q = 3
  <2>1. /\ row[1] = 1 /\ row[2] = 2 /\ row[3] = 1 /\ row[4] = 1 /\ row[5] = 1 /\ row[6] = 1
        /\ row[7] = 1 /\ row[8] = 2 /\ row[9] = 1 /\ row[10] = 2 /\ row[11] = 1 /\ row[12] = 1
    BY <1>6 DEF Transitions
  <2> HIDE DEF class, row
  <2>2. row[class + 1] = IF class \in {1, 7, 9} THEN 2 ELSE 1
    BY <1>3, <2>1
  <2> QED
    BY <1>2, <1>4, <1>6, <2>2 DEF UTF8_REJECT, Follows, Onward
<1>7. CASE q = 4
  <2>1. /\ row[1] = 1 /\ row[2] = 1 /\ row[3] = 1 /\ row[4] = 1 /\ row[5] = 1 /\ row[6] = 1
        /\ row[7] = 1 /\ row[8] = 2 /\ row[9] = 1 /\ row[10] = 1 /\ row[11] = 1 /\ row[12] = 1
    BY <1>7 DEF Transitions
  <2> HIDE DEF class, row
  <2>2. row[class + 1] = IF class \in {7} THEN 2 ELSE 1
    BY <1>3, <2>1
  <2> QED
    BY <1>2, <1>4, <1>7, <2>2 DEF UTF8_REJECT, Follows, Onward
<1>8. CASE q = 5
  <2>1. /\ row[1] = 1 /\ row[2] = 2 /\ row[3] = 1 /\ row[4] = 1 /\ row[5] = 1 /\ row[6] = 1
        /\ row[7] = 1 /\ row[8] = 1 /\ row[9] = 1 /\ row[10] = 2 /\ row[11] = 1 /\ row[12] = 1
    BY <1>8 DEF Transitions
  <2> HIDE DEF class, row
  <2>2. row[class + 1] = IF class \in {1, 9} THEN 2 ELSE 1
    BY <1>3, <2>1
  <2> QED
    BY <1>2, <1>4, <1>8, <2>2 DEF UTF8_REJECT, Follows, Onward
<1>9. CASE q = 6
  <2>1. /\ row[1] = 1 /\ row[2] = 1 /\ row[3] = 1 /\ row[4] = 1 /\ row[5] = 1 /\ row[6] = 1
        /\ row[7] = 1 /\ row[8] = 3 /\ row[9] = 1 /\ row[10] = 3 /\ row[11] = 1 /\ row[12] = 1
    BY <1>9 DEF Transitions
  <2> HIDE DEF class, row
  <2>2. row[class + 1] = IF class \in {7, 9} THEN 3 ELSE 1
    BY <1>3, <2>1
  <2> QED
    BY <1>2, <1>4, <1>9, <2>2 DEF UTF8_REJECT, Follows, Onward
<1>10. CASE q = 7
  <2>1. /\ row[1] = 1 /\ row[2] = 3 /\ row[3] = 1 /\ row[4] = 1 /\ row[5] = 1 /\ row[6] = 1
        /\ row[7] = 1 /\ row[8] = 3 /\ row[9] = 1 /\ row[10] = 3 /\ row[11] = 1 /\ row[12] = 1
    BY <1>10 DEF Transitions
  <2> HIDE DEF class, row
  <2>2. row[class + 1] = IF class \in {1, 7, 9} THEN 3 ELSE 1
    BY <1>3, <2>1
  <2> QED
    BY <1>2, <1>4, <1>10, <2>2 DEF UTF8_REJECT, Follows, Onward
<1>11. CASE q = 8
  <2>1. /\ row[1] = 1 /\ row[2] = 3 /\ row[3] = 1 /\ row[4] = 1 /\ row[5] = 1 /\ row[6] = 1
        /\ row[7] = 1 /\ row[8] = 1 /\ row[9] = 1 /\ row[10] = 1 /\ row[11] = 1 /\ row[12] = 1
    BY <1>11 DEF Transitions
  <2> HIDE DEF class, row
  <2>2. row[class + 1] = IF class \in {1} THEN 3 ELSE 1
    BY <1>3, <2>1
  <2> QED
    BY <1>2, <1>4, <1>11, <2>2 DEF UTF8_REJECT, Follows, Onward
<1> QED
  BY <1>5, <1>6, <1>7, <1>8, <1>9, <1>10, <1>11

\* The states that the loop of validate goes through.
IsTrace(after, q, s) ==
  after \in [0..Len(s) -> 0..9] /\ after[0] = q /\ \A i \in 1..Len(s) : after[i] = Step(after[i - 1], s[i])

\* The loop of validate goes through states, one octet at a time.
LEMMA RunIsTrace ==
  ASSUME NEW S, NEW s \in Seq(S), NEW q \in 0..9
  PROVE  \E after : IsTrace(after, q, s) /\ Run(q, s) = after[Len(s)]
<1> DEFINE G == [p \in (0..9) \X (1..Len(s)) |-> Step(p[1], s[p[2]])]
           Body(after) == [i \in 0..Len(s) |-> IF i = 0 THEN q ELSE Step(after[i - 1], s[i])]
           after == CHOOSE f : f = Body(f)
<1>1. IsTable(G, Len(s), 0..9)
  <2>1. \A p \in (0..9) \X (1..Len(s)) : Step(p[1], s[p[2]]) \in 0..9
    BY StepType
  <2> QED
    BY <2>1 DEF IsTable
<1>2. Len(s) \in Nat
  BY LenProperties
<1>3. \A x \in 0..9, i \in 1..Len(s) : G[<<x, i>>] = Step(x, s[i])
  OBVIOUS
<1> HIDE DEF G
<1>4. PICK g : Iterates(g, G, Len(s), q, 0..9)
  BY <1>1, <1>2, RecursiveFunction
<1>5. g \in [0..Len(s) -> 0..9] /\ g[0] = q /\ \A i \in 1..Len(s) : g[i] = Step(g[i - 1], s[i])
  <2>1. \A i \in 1..Len(s) : g[i - 1] \in 0..9
    BY <1>2, <1>4 DEF Iterates
  <2> QED
    BY <1>3, <1>4, <2>1 DEF Iterates
<1>6. g = Body(g)
  BY <1>2, <1>5
<1>7. after = Body(after)
  BY <1>6, Zenon
<1>8. Run(q, s) = after[Len(s)]
  BY DEF Run
<1> HIDE DEF after
<1>9. after[0] = q /\ \A i \in 1..Len(s) : after[i] = Step(after[i - 1], s[i])
  BY <1>2, <1>7
<1>10. after = [i \in 0..Len(s) |-> after[i]]
  BY <1>7, Zenon
<1>11. \A i \in 0..Len(s) : after[i] \in 0..9
  <2> DEFINE T == {i \in 0..Len(s) : after[i] \in 0..9}
  <2>1. 0 \in T
    BY <1>2, <1>9
  <2>2. ASSUME NEW i \in 0..(Len(s) - 1), i \in T
        PROVE  i + 1 \in T
    <3>1. i + 1 \in 1..Len(s) /\ (i + 1) - 1 = i
      BY <1>2
    <3>2. after[i + 1] = Step(after[i], s[i + 1])
      BY <1>9, <3>1
    <3>3. after[i + 1] \in 0..9
      BY <2>2, <3>2, StepType
    <3> QED
      BY <1>2, <3>1, <3>3
  <2> HIDE DEF T
  <2>3. \A i \in 0..Len(s) : i \in T
    <3>1. 0 \in Int /\ Len(s) \in Int
      BY <1>2
    <3> QED
      BY <2>1, <2>2, <3>1, IntervalInduction, Zenon
  <2> QED
    BY <2>3 DEF T
<1>12. after \in [0..Len(s) -> 0..9]
  BY <1>10, <1>11
<1> QED
  BY <1>8, <1>9, <1>12 DEF IsTrace

\* A chunk has one trace from a state, and two chunks that begin alike have traces that
\* begin alike.
LEMMA TracesAgree ==
  ASSUME NEW q, NEW S, NEW s \in Seq(S), NEW t \in Seq(S), NEW f, NEW g,
         IsTrace(f, q, s), IsTrace(g, q, t),
         NEW k \in Nat, k <= Len(s), k <= Len(t), \A i \in 1..k : s[i] = t[i]
  PROVE  f[k] = g[k]
<1> DEFINE T == {i \in 0..k : f[i] = g[i]}
<1>1. Len(s) \in Nat /\ Len(t) \in Nat /\ 0 \in Int /\ k \in Int
  BY LenProperties
<1>2. 0 \in T
  BY <1>1 DEF IsTrace
<1>3. ASSUME NEW i \in 0..(k - 1), i \in T
      PROVE  i + 1 \in T
  <2>1. i + 1 \in 1..Len(s) /\ i + 1 \in 1..Len(t) /\ i + 1 \in 1..k /\ (i + 1) - 1 = i
    BY <1>1
  <2>2. f[i + 1] = Step(f[i], s[i + 1])
    BY <2>1 DEF IsTrace
  <2>3. g[i + 1] = Step(g[i], t[i + 1])
    BY <2>1 DEF IsTrace
  <2> QED
    BY <1>3, <2>1, <2>2, <2>3
<1> HIDE DEF T
<1>4. \A i \in 0..k : i \in T
  BY <1>1, <1>2, <1>3, IntervalInduction
<1>5. k \in T
  BY <1>4
<1> QED
  BY <1>5 DEF T

\* Any trace ends where the loop of validate does.
LEMMA RunEndsTrace ==
  ASSUME NEW S, NEW s \in Seq(S), NEW q \in 0..9, NEW after, IsTrace(after, q, s)
  PROVE  Run(q, s) = after[Len(s)]
<1>1. PICK f : IsTrace(f, q, s) /\ Run(q, s) = f[Len(s)]
  BY RunIsTrace
<1>2. Len(s) \in Nat /\ Len(s) <= Len(s)
  BY LenProperties
<1>3. f[Len(s)] = after[Len(s)]
  BY <1>1, <1>2, TracesAgree
<1> QED
  BY <1>1, <1>3

\* The loop of validate leaves a state or an error, whatever the octets or characters.
LEMMA RunType ==
  ASSUME NEW S, NEW s \in Seq(S), NEW q \in 0..9
  PROVE  Run(q, s) \in 0..9
<1>1. PICK f : IsTrace(f, q, s) /\ Run(q, s) = f[Len(s)]
  BY RunIsTrace
<1>2. Len(s) \in Nat /\ Len(s) \in 0..Len(s)
  BY LenProperties
<1> QED
  BY <1>1, <1>2 DEF IsTrace

\* An empty chunk leaves the state as it is.
LEMMA RunOfNothing ==
  ASSUME NEW q \in 0..9
  PROVE  Run(q, <<>>) = q
<1>1. <<>> \in Seq(0..9) /\ Len(<<>>) = 0
  BY EmptySeq
<1>2. PICK f : IsTrace(f, q, <<>>) /\ Run(q, <<>>) = f[Len(<<>>)]
  BY <1>1, RunIsTrace
<1> QED
  BY <1>1, <1>2 DEF IsTrace

\* Running over two chunks one after the other is running over them joined: the state is
\* all that validate keeps between two calls.
THEOREM RunInParts ==
  ASSUME NEW S, NEW s \in Seq(S), NEW t \in Seq(S), NEW q \in 0..9
  PROVE  Run(q, s \o t) = Run(Run(q, s), t)
<1>1. PICK f : IsTrace(f, q, s) /\ Run(q, s) = f[Len(s)]
  BY RunIsTrace
<1>2. Run(q, s) \in 0..9
  BY RunType
<1>3. PICK g : IsTrace(g, Run(q, s), t) /\ Run(Run(q, s), t) = g[Len(t)]
  BY <1>2, RunIsTrace
<1> DEFINE m == Len(s)  n == Len(t)
           h == [i \in 0..(m + n) |-> IF i <= m THEN f[i] ELSE g[i - m]]
<1>4. m \in Nat /\ n \in Nat
  BY LenProperties
<1>5. /\ s \o t \in Seq(S) /\ Len(s \o t) = m + n
      /\ \A i \in 1..(m + n) : (s \o t)[i] = IF i <= m THEN s[i] ELSE t[i - m]
  BY ConcatProperties
<1>6. /\ f \in [0..m -> 0..9] /\ f[0] = q /\ f[m] = Run(q, s)
      /\ \A i \in 1..m : f[i] = Step(f[i - 1], s[i])
  BY <1>1 DEF IsTrace
<1>7. /\ g \in [0..n -> 0..9] /\ g[0] = Run(q, s)
      /\ \A i \in 1..n : g[i] = Step(g[i - 1], t[i])
  BY <1>3 DEF IsTrace
<1> HIDE DEF m, n
<1>8. h \in [0..(m + n) -> 0..9]
  <2>1. \A i \in 0..(m + n) : (IF i <= m THEN f[i] ELSE g[i - m]) \in 0..9
    BY <1>4, <1>6, <1>7
  <2> QED
    BY <2>1
<1>9. h[0] = q
  BY <1>4, <1>6
<1>10. ASSUME NEW i \in 1..(m + n)
       PROVE  h[i] = Step(h[i - 1], (s \o t)[i])
  <2>1. CASE i <= m
    <3>1. i \in 1..m /\ h[i] = f[i] /\ h[i - 1] = f[i - 1]
      BY <1>4, <2>1
    <3> QED
      BY <1>5, <1>6, <2>1, <3>1
  <2>2. CASE i = m + 1
    <3>1. 1 \in 1..n /\ 1 - 1 = 0 /\ i - m = 1 /\ i - 1 = m /\ i - 1 \in 0..(m + n) /\ i \in 0..(m + n) /\ ~(i <= m)
      BY <1>4, <2>2
    <3>2. h[i] = g[1] /\ h[i - 1] = f[m]
      BY <1>4, <3>1
    <3>3. g[1] = Step(g[0], t[1])
      BY <1>7, <3>1
    <3> QED
      BY <1>5, <1>6, <1>7, <3>1, <3>2, <3>3
  <2>3. CASE i > m + 1
    <3>1. i - m \in 1..n /\ (i - m) - 1 = (i - 1) - m /\ i - 1 \in 0..(m + n) /\ i \in 0..(m + n)
          /\ ~(i <= m) /\ ~(i - 1 <= m)
      BY <1>4, <2>3
    <3>2. h[i] = g[i - m] /\ h[i - 1] = g[(i - m) - 1]
      BY <1>4, <3>1
    <3> QED
      BY <1>5, <1>7, <3>1, <3>2
  <2>4. i <= m \/ i = m + 1 \/ i > m + 1
    BY <1>4
  <2> QED
    BY <2>1, <2>2, <2>3, <2>4
<1>11. h[m + n] = g[n]
  <2>1. CASE n = 0
    BY <1>4, <1>6, <1>7, <2>1
  <2>2. CASE n > 0
    BY <1>4, <2>2
  <2> QED
    BY <1>4, <2>1, <2>2
<1> HIDE DEF h
<1>12. IsTrace(h, q, s \o t)
  BY <1>5, <1>8, <1>9, <1>10 DEF IsTrace
<1>13. Run(q, s \o t) = h[Len(s \o t)]
  BY <1>5, <1>12, RunEndsTrace
<1> QED
  BY <1>3, <1>5, <1>11, <1>13 DEF n

-----------------------------------------------------------------------------
\* Where characters start is what Starts says: at the first position, and where one that
\* starts before it ends.
LEMMA StartsAre ==
  ASSUME NEW S, NEW s \in Seq(S)
  PROVE  /\ Starts(s) \subseteq 1..(Len(s) + 1)
         /\ \A i \in 1..(Len(s) + 1) :
              i \in Starts(s) <=> i = 1 \/ \E w \in 1..4 : w < i /\ Width(s, i - w) = w /\ i - w \in Starts(s)
<1> DEFINE N == Len(s) + 1
           IsClosed(C) == 1 \in C /\ \A i \in C : \A w \in 1..4 : i + w \in 1..N /\ Width(s, i) = w => i + w \in C
           D == {i \in 1..N : \A C \in SUBSET (1..N) : IsClosed(C) => i \in C}
           Body(start) == [i \in 1..N |-> i = 1 \/ \E w \in 1..4 : w < i /\ Width(s, i - w) = w /\ start[i - w]]
           least == [i \in 1..N |-> i \in D]
           start == CHOOSE f : f = Body(f)
<1>1. N \in Nat /\ N >= 1
  BY LenProperties
<1>2. \A i \in 1..N : i \in D <=> i = 1 \/ \E w \in 1..4 : w < i /\ Width(s, i - w) = w /\ i - w \in D
  <2> TAKE i \in 1..N
  <2> HIDE DEF N
  <2>1. IsClosed(D)
    BY <1>1
  <2>2. ASSUME i = 1 \/ \E w \in 1..4 : w < i /\ Width(s, i - w) = w /\ i - w \in D
        PROVE  i \in D
    <3>1. CASE i = 1
      BY <2>1, <3>1
    <3>2. ASSUME NEW w \in 1..4, w < i, Width(s, i - w) = w, i - w \in D
          PROVE  i \in D
      <4>1. (i - w) + w = i
        BY <1>1
      <4> HIDE DEF D
      <4> QED
        BY <2>1, <3>2, <4>1
    <3> QED
      BY <2>2, <3>1, <3>2
  <2>3. ASSUME i \in D, i # 1, ~ \E w \in 1..4 : w < i /\ Width(s, i - w) = w /\ i - w \in D
        PROVE  FALSE
    <3> DEFINE C == D \ {i}
    <3>1. C \in SUBSET (1..N)
      OBVIOUS
    <3>2. 1 \in C
      BY <2>1, <2>3
    <3>3. ASSUME NEW j \in C, NEW w \in 1..4, j + w \in 1..N, Width(s, j) = w
          PROVE  j + w \in C
      <4>1. j \in D /\ j \in 1..N
        OBVIOUS
      <4> HIDE DEF D
      <4>2. j + w \in D
        BY <2>1, <3>3, <4>1
      <4>3. j + w # i
        <5>1. ASSUME j + w = i
              PROVE  FALSE
          <6>1. i - w = j /\ w < i
            BY <1>1, <4>1, <5>1
          <6> QED
            BY <2>3, <3>3, <4>1, <6>1
        <5> QED
          BY <5>1
      <4> QED
        BY <4>2, <4>3
    <3>4. IsClosed(C)
      BY <3>2, <3>3
    <3>5. i \notin C
      OBVIOUS
    <3> HIDE DEF C, IsClosed
    <3> QED
      BY <2>3, <3>1, <3>4, <3>5
  <2> QED
    BY <2>2, <2>3
<1> HIDE DEF D
<1>3. least = Body(least)
  <2>1. ASSUME NEW i \in 1..N
        PROVE  (i \in D) = (i = 1 \/ \E w \in 1..4 : w < i /\ Width(s, i - w) = w /\ least[i - w])
    <3>1. \A w \in 1..4 : w < i => i - w \in 1..N
      BY <1>1
    <3>2. \A w \in 1..4 : w < i => least[i - w] = (i - w \in D)
      BY <3>1
    <3> HIDE DEF least
    <3>3. (\E w \in 1..4 : w < i /\ Width(s, i - w) = w /\ least[i - w])
            <=> (\E w \in 1..4 : w < i /\ Width(s, i - w) = w /\ i - w \in D)
      BY <3>2, Zenon
    <3>4. (i \in D) <=> (i = 1 \/ \E w \in 1..4 : w < i /\ Width(s, i - w) = w /\ least[i - w])
      BY <1>2, <3>3, Zenon
    <3> QED
      BY <3>4
  <2> QED
    BY <2>1
<1>4. start = Body(start)
  BY <1>3, Zenon
<1>5. Starts(s) = {i \in 1..N : start[i]}
  BY DEF Starts
<1> HIDE DEF start, N
<1>6. \A i \in 1..N : start[i] = (i = 1 \/ \E w \in 1..4 : w < i /\ Width(s, i - w) = w /\ start[i - w])
  BY <1>4
<1>7. \A i \in 1..N : i \in Starts(s) <=> start[i]
  BY <1>5
<1>8. ASSUME NEW i \in 1..N
      PROVE  i \in Starts(s) <=> i = 1 \/ \E w \in 1..4 : w < i /\ Width(s, i - w) = w /\ i - w \in Starts(s)
  <2>1. \A w \in 1..4 : w < i => i - w \in 1..N
    BY <1>1
  <2> QED
    BY <1>6, <1>7, <2>1
<1> QED
  BY <1>5, <1>8 DEF N

-----------------------------------------------------------------------------
\* The automaton and Python's decoder.

\* The second octet of a character of three or four, after its first.
Second(lead) ==
  CASE lead = 224 -> 160..191
    [] lead = 237 -> 128..159
    [] lead = 240 -> 144..191
    [] lead = 244 -> 128..143
    [] OTHER -> 128..191

\* Width as a function of the four octets at p, p + 1, p + 2 and p + 3.
WidthOf(lead, x, y, z, p, len) ==
  LET Within(k, c, low, high) == p + k <= len /\ c \in low..high
  IN  CASE lead \in 0..127 -> 1
        [] lead \in 194..223 /\ Within(1, x, 128, 191) -> 2
        [] /\ lead \in 224..239 /\ Within(2, y, 128, 191)
           /\ Within(1, x, IF lead = 224 THEN 160 ELSE 128, IF lead = 237 THEN 159 ELSE 191) -> 3
        [] /\ lead \in 240..244 /\ Within(2, y, 128, 191) /\ Within(3, z, 128, 191)
           /\ Within(1, x, IF lead = 240 THEN 144 ELSE 128, IF lead = 244 THEN 143 ELSE 191) -> 4
        [] OTHER -> 0

\* What each width says of the octets.
IsWidth(w, lead, x, y, z, p, len) ==
  /\ w = 1 <=> lead \in 0..127
  /\ w = 2 <=> lead \in 194..223 /\ p + 1 <= len /\ x \in 128..191
  /\ w = 3 <=> /\ lead \in 224..239 /\ p + 2 <= len
               /\ x \in Second(lead) /\ y \in 128..191
  /\ w = 4 <=> /\ lead \in 240..244 /\ p + 3 <= len
               /\ x \in Second(lead) /\ y \in 128..191 /\ z \in 128..191

\* The widths as equivalences, of the four octets and the length.
LEMMA WidthsOf ==
  ASSUME NEW lead \in 0..255, NEW x, NEW y, NEW z, NEW p \in Nat, NEW len \in Nat,
         NEW w, w = WidthOf(lead, x, y, z, p, len)
  PROVE  IsWidth(w, lead, x, y, z, p, len)
<1>2. lead \in 0..127 => w = 1
  BY DEF WidthOf
<1>3. lead \in 128..193 \/ lead \in 245..255 => w = 0
  BY SMTT(30) DEF WidthOf
<1>4. lead \in 194..223 => w = IF p + 1 <= len /\ x \in 128..191 THEN 2 ELSE 0
  BY DEF WidthOf
<1>5. ASSUME lead \in 224..239
      PROVE  w = IF /\ p + 2 <= len /\ x \in Second(lead) /\ y \in 128..191 THEN 3 ELSE 0
  <2>1. CASE lead = 224
    BY <2>1 DEF WidthOf, Second
  <2>2. CASE lead = 237
    BY <2>2 DEF WidthOf, Second
  <2>3. CASE lead \in 225..236 \/ lead \in 238..239
    BY <2>3 DEF WidthOf, Second
  <2> QED
    BY <1>5, <2>1, <2>2, <2>3
<1>6. ASSUME lead \in 240..244
      PROVE  w = IF /\ p + 3 <= len /\ x \in Second(lead) /\ y \in 128..191 /\ z \in 128..191
                 THEN 4 ELSE 0
  <2>1. CASE lead = 240
    BY <2>1 DEF WidthOf, Second
  <2>2. CASE lead = 244
    BY <2>2 DEF WidthOf, Second
  <2>3. CASE lead \in 241..243
    BY <2>3 DEF WidthOf, Second
  <2> QED
    BY <1>6, <2>1, <2>2, <2>3
<1> QED
  BY <1>2, <1>3, <1>4, <1>5, <1>6 DEF IsWidth

\* The widths as equivalences, of a text and a position.
LEMMA Widths ==
  ASSUME NEW s \in Seq(0..255), NEW p \in 1..Len(s)
  PROVE  /\ Width(s, p) = 1 <=> s[p] \in 0..127
         /\ Width(s, p) = 2 <=> s[p] \in 194..223 /\ p + 1 <= Len(s) /\ s[p + 1] \in 128..191
         /\ Width(s, p) = 3 <=> /\ s[p] \in 224..239 /\ p + 2 <= Len(s)
                                /\ s[p + 1] \in Second(s[p]) /\ s[p + 2] \in 128..191
         /\ Width(s, p) = 4 <=> /\ s[p] \in 240..244 /\ p + 3 <= Len(s)
                                /\ s[p + 1] \in Second(s[p]) /\ s[p + 2] \in 128..191 /\ s[p + 3] \in 128..191
<1>1. s[p] \in 0..255 /\ Len(s) \in Nat /\ p \in Nat
  BY LenProperties, ElementOfSeq
<1>2. Width(s, p) = WidthOf(s[p], s[p + 1], s[p + 2], s[p + 3], p, Len(s))
  BY DEF Width, WidthOf
<1> DEFINE w == Width(s, p)
<1> HIDE DEF w
<1>3. w = WidthOf(s[p], s[p + 1], s[p + 2], s[p + 3], p, Len(s))
  BY <1>2 DEF w
<1>4. IsWidth(w, s[p], s[p + 1], s[p + 2], s[p + 3], p, Len(s))
  BY <1>1, <1>3, WidthsOf
<1> QED
  BY <1>4 DEF IsWidth, w

\* What the first octet b of a character leads to.
IsLead(b, q) ==
  /\ q \in 0..8
  /\ q = 0 <=> b \in 0..127
  /\ q = 2 <=> b \in 194..223
  /\ q \in 3..5 <=> b \in 224..239
  /\ q \in 6..8 <=> b \in 240..244
  /\ q \in 3..8 => Second(b) = Follows(q)

\* The first octet of a character takes the automaton to where IsLead says.
LEMMA LeadStep ==
  ASSUME NEW b \in 0..255, NEW q, q = Step(UTF8_ACCEPT, b)
  PROVE  IsLead(b, q)
<1>1. q = CASE b \in 0..127 -> 0
            [] b \in 194..223 -> 2
            [] b \in 225..239 \ {237} -> 3
            [] b = 224 -> 4
            [] b = 237 -> 5
            [] b = 240 -> 6
            [] b \in 241..243 -> 7
            [] b = 244 -> 8
            [] OTHER -> UTF8_REJECT
  BY StepFromAccept
<1>2. b \in 0..127 => q = 0
  BY <1>1
<1>3. b \in 128..193 => q = 1
  BY <1>1 DEF UTF8_REJECT
<1>4. b \in 194..223 => q = 2
  BY <1>1
<1>5. b = 224 => q = 4 /\ Second(b) = Follows(q)
  BY <1>1 DEF Second, Follows
<1>6. b \in 225..236 => q = 3 /\ Second(b) = Follows(q)
  BY <1>1 DEF Second, Follows
<1>7. b = 237 => q = 5 /\ Second(b) = Follows(q)
  BY <1>1 DEF Second, Follows
<1>8. b \in 238..239 => q = 3 /\ Second(b) = Follows(q)
  BY <1>1 DEF Second, Follows
<1>9. b = 240 => q = 6 /\ Second(b) = Follows(q)
  BY <1>1 DEF Second, Follows
<1>10. b \in 241..243 => q = 7 /\ Second(b) = Follows(q)
  BY <1>1 DEF Second, Follows
<1>11. b = 244 => q = 8 /\ Second(b) = Follows(q)
  BY <1>1 DEF Second, Follows
<1>12. b \in 245..255 => q = 1
  BY <1>1 DEF UTF8_REJECT
<1> QED
  BY <1>2, <1>3, <1>4, <1>5, <1>6, <1>7, <1>8, <1>9, <1>10, <1>11, <1>12 DEF IsLead

\* The last octet of a character, and the one before it in most characters of three.
LEMMA LastOctets ==
  ASSUME NEW b \in 128..191
  PROVE  Step(2, b) = UTF8_ACCEPT /\ Step(3, b) = 2
<1>1. ASSUME NEW q \in 2..8, q = 2 \/ q = 3
      PROVE  Step(q, b) = IF q = 2 THEN UTF8_ACCEPT ELSE 2
  <2>1. b \in Follows(q) /\ Onward(q) = IF q = 2 THEN UTF8_ACCEPT ELSE 2
    BY <1>1 DEF Follows, Onward, UTF8_ACCEPT
  <2> QED
    BY <2>1, StepInside
<1>2. 2 \in 2..8 /\ 3 \in 2..8
  OBVIOUS
<1> QED
  BY <1>1, <1>2

\* The steps of the automaton through a text.
LEMMA TraceStep ==
  ASSUME NEW s \in Seq(0..255), NEW f, IsTrace(f, UTF8_ACCEPT, s), NEW i \in 1..Len(s)
  PROVE  /\ s[i] \in 0..255
         /\ f[i - 1] = UTF8_ACCEPT => f[i] = Step(UTF8_ACCEPT, s[i])
         /\ f[i - 1] = UTF8_REJECT => f[i] = UTF8_REJECT
         /\ f[i - 1] \in 2..8 =>
              f[i] = IF s[i] \in Follows(f[i - 1]) THEN Onward(f[i - 1]) ELSE UTF8_REJECT
         /\ f[i - 1] = 2 /\ s[i] \in 128..191 => f[i] = UTF8_ACCEPT
         /\ f[i - 1] = 3 /\ s[i] \in 128..191 => f[i] = 2
<1>1. s[i] \in 0..255
  BY LenProperties, ElementOfSeq
<1>2. f[i] = Step(f[i - 1], s[i])
  BY DEF IsTrace
<1>3. f[i - 1] = UTF8_REJECT => f[i] = UTF8_REJECT
  BY <1>2 DEF Step
<1>4. ASSUME f[i - 1] \in 2..8
      PROVE  f[i] = IF s[i] \in Follows(f[i - 1]) THEN Onward(f[i - 1]) ELSE UTF8_REJECT
  BY <1>1, <1>2, <1>4, StepInside
<1>5. ASSUME f[i - 1] = 2, s[i] \in 128..191
      PROVE  f[i] = UTF8_ACCEPT
  <2>1. f[i] = Step(2, s[i])
    BY <1>2, <1>5
  <2> QED
    BY <1>1, <1>5, <2>1, StepInside, LastOctets
<1>6. ASSUME f[i - 1] = 3, s[i] \in 128..191
      PROVE  f[i] = 2
  <2>1. f[i] = Step(3, s[i])
    BY <1>2, <1>6
  <2> QED
    BY <1>1, <1>6, <2>1, StepInside, LastOctets
<1> QED
  BY <1>1, <1>2, <1>3, <1>4, <1>5, <1>6

\* The automaton accepts each character of Python's: from the state before its first
\* octet, back to it after its last.
LEMMA CharacterAccepted ==
  ASSUME NEW s \in Seq(0..255), NEW f, IsTrace(f, UTF8_ACCEPT, s),
         NEW p \in 1..Len(s), NEW w \in 1..4, Width(s, p) = w, f[p - 1] = UTF8_ACCEPT
  PROVE  f[(p + w) - 1] = UTF8_ACCEPT
<1> DEFINE b == s[p]
<1>1. Len(s) \in Nat /\ p \in Nat
  BY LenProperties
<1>2. b \in 0..255 /\ f[p] = Step(UTF8_ACCEPT, b)
  BY TraceStep
<1>3. /\ f[p] = 0 <=> b \in 0..127
      /\ f[p] = 2 <=> b \in 194..223
      /\ f[p] \in 3..5 <=> b \in 224..239
      /\ f[p] \in 6..8 <=> b \in 240..244
      /\ f[p] \in 3..8 => Second(b) = Follows(f[p])
  <2>1. IsLead(b, f[p])
    BY <1>2, LeadStep
  <2> QED
    BY <2>1 DEF IsLead
<1>4. CASE w = 1
  <2>1. b \in 0..127
    BY <1>4, Widths
  <2>2. (p + w) - 1 = p
    BY <1>1, <1>4
  <2> QED
    BY <1>3, <2>1, <2>2 DEF UTF8_ACCEPT
<1>5. CASE w = 2
  <2>1. b \in 194..223 /\ p + 1 <= Len(s) /\ s[p + 1] \in 128..191
    BY <1>5, Widths
  <2>2. (p + w) - 1 = p + 1 /\ p + 1 \in 1..Len(s) /\ (p + 1) - 1 = p
    BY <1>1, <1>5, <2>1
  <2>3. f[p] = 2
    BY <1>3, <2>1
  <2>4. f[p + 1] = UTF8_ACCEPT
    BY <2>1, <2>2, <2>3, TraceStep
  <2> QED
    BY <2>2, <2>4
<1>6. CASE w = 3
  <2>1. b \in 224..239 /\ p + 2 <= Len(s) /\ s[p + 1] \in Second(b) /\ s[p + 2] \in 128..191
    BY <1>6, Widths
  <2>2. /\ (p + w) - 1 = p + 2 /\ p + 1 \in 1..Len(s) /\ (p + 1) - 1 = p
        /\ p + 2 \in 1..Len(s) /\ (p + 2) - 1 = p + 1
    BY <1>1, <1>6, <2>1
  <2>3. f[p] \in 3..5 /\ Second(b) = Follows(f[p])
    BY <1>3, <2>1
  <2>4. f[p + 1] = Onward(f[p])
    BY <2>1, <2>2, <2>3, TraceStep
  <2>5. f[p + 1] = 2
    BY <2>3, <2>4 DEF Onward
  <2>6. f[p + 2] = UTF8_ACCEPT
    BY <2>1, <2>2, <2>5, TraceStep
  <2> QED
    BY <2>2, <2>6
<1>7. CASE w = 4
  <2>1. /\ b \in 240..244 /\ p + 3 <= Len(s)
        /\ s[p + 1] \in Second(b) /\ s[p + 2] \in 128..191 /\ s[p + 3] \in 128..191
    BY <1>7, Widths
  <2>2. /\ (p + w) - 1 = p + 3 /\ p + 1 \in 1..Len(s) /\ (p + 1) - 1 = p
        /\ p + 2 \in 1..Len(s) /\ (p + 2) - 1 = p + 1 /\ p + 3 \in 1..Len(s) /\ (p + 3) - 1 = p + 2
    BY <1>1, <1>7, <2>1
  <2>3. f[p] \in 6..8 /\ Second(b) = Follows(f[p])
    BY <1>3, <2>1
  <2>4. f[p + 1] = Onward(f[p])
    BY <2>1, <2>2, <2>3, TraceStep
  <2>5. f[p + 1] = 3
    BY <2>3, <2>4 DEF Onward
  <2>6. f[p + 2] = 2
    BY <2>1, <2>2, <2>5, TraceStep
  <2>7. f[p + 3] = UTF8_ACCEPT
    BY <2>1, <2>2, <2>6, TraceStep
  <2> QED
    BY <2>2, <2>7
<1> QED
  BY <1>4, <1>5, <1>6, <1>7

\* Every position where a character starts finds the automaton between two characters.
LEMMA StartsAccepted ==
  ASSUME NEW s \in Seq(0..255), NEW f, IsTrace(f, UTF8_ACCEPT, s)
  PROVE  \A i \in Starts(s) : f[i - 1] = UTF8_ACCEPT
<1> DEFINE N == Len(s) + 1
           T == {k \in 0..N : \A i \in Starts(s) : i <= k => f[i - 1] = UTF8_ACCEPT}
<1>1. N \in Nat /\ N >= 1 /\ Len(s) = N - 1
  BY LenProperties
<1>2. Starts(s) \subseteq 1..N
  BY StartsAre
<1>3. 0 \in T
  BY <1>1, <1>2
<1>4. ASSUME NEW k \in 0..(N - 1), k \in T
      PROVE  k + 1 \in T
  <2> SUFFICES ASSUME NEW i \in Starts(s), i <= k + 1
               PROVE  f[i - 1] = UTF8_ACCEPT
    BY <1>1, <1>4
  <2>1. CASE i <= k
    BY <1>4, <2>1
  <2>2. CASE i = 1
    BY <2>2 DEF IsTrace
  <2>3. CASE i = k + 1 /\ i # 1
    <3>1. PICK w \in 1..4 : w < i /\ Width(s, i - w) = w /\ i - w \in Starts(s)
      BY <1>2, <2>3, StartsAre
    <3>2. i - w <= k /\ i - w \in 1..Len(s) /\ (i - w) + w = i
      BY <1>1, <1>2, <2>3, <3>1
    <3>3. f[(i - w) - 1] = UTF8_ACCEPT
      BY <1>4, <3>1, <3>2
    <3> DEFINE p == i - w
    <3>4. p \in 1..Len(s) /\ Width(s, p) = w /\ f[p - 1] = UTF8_ACCEPT
      BY <3>1, <3>2, <3>3
    <3> HIDE DEF p
    <3>5. f[(p + w) - 1] = UTF8_ACCEPT
      BY <3>4, CharacterAccepted
    <3> QED
      BY <3>2, <3>5 DEF p
  <2> QED
    BY <1>1, <1>2, <2>1, <2>2, <2>3
<1> HIDE DEF T, N
<1>5. \A k \in 0..N : k \in T
  <2>1. 0 \in Int /\ N \in Int
    BY <1>1
  <2> QED
    BY <1>3, <1>4, <2>1, IntervalInduction
<1>6. N \in T
  BY <1>1, <1>5
<1> QED
  BY <1>1, <1>2, <1>6 DEF T

\* What the octets up to i say of the state q that the automaton is in: between two
\* characters, rejecting, one octet before the end of a character, behind the first
\* octet of three or of four, or behind the second of four.
Inside(s, i, q) ==
  \/ q = 0 /\ i + 1 \in Starts(s)
  \/ q = UTF8_REJECT
  \/ q = 2 /\ i \in Starts(s) /\ s[i] \in 194..223
  \/ q = 2 /\ i - 1 \in Starts(s) /\ s[i - 1] \in 224..239 /\ s[i] \in Second(s[i - 1])
  \/ /\ q = 2 /\ i - 2 \in Starts(s) /\ s[i - 2] \in 240..244
     /\ s[i - 1] \in Second(s[i - 2]) /\ s[i] \in 128..191
  \/ q \in 3..5 /\ i \in Starts(s) /\ s[i] \in 224..239 /\ Second(s[i]) = Follows(q)
  \/ q \in 6..8 /\ i \in Starts(s) /\ s[i] \in 240..244 /\ Second(s[i]) = Follows(q)
  \/ q = 3 /\ i - 1 \in Starts(s) /\ s[i - 1] \in 240..244 /\ s[i] \in Second(s[i - 1])

\* When the automaton is between two characters, the next position starts one.
LEMMA EndStarts ==
  ASSUME NEW s \in Seq(0..255), NEW p \in Starts(s), p <= Len(s), NEW w \in 1..4, Width(s, p) = w,
         p + w <= Len(s) + 1
  PROVE  p + w \in Starts(s)
<1>1. p \in 1..Len(s) /\ Len(s) \in Nat
  BY StartsAre, LenProperties
<1> DEFINE i == p + w
<1>2. i \in 1..(Len(s) + 1) /\ w < i /\ i - w = p
  BY <1>1
<1> HIDE DEF i
<1>3. \E v \in 1..4 : v < i /\ Width(s, i - v) = v /\ i - v \in Starts(s)
  BY <1>2
<1>4. i \in Starts(s)
  BY <1>2, <1>3, StartsAre
<1> QED
  BY <1>4 DEF i

\* What Inside says survives every octet.
LEMMA InsideStep ==
  ASSUME NEW s \in Seq(0..255), NEW f, IsTrace(f, UTF8_ACCEPT, s),
         NEW i \in 0..(Len(s) - 1), Inside(s, i, f[i])
  PROVE  Inside(s, i + 1, f[i + 1])
<1> DEFINE j == i + 1  b == s[j]  q == f[j]
<1>1. Len(s) \in Nat /\ i \in Nat /\ j \in 1..Len(s) /\ j - 1 = i /\ j - 2 = i - 1 /\ (j + 1) - 1 = j
  BY LenProperties
<1>2. \A p \in Starts(s) : p \in Nat /\ p >= 1
  BY <1>1, StartsAre
<1>3. /\ b \in 0..255
      /\ f[i] = UTF8_ACCEPT => q = Step(UTF8_ACCEPT, b)
      /\ f[i] = UTF8_REJECT => q = UTF8_REJECT
      /\ f[i] \in 2..8 => q = IF b \in Follows(f[i]) THEN Onward(f[i]) ELSE UTF8_REJECT
  BY <1>1, TraceStep
<1> HIDE DEF b, q
<1>4. CASE f[i] = 0 /\ j \in Starts(s)
  <2>1. IsLead(b, q)
    BY <1>3, <1>4, LeadStep DEF UTF8_ACCEPT
  <2>2. CASE q = 0
    <3>1. b \in 0..127
      BY <2>1, <2>2 DEF IsLead
    <3>2. Width(s, j) = 1
      BY <1>1, <3>1, Widths DEF b
    <3>3. j + 1 \in Starts(s)
      BY <1>1, <1>4, <3>2, EndStarts
    <3> QED
      BY <2>2, <3>3 DEF Inside, q
  <2>3. CASE q = 1
    BY <2>3 DEF Inside, UTF8_REJECT, q
  <2>4. CASE q = 2
    BY <1>4, <2>1, <2>4 DEF Inside, IsLead, q, b
  <2>5. CASE q \in 3..5
    BY <1>4, <2>1, <2>5 DEF Inside, IsLead, q, b
  <2>6. CASE q \in 6..8
    BY <1>4, <2>1, <2>6 DEF Inside, IsLead, q, b
  <2> QED
    BY <2>1, <2>2, <2>3, <2>4, <2>5, <2>6 DEF IsLead
<1>5. CASE f[i] = UTF8_REJECT
  BY <1>3, <1>5 DEF Inside, q
<1>6. CASE q = UTF8_REJECT
  BY <1>6 DEF Inside, q
<1>7. CASE f[i] = 2 /\ q # UTF8_REJECT
  <2>1. b \in 128..191 /\ q = 0
    BY <1>3, <1>7 DEF Follows, Onward
  <2>2. ASSUME j + 1 \in Starts(s)
        PROVE  Inside(s, j, q)
    BY <2>1, <2>2 DEF Inside
  <2>3. CASE i \in Starts(s) /\ s[i] \in 194..223
    <3>1. i \in 1..Len(s) /\ i + 1 = j
      BY <1>1, <1>2, <2>3
    <3>2. Width(s, i) = 2
      BY <1>1, <2>1, <2>3, <3>1, Widths DEF b
    <3>3. i + 2 = j + 1 /\ i + 2 <= Len(s) + 1 /\ i <= Len(s)
      BY <1>1, <3>1
    <3> QED
      BY <2>2, <2>3, <3>2, <3>3, EndStarts DEF q
  <2>4. CASE i - 1 \in Starts(s) /\ s[i - 1] \in 224..239 /\ s[i] \in Second(s[i - 1])
    <3> DEFINE p == i - 1
    <3>1. p \in 1..Len(s) /\ p + 1 = i /\ p + 2 = j
      BY <1>1, <1>2, <2>4
    <3> HIDE DEF p
    <3>2. p \in Starts(s) /\ s[p] \in 224..239 /\ s[p + 1] \in Second(s[p]) /\ s[p + 2] \in 128..191
      BY <2>1, <2>4, <3>1 DEF p, b
    <3>3. Width(s, p) = 3
      BY <1>1, <3>1, <3>2, Widths
    <3>4. p + 3 = j + 1 /\ p + 3 <= Len(s) + 1 /\ p <= Len(s)
      BY <1>1, <3>1
    <3> QED
      BY <2>2, <3>2, <3>3, <3>4, EndStarts DEF q
  <2>5. CASE /\ i - 2 \in Starts(s) /\ s[i - 2] \in 240..244
             /\ s[i - 1] \in Second(s[i - 2]) /\ s[i] \in 128..191
    <3> DEFINE p == i - 2
    <3>1. p \in 1..Len(s) /\ p + 1 = i - 1 /\ p + 2 = i /\ p + 3 = j
      BY <1>1, <1>2, <2>5
    <3> HIDE DEF p
    <3>2. /\ p \in Starts(s) /\ s[p] \in 240..244 /\ s[p + 1] \in Second(s[p])
          /\ s[p + 2] \in 128..191 /\ s[p + 3] \in 128..191
      BY <2>1, <2>5, <3>1 DEF p, b
    <3>3. Width(s, p) = 4
      BY <1>1, <3>1, <3>2, Widths
    <3>4. p + 4 = j + 1 /\ p + 4 <= Len(s) + 1 /\ p <= Len(s)
      BY <1>1, <3>1
    <3> QED
      BY <2>2, <3>2, <3>3, <3>4, EndStarts DEF q
  <2> QED
    BY <1>7, <2>3, <2>4, <2>5 DEF Inside, UTF8_REJECT
<1>8. CASE f[i] \in 3..5 /\ i \in Starts(s) /\ s[i] \in 224..239 /\ Second(s[i]) = Follows(f[i]) /\ q # UTF8_REJECT
  <2>1. b \in Second(s[i]) /\ q = Onward(f[i])
    BY <1>3, <1>8
  <2>2. q = 2
    BY <1>8, <2>1 DEF Onward
  <2> QED
    BY <1>1, <1>8, <2>1, <2>2 DEF Inside, q, b
<1>9. CASE f[i] \in 6..8 /\ i \in Starts(s) /\ s[i] \in 240..244 /\ Second(s[i]) = Follows(f[i]) /\ q # UTF8_REJECT
  <2>1. b \in Second(s[i]) /\ q = Onward(f[i])
    BY <1>3, <1>9
  <2>2. q = 3
    BY <1>9, <2>1 DEF Onward
  <2> QED
    BY <1>1, <1>9, <2>1, <2>2 DEF Inside, q, b
<1>10. CASE f[i] = 3 /\ i - 1 \in Starts(s) /\ s[i - 1] \in 240..244 /\ s[i] \in Second(s[i - 1]) /\ q # UTF8_REJECT
  <2>1. b \in 128..191 /\ q = 2
    BY <1>3, <1>10 DEF Follows, Onward
  <2> QED
    BY <1>1, <1>10, <2>1 DEF Inside, q, b
<1>11. \/ f[i] = 0 /\ j \in Starts(s)
       \/ f[i] = UTF8_REJECT
       \/ f[i] = 2
       \/ f[i] \in 3..5 /\ i \in Starts(s) /\ s[i] \in 224..239 /\ Second(s[i]) = Follows(f[i])
       \/ f[i] \in 6..8 /\ i \in Starts(s) /\ s[i] \in 240..244 /\ Second(s[i]) = Follows(f[i])
       \/ f[i] = 3 /\ i - 1 \in Starts(s) /\ s[i - 1] \in 240..244 /\ s[i] \in Second(s[i - 1])
  BY DEF Inside
<1> QED
  BY <1>4, <1>5, <1>6, <1>7, <1>8, <1>9, <1>10, <1>11

\* The automaton accepts exactly what Python decodes.
THEOREM AcceptsUtf8 ==
  ASSUME NEW s \in Seq(0..255)
  PROVE  Run(UTF8_ACCEPT, s) = UTF8_ACCEPT <=> IsWellFormed(s)
<1>0. UTF8_ACCEPT \in 0..9 /\ UTF8_ACCEPT = 0
  BY DEF UTF8_ACCEPT
<1>1. PICK f : IsTrace(f, UTF8_ACCEPT, s) /\ Run(UTF8_ACCEPT, s) = f[Len(s)]
  BY <1>0, RunIsTrace
<1>2. Len(s) \in Nat /\ (Len(s) + 1) - 1 = Len(s)
  BY LenProperties
<1>3. ASSUME IsWellFormed(s)
      PROVE  f[Len(s)] = UTF8_ACCEPT
  <2>1. \A i \in Starts(s) : f[i - 1] = UTF8_ACCEPT
    BY <1>1, StartsAccepted
  <2> QED
    BY <1>2, <1>3, <2>1 DEF IsWellFormed
<1>4. \A i \in 0..Len(s) : Inside(s, i, f[i])
  <2> DEFINE T == {i \in 0..Len(s) : Inside(s, i, f[i])}
  <2>1. 0 \in T
    <3>1. 1 \in Starts(s)
      BY <1>2, StartsAre
    <3>2. f[0] = 0
      BY <1>0, <1>1 DEF IsTrace
    <3> QED
      BY <1>2, <3>1, <3>2 DEF Inside
  <2>2. ASSUME NEW i \in 0..(Len(s) - 1), i \in T
        PROVE  i + 1 \in T
    <3>1. Inside(s, i + 1, f[i + 1])
      BY <1>1, <2>2, InsideStep
    <3> QED
      BY <1>2, <3>1
  <2>3. 0 \in Int /\ Len(s) \in Int
    BY <1>2
  <2> HIDE DEF T
  <2>4. \A i \in 0..Len(s) : i \in T
    BY <2>1, <2>2, <2>3, IntervalInduction
  <2> QED
    BY <2>4 DEF T
<1>5. ASSUME f[Len(s)] = UTF8_ACCEPT
      PROVE  IsWellFormed(s)
  <2>1. Inside(s, Len(s), 0)
    BY <1>0, <1>2, <1>4, <1>5
  <2> QED
    BY <2>1 DEF Inside, IsWellFormed, UTF8_REJECT
<1> QED
  BY <1>1, <1>3, <1>5

\* Texts one after the other are a text.
THEOREM WellFormedJoined ==
  ASSUME NEW s \in Seq(0..255), NEW t \in Seq(0..255), IsWellFormed(s), IsWellFormed(t)
  PROVE  IsWellFormed(s \o t)
<1>1. Run(UTF8_ACCEPT, s) = UTF8_ACCEPT /\ Run(UTF8_ACCEPT, t) = UTF8_ACCEPT
  BY AcceptsUtf8
<1>2. UTF8_ACCEPT \in 0..9
  BY DEF UTF8_ACCEPT
<1>3. s \o t \in Seq(0..255)
  BY ConcatProperties
<1>4. Run(UTF8_ACCEPT, s \o t) = UTF8_ACCEPT
  BY <1>1, <1>2, RunInParts
<1> QED
  BY <1>3, <1>4, AcceptsUtf8

\* The loop of validate on one octet is one step.
LEMMA RunOctet ==
  ASSUME NEW q \in 0..9, NEW b \in 0..255
  PROVE  Run(q, <<b>>) = Step(q, b)
<1>1. <<b>> \in Seq(0..255) /\ Len(<<b>>) = 1 /\ <<b>>[1] = b
  OBVIOUS
<1>2. PICK f : IsTrace(f, q, <<b>>) /\ Run(q, <<b>>) = f[Len(<<b>>)]
  BY <1>1, RunIsTrace
<1> QED
  BY <1>1, <1>2 DEF IsTrace

\* Once it has rejected it goes on to reject.
LEMMA RejectionStays ==
  ASSUME NEW S, NEW s \in Seq(S), NEW q \in {UTF8_REJECT, OutOfTable}
  PROVE  Run(q, s) = q
<1>1. q \in 0..9
  BY DEF UTF8_REJECT, OutOfTable
<1>2. PICK f : IsTrace(f, q, s) /\ Run(q, s) = f[Len(s)]
  BY <1>1, RunIsTrace
<1> DEFINE T == {i \in 0..Len(s) : f[i] = q}
<1>3. Len(s) \in Nat /\ 0 \in Int /\ Len(s) \in Int
  BY LenProperties
<1>4. 0 \in T
  BY <1>2, <1>3 DEF IsTrace
<1>5. ASSUME NEW i \in 0..(Len(s) - 1), i \in T
      PROVE  i + 1 \in T
  <2>1. i + 1 \in 1..Len(s) /\ (i + 1) - 1 = i
    BY <1>3
  <2>2. f[i + 1] = Step(f[i], s[i + 1])
    BY <1>2, <2>1 DEF IsTrace
  <2>3. f[i + 1] = q
    BY <1>5, <2>2 DEF Step
  <2> QED
    BY <1>3, <2>1, <2>3
<1> HIDE DEF T
<1>6. \A i \in 0..Len(s) : i \in T
  BY <1>3, <1>4, <1>5, IntervalInduction
<1>7. Len(s) \in T
  BY <1>3, <1>6
<1> QED
  BY <1>2, <1>7 DEF T

\* Octets are in the table: no IndexError.
LEMMA OctetsInTable ==
  ASSUME NEW s \in Seq(0..255), NEW q \in 0..8
  PROVE  Run(q, s) \in 0..8
<1>1. PICK f : IsTrace(f, q, s) /\ Run(q, s) = f[Len(s)]
  BY RunIsTrace
<1> DEFINE T == {i \in 0..Len(s) : f[i] \in 0..8}
<1>2. Len(s) \in Nat /\ 0 \in Int /\ Len(s) \in Int
  BY LenProperties
<1>3. 0 \in T
  BY <1>1, <1>2 DEF IsTrace
<1>4. ASSUME NEW i \in 0..(Len(s) - 1), i \in T
      PROVE  i + 1 \in T
  <2>1. i + 1 \in 1..Len(s) /\ (i + 1) - 1 = i /\ s[i + 1] \in 0..255
    BY <1>2, ElementOfSeq
  <2>2. f[i + 1] = Step(f[i], s[i + 1])
    BY <1>1, <2>1 DEF IsTrace
  <2>3. CASE f[i] = UTF8_REJECT
    BY <1>2, <2>1, <2>2, <2>3 DEF Step, UTF8_REJECT
  <2>4. CASE f[i] # UTF8_REJECT
    <3>1. f[i] \in State /\ s[i + 1] \in 0..255
      BY <1>4, <2>1, <2>4 DEF State
    <3>2. Step(f[i], s[i + 1]) \in 0..8
      <4> HIDE DEF T
      <4> QED
        BY ONLY <3>1, StepIsRow
    <3>3. f[i + 1] \in 0..8
      BY ONLY <2>2, <3>2
    <3> QED
      BY <1>2, <2>1, <3>3
  <2> QED
    BY <2>3, <2>4
<1> HIDE DEF T
<1>5. \A i \in 0..Len(s) : i \in T
  BY <1>2, <1>3, <1>4, IntervalInduction
<1>6. Len(s) \in T
  BY <1>2, <1>5
<1> QED
  BY <1>1, <1>6 DEF T

\* Inside a character there are octets that complete it.
LEMMA Completes ==
  ASSUME NEW q \in (0..8) \ {UTF8_REJECT}
  PROVE  \E t \in Seq(0..255) : Run(q, t) = UTF8_ACCEPT
<1> DEFINE Can == {r \in 0..9 : \E t \in Seq(0..255) : Run(r, t) = UTF8_ACCEPT}
<1>1. UTF8_ACCEPT \in Can
  <2>1. <<>> \in Seq(0..255) /\ Run(UTF8_ACCEPT, <<>>) = UTF8_ACCEPT /\ UTF8_ACCEPT \in 0..9
    BY EmptySeq, RunOfNothing DEF UTF8_ACCEPT
  <2> QED
    BY <2>1
<1>2. ASSUME NEW r \in 0..9, NEW b \in 0..255, Step(r, b) \in Can
      PROVE  r \in Can
  <2>1. PICK t \in Seq(0..255) : Run(Step(r, b), t) = UTF8_ACCEPT
    BY <1>2
  <2> DEFINE u == <<b>>
  <2>2. u \in Seq(0..255) /\ Run(r, u) = Step(r, b)
    <3>1. u \in Seq(0..255)
      OBVIOUS
    <3>2. Run(r, u) = Step(r, b)
      BY RunOctet
    <3> QED
      BY <3>1, <3>2
  <2> HIDE DEF u
  <2>3. u \o t \in Seq(0..255)
    BY <2>2, ConcatProperties
  <2>4. Run(r, u \o t) = Run(Step(r, b), t)
    BY <2>2, RunInParts
  <2> QED
    BY <2>1, <2>3, <2>4
<1> HIDE DEF Can
<1>3. 2 \in Can
  <2>1. Step(2, 128) \in Can
    BY <1>1, LastOctets
  <2>2. ASSUME NEW r, NEW b, r = 2, b = 128
        PROVE  r \in Can
    BY ONLY <1>2, <2>1, <2>2
  <2> QED
    BY ONLY <2>2
<1>4. 3 \in Can
  <2>1. Step(3, 128) \in Can
    BY <1>3, LastOctets
  <2>2. ASSUME NEW r, NEW b, r = 3, b = 128
        PROVE  r \in Can
    BY ONLY <1>2, <2>1, <2>2
  <2> QED
    BY ONLY <2>2
<1>5. ASSUME NEW r \in 4..8
      PROVE  r \in Can
  <2> DEFINE b == CASE r = 4 -> 160 [] r = 6 -> 144 [] r \in {5, 7, 8} -> 128
  <2>1. b \in 0..255
    OBVIOUS
  <2>2. b \in Follows(r) /\ Onward(r) \in {2, 3}
    BY DEF Follows, Onward
  <2>3. r \in 2..8 /\ r \in 0..9
    OBVIOUS
  <2> HIDE DEF b
  <2>4. Step(r, b) = Onward(r)
    BY <2>1, <2>2, <2>3, StepInside
  <2>5. Step(r, b) \in Can
    BY <1>3, <1>4, <2>2, <2>4
  <2> QED
    BY <1>2, <2>1, <2>3, <2>5, Zenon
<1>6. q \in Can
  <2>1. q = 0 \/ q = 2 \/ q = 3 \/ q \in 4..8
    BY DEF UTF8_REJECT
  <2> QED
    BY <1>1, <1>3, <1>4, <1>5, <2>1 DEF UTF8_ACCEPT
<1> QED
  BY <1>6 DEF Can

\* The automaton rejects as early as it can and never too early: a chunk is rejected
\* if and only if no octets could follow that make it a text.
THEOREM RejectsAtOnce ==
  ASSUME NEW s \in Seq(0..255)
  PROVE  Run(UTF8_ACCEPT, s) = UTF8_REJECT <=> ~ \E t \in Seq(0..255) : IsWellFormed(s \o t)
<1>1. UTF8_ACCEPT \in 0..8 /\ UTF8_ACCEPT \in 0..9 /\ UTF8_ACCEPT # UTF8_REJECT
  BY DEF UTF8_ACCEPT, UTF8_REJECT
<1>2. ASSUME Run(UTF8_ACCEPT, s) = UTF8_REJECT, NEW t \in Seq(0..255), IsWellFormed(s \o t)
      PROVE  FALSE
  <2>1. s \o t \in Seq(0..255)
    BY ConcatProperties
  <2>2. Run(UTF8_ACCEPT, s \o t) = UTF8_ACCEPT
    BY <1>2, <2>1, AcceptsUtf8
  <2>3. Run(UTF8_ACCEPT, s \o t) = Run(UTF8_REJECT, t)
    BY <1>1, <1>2, RunInParts
  <2>4. Run(UTF8_REJECT, t) = UTF8_REJECT
    BY RejectionStays
  <2> QED
    BY <1>1, <2>2, <2>3, <2>4
<1>3. ASSUME Run(UTF8_ACCEPT, s) # UTF8_REJECT
      PROVE  \E t \in Seq(0..255) : IsWellFormed(s \o t)
  <2> DEFINE q == Run(UTF8_ACCEPT, s)
  <2>1. q \in (0..8) \ {UTF8_REJECT}
    BY <1>1, <1>3, OctetsInTable
  <2>2. PICK t \in Seq(0..255) : Run(q, t) = UTF8_ACCEPT
    BY <2>1, Completes
  <2>3. s \o t \in Seq(0..255) /\ Run(UTF8_ACCEPT, s \o t) = UTF8_ACCEPT
    BY <1>1, <2>2, ConcatProperties, RunInParts
  <2> QED
    BY <2>3, AcceptsUtf8
<1> QED
  BY <1>2, <1>3

-----------------------------------------------------------------------------
(* Selecting in order.                                                     *)

\* g selects the values of f at the positions in P, up to each i.
IsSelection(g, P, f, n) ==
  /\ g[0] = <<>>
  /\ \A i \in 1..n : g[i] = IF i \in P THEN Append(g[i - 1], f[i]) ELSE g[i - 1]

\* What is selected is in S; two selections choose the same.
SelectsFrom(P, f, n, S) == \A i \in 1..n : i \in P => f[i] \in S
SelectSame(P, e, Q, f, n) == \A i \in 1..n : (i \in P <=> i \in Q) /\ (i \in P => e[i] = f[i])

\* Two selections agree as far as what they select does.
LEMMA SelectionsAgree ==
  ASSUME NEW P, NEW Q, NEW e, NEW f, NEW n \in Nat, NEW m \in Nat, NEW g, NEW h,
         IsSelection(g, P, e, n), IsSelection(h, Q, f, m), NEW k \in 0..n, k <= m, SelectSame(P, e, Q, f, k)
  PROVE  g[k] = h[k]
<1> DEFINE T == {i \in 0..k : g[i] = h[i]}
<1>1. 0 \in T
  BY DEF IsSelection
<1>2. ASSUME NEW i \in 0..(k - 1), i \in T
      PROVE  i + 1 \in T
  <2>1. /\ i + 1 \in 1..n /\ i + 1 \in 1..m /\ i + 1 \in 1..k /\ i + 1 \in 0..k
        /\ (i + 1) - 1 = i
    OBVIOUS
  <2>2. g[i + 1] = IF i + 1 \in P THEN Append(g[i], e[i + 1]) ELSE g[i]
    BY <2>1, Zenon DEF IsSelection
  <2>3. h[i + 1] = IF i + 1 \in Q THEN Append(h[i], f[i + 1]) ELSE h[i]
    BY <2>1, Zenon DEF IsSelection
  <2>4. (i + 1 \in P <=> i + 1 \in Q) /\ (i + 1 \in P => e[i + 1] = f[i + 1])
    BY <2>1 DEF SelectSame
  <2>5. g[i] = h[i]
    BY <1>2
  <2>6. g[i + 1] = h[i + 1]
    BY <2>2, <2>3, <2>4, <2>5, Zenon
  <2> QED
    BY <2>1, <2>6
<1>3. 0 \in Int /\ k \in Int
  OBVIOUS
<1> HIDE DEF T
<1>4. \A i \in 0..k : i \in T
  BY <1>1, <1>2, <1>3, IntervalInduction
<1>5. k \in 0..k
  OBVIOUS
<1> QED
  BY <1>4, <1>5 DEF T

\* Selected is what the function that defines it says.
LEMMA SelectedIsSelection ==
  ASSUME NEW S, NEW P, NEW f, NEW n \in Nat, SelectsFrom(P, f, n, S)
  PROVE  \E g : g \in [0..n -> Seq(S)] /\ IsSelection(g, P, f, n) /\ Selected(P, f, n) = g[n]
<1> DEFINE V == Seq(S)
           G == [p \in V \X (1..n) |-> IF p[2] \in P THEN Append(p[1], f[p[2]]) ELSE p[1]]
           Body(x) == [i \in 0..n |-> IF i = 0 THEN <<>> ELSE IF i \in P THEN Append(x[i - 1], f[i]) ELSE x[i - 1]]
           upTo == CHOOSE x : x = Body(x)
<1>1. <<>> \in V
  BY EmptySeq
<1>2. \A x \in V, i \in 1..n : (IF i \in P THEN Append(x, f[i]) ELSE x) \in V
  BY AppendProperties DEF SelectsFrom
<1> HIDE DEF V
<1>3. IsTable(G, n, V)
  BY <1>2 DEF IsTable
<1>4. \A x \in V, i \in 1..n : G[<<x, i>>] = IF i \in P THEN Append(x, f[i]) ELSE x
  OBVIOUS
<1> HIDE DEF G
<1>5. PICK g : Iterates(g, G, n, <<>>, V)
  BY <1>1, <1>3, RecursiveFunction
<1>6. /\ g \in [0..n -> V] /\ g[0] = <<>>
      /\ \A i \in 1..n : g[i] = IF i \in P THEN Append(g[i - 1], f[i]) ELSE g[i - 1]
  <2>1. \A i \in 1..n : g[i - 1] \in V
    BY <1>5 DEF Iterates
  <2> QED
    BY <1>4, <1>5, <2>1 DEF Iterates
<1>7. g = Body(g)
  <2> DEFINE at(i) == IF i = 0 THEN <<>> ELSE IF i \in P THEN Append(g[i - 1], f[i]) ELSE g[i - 1]
  <2>1. at(0) = g[0]
    BY <1>6
  <2>2. ASSUME NEW i \in 0..n, i # 0
        PROVE  at(i) = g[i]
    <3>1. i \in 1..n
      BY <2>2
    <3>2. at(i) = IF i \in P THEN Append(g[i - 1], f[i]) ELSE g[i - 1]
      BY <2>2, Zenon
    <3> QED
      BY <1>6, <3>1, <3>2, Zenon
  <2>3. \A i \in 0..n : at(i) = g[i]
    BY <2>1, <2>2
  <2>4. Body(g) = [i \in 0..n |-> at(i)]
    OBVIOUS
  <2> HIDE DEF at
  <2>5. g = [i \in 0..n |-> g[i]]
    BY <1>6
  <2> HIDE DEF Body
  <2>6. [i \in 0..n |-> at(i)] = [i \in 0..n |-> g[i]]
    BY <2>3
  <2> QED
    BY <2>4, <2>5, <2>6, Zenon
<1>8. upTo = Body(upTo)
  BY <1>7, Zenon
<1>9. Selected(P, f, n) = upTo[n]
  BY DEF Selected
<1> HIDE DEF upTo
<1>10. IsSelection(upTo, P, f, n)
  <2> DEFINE at(i) == IF i = 0 THEN <<>> ELSE IF i \in P THEN Append(upTo[i - 1], f[i]) ELSE upTo[i - 1]
  <2>1. upTo = [i \in 0..n |-> at(i)]
    BY <1>8, Zenon
  <2>2. at(0) = <<>>
    OBVIOUS
  <2>3. \A i \in 1..n : i # 0 /\ i \in 0..n
    OBVIOUS
  <2>4. \A i \in 1..n : at(i) = IF i \in P THEN Append(upTo[i - 1], f[i]) ELSE upTo[i - 1]
    BY <2>3, Zenon
  <2> HIDE DEF at
  <2>5. \A i \in 0..n : upTo[i] = at(i)
    BY <2>1
  <2>6. 0 \in 0..n
    OBVIOUS
  <2> QED
    BY <2>2, <2>3, <2>4, <2>5, <2>6, Zenon DEF IsSelection
<1>11. IsSelection(g, P, f, n)
  BY <1>6 DEF IsSelection
<1>12. n \in 0..n /\ n <= n
  OBVIOUS
<1>13. SelectSame(P, f, P, f, n)
  BY DEF SelectSame
<1>14. upTo[n] = g[n]
  BY <1>10, <1>11, <1>12, <1>13, SelectionsAgree
<1> QED
  BY <1>6, <1>9, <1>11, <1>14 DEF V

\* What is selected has the type of the values.
LEMMA SelectedType ==
  ASSUME NEW S, NEW P, NEW f, NEW n \in Nat, SelectsFrom(P, f, n, S)
  PROVE  Selected(P, f, n) \in Seq(S)
<1>1. n \in 0..n
  OBVIOUS
<1>2. PICK g : g \in [0..n -> Seq(S)] /\ IsSelection(g, P, f, n) /\ Selected(P, f, n) = g[n]
  BY SelectedIsSelection
<1> QED
  BY <1>1, <1>2

\* It depends only on the values at the positions in P.
LEMMA SelectedSame ==
  ASSUME NEW P, NEW Q, NEW e, NEW f, NEW n \in Nat, SelectSame(P, e, Q, f, n)
  PROVE  Selected(P, e, n) = Selected(Q, f, n)
<1> DEFINE S == {e[i] : i \in 1..n}
<1>1. SelectsFrom(P, e, n, S) /\ SelectsFrom(Q, f, n, S)
  BY DEF SelectsFrom, SelectSame
<1> HIDE DEF S
<1>2. PICK g : IsSelection(g, P, e, n) /\ Selected(P, e, n) = g[n]
  BY <1>1, SelectedIsSelection
<1>3. PICK h : IsSelection(h, Q, f, n) /\ Selected(Q, f, n) = h[n]
  BY <1>1, SelectedIsSelection
<1>4. n \in 0..n /\ n <= n
  OBVIOUS
<1>5. g[n] = h[n]
  BY <1>2, <1>3, <1>4, SelectionsAgree
<1> QED
  BY <1>2, <1>3, <1>5

\* Nothing is selected from nothing.
LEMMA SelectedOfNothing ==
  ASSUME NEW P, NEW f
  PROVE  Selected(P, f, 0) = <<>>
<1>1. SelectsFrom(P, f, 0, {})
  BY DEF SelectsFrom
<1>2. PICK g : IsSelection(g, P, f, 0) /\ Selected(P, f, 0) = g[0]
  BY <1>1, SelectedIsSelection
<1> QED
  BY <1>2 DEF IsSelection

\* One value more comes last, if its position is in P.
LEMMA SelectedNext ==
  ASSUME NEW P, NEW Q, NEW e, NEW f, NEW n \in Nat, SelectSame(P, e, Q, f, n)
  PROVE  Selected(Q, f, n + 1) = IF n + 1 \in Q THEN Append(Selected(P, e, n), f[n + 1])
                                 ELSE Selected(P, e, n)
<1> DEFINE S == {e[i] : i \in 1..n} \cup {f[n + 1]}
<1>1. SelectsFrom(P, e, n, S) /\ SelectsFrom(Q, f, n + 1, S)
  <2>1. \A i \in 1..(n + 1) : i \in 1..n \/ i = n + 1
    OBVIOUS
  <2> QED
    BY <2>1 DEF SelectsFrom, SelectSame
<1> HIDE DEF S
<1>2. PICK g : IsSelection(g, P, e, n) /\ Selected(P, e, n) = g[n]
  BY <1>1, SelectedIsSelection
<1>3. n + 1 \in Nat
  OBVIOUS
<1>4. PICK h : IsSelection(h, Q, f, n + 1) /\ Selected(Q, f, n + 1) = h[n + 1]
  <2>1. \A m \in Nat : SelectsFrom(Q, f, m, S) => \E h : IsSelection(h, Q, f, m) /\ Selected(Q, f, m) = h[m]
    BY SelectedIsSelection
  <2> QED
    BY <1>1, <1>3, <2>1
<1>5. n \in 0..n /\ n <= n + 1 /\ n + 1 \in 1..(n + 1) /\ (n + 1) - 1 = n
  OBVIOUS
<1>6. g[n] = h[n]
  BY <1>2, <1>3, <1>4, <1>5, SelectionsAgree
<1>7. h[n + 1] = IF n + 1 \in Q THEN Append(h[n], f[n + 1]) ELSE h[n]
  BY <1>4, <1>5, Zenon DEF IsSelection
<1> QED
  BY <1>2, <1>4, <1>6, <1>7, Zenon

\* Where every position is in P, everything is selected.
LEMMA SelectedAll ==
  ASSUME NEW S, NEW s \in Seq(S), NEW P, 1..Len(s) \subseteq P, NEW f,
         \A i \in 1..Len(s) : f[i] = s[i]
  PROVE  Selected(P, f, Len(s)) = s
<1> DEFINE n == Len(s)
           T == {j \in 0..n : Selected(P, f, j) = SubSeq(s, 1, j)}
<1>1. n \in Nat /\ \A i \in 1..n : s[i] \in S
  BY LenProperties, ElementOfSeq
<1>2. 0 \in T
  <2>1. SubSeq(s, 1, 0) = <<>>
    BY EmptySeq, SubSeqProperties
  <2>2. 0 \in 0..n
    BY <1>1
  <2> QED
    BY <2>1, <2>2, SelectedOfNothing, Zenon
<1>3. ASSUME NEW j \in 0..(n - 1), j \in T
      PROVE  j + 1 \in T
  <2> HIDE DEF n
  <2>1. j \in Nat /\ j + 1 \in 1..n /\ j + 1 \in 0..n
    BY <1>1
  <2>2. j + 1 \in P /\ f[j + 1] = s[j + 1]
    BY <2>1 DEF n
  <2>3. Selected(P, f, j + 1) = Append(Selected(P, f, j), f[j + 1])
    <3>1. SelectSame(P, f, P, f, j)
      BY DEF SelectSame
    <3>2. Selected(P, f, j + 1) = IF j + 1 \in P THEN Append(Selected(P, f, j), f[j + 1]) ELSE Selected(P, f, j)
      <4>1. \A k \in Nat : SelectSame(P, f, P, f, k) =>
              Selected(P, f, k + 1) = IF k + 1 \in P THEN Append(Selected(P, f, k), f[k + 1])
                                      ELSE Selected(P, f, k)
        BY SelectedNext
      <4> QED
        BY <2>1, <3>1, <4>1
    <3> QED
      BY <2>2, <3>2
  <2>4. Append(SubSeq(s, 1, j), s[j + 1]) = SubSeq(s, 1, j + 1)
    <3>1. SubSeq(s, 1, j) \in Seq(S) /\ Len(SubSeq(s, 1, j)) = j /\ SubSeq(s, 1, j + 1) \in Seq(S)
          /\ Len(SubSeq(s, 1, j + 1)) = j + 1
      BY <1>1, <2>1 DEF n
    <3>2. \A i \in 1..(j + 1) : Append(SubSeq(s, 1, j), s[j + 1])[i] = SubSeq(s, 1, j + 1)[i]
      BY <1>1, <2>1 DEF n
    <3> QED
      BY <1>1, <2>1, <3>1, <3>2
  <2> QED
    BY <1>3, <2>1, <2>2, <2>3, <2>4
<1>4. 0 \in Int /\ n \in Int
  BY <1>1
<1> HIDE DEF T, n
<1>5. \A j \in 0..n : j \in T
  BY <1>2, <1>3, <1>4, IntervalInduction
<1>6. n \in 0..n
  BY <1>1
<1>7. Selected(P, f, n) = SubSeq(s, 1, n)
  BY <1>5, <1>6 DEF T
<1>8. SubSeq(s, 1, Len(s)) = s
  OBVIOUS
<1> QED
  BY <1>7, <1>8 DEF n

\* Text of ASCII characters alone decodes to itself.
THEOREM AsciiIsItself ==
  ASSUME NEW s \in Seq(0..127)
  PROVE  IsWellFormed(s) /\ Decoded(s) = s
<1>1. s \in Seq(0..255)
  OBVIOUS
<1>2. \A i \in 1..Len(s) : s[i] \in 0..127
  BY ElementOfSeq
<1>3. \A i \in 1..Len(s) : Width(s, i) = 1 /\ CodePoint(s, i) = s[i]
  <2>1. ASSUME NEW i \in 1..Len(s)
        PROVE  Width(s, i) = 1
    <3>1. s[i] \in 0..127
      BY <1>2
    <3> QED
      BY <1>1, <3>1, Widths
  <2> HIDE DEF Width
  <2> QED
    BY <2>1 DEF CodePoint
<1> DEFINE T == {i \in 1..(Len(s) + 1) : i \in Starts(s)}
<1>4. 1 \in T
  BY <1>1, StartsAre
<1>5. ASSUME NEW i \in 1..((Len(s) + 1) - 1), i \in T
      PROVE  i + 1 \in T
  <2>1. i \in 1..Len(s) /\ i + 1 \in 1..(Len(s) + 1) /\ 1 < i + 1 /\ (i + 1) - 1 = i /\ 1 \in 1..4
    OBVIOUS
  <2>2. Width(s, i) = 1 /\ i \in Starts(s)
    BY <1>3, <1>5, <2>1
  <2> QED
    BY <1>1, <2>1, <2>2, StartsAre
<1>6. 1 \in Int /\ Len(s) + 1 \in Int
  OBVIOUS
<1> HIDE DEF T
<1>7. \A i \in 1..(Len(s) + 1) : i \in T
  BY <1>4, <1>5, <1>6, IntervalInduction
<1>8. \A i \in 1..(Len(s) + 1) : i \in Starts(s)
  BY <1>7 DEF T
<1>9. Len(s) \in Nat /\ Len(s) + 1 \in 1..(Len(s) + 1) /\ 1..Len(s) \subseteq 1..(Len(s) + 1)
  OBVIOUS
<1>10. IsWellFormed(s)
  BY <1>8, <1>9 DEF IsWellFormed
<1>11. 1..Len(s) \subseteq Starts(s)
  BY <1>8, <1>9
<1> DEFINE f == [i \in 1..Len(s) |-> CodePoint(s, i)]
<1>12. \A i \in 1..Len(s) : f[i] = s[i]
  BY <1>3, Zenon
<1>13. Decoded(s) = Selected(Starts(s), f, Len(s))
  BY DEF Decoded
<1> HIDE DEF f
<1>14. Decoded(s) = s
  BY <1>11, <1>12, <1>13, SelectedAll
<1> QED
  BY <1>10, <1>14

-----------------------------------------------------------------------------
(* validate, of either implementation.                                     *)

\* It leaves a state or an error.
LEMMA ValidateType ==
  ASSUME NEW validator, NEW q \in 0..9, NEW s \in Seq(0..255)
  PROVE  Validate(validator, q, s) \in 0..9
<1>1. Run(q, s) \in 0..9
  BY RunType
<1>2. Run(q, Decoded(s)) \in 0..9
  <2> DEFINE f == [i \in 1..Len(s) |-> CodePoint(s, i)]
             S == {f[i] : i \in 1..Len(s)}
  <2>1. Len(s) \in Nat /\ SelectsFrom(Starts(s), f, Len(s), S)
    BY LenProperties DEF SelectsFrom
  <2>2. Decoded(s) = Selected(Starts(s), f, Len(s))
    BY DEF Decoded
  <2> HIDE DEF f, S
  <2>3. Decoded(s) \in Seq(S)
    BY <2>1, <2>2, SelectedType
  <2> QED
    BY <2>3, RunType
<1> QED
  BY <1>1, <1>2 DEF Validate, UTF8_REJECT

\* Nothing more leaves the state as it is.
LEMMA ValidateNothing ==
  ASSUME NEW validator, NEW q \in 0..9
  PROVE  Validate(validator, q, <<>>) = q
<1>1. <<>> \in Seq(0..127)
  OBVIOUS
<1>2. IsWellFormed(<<>>) /\ Decoded(<<>>) = <<>>
  BY <1>1, AsciiIsItself
<1>3. Run(q, <<>>) = q
  BY RunOfNothing
<1> QED
  BY <1>2, <1>3 DEF Validate

\* wsaccel's runs out of no table, and accepts what is UTF-8.
LEMMA ValidateOctets ==
  ASSUME NEW s \in Seq(0..255)
  PROVE  /\ \A q \in 0..8 : Validate("wsaccel", q, s) \in 0..8
         /\ Validate("wsaccel", UTF8_ACCEPT, s) = UTF8_ACCEPT <=> IsWellFormed(s)
  BY OctetsInTable, AcceptsUtf8 DEF Validate

\* Both accept ASCII.
LEMMA ValidateAscii ==
  ASSUME NEW validator, NEW s \in Seq(0..127)
  PROVE  Validate(validator, UTF8_ACCEPT, s) = UTF8_ACCEPT
<1>1. s \in Seq(0..255)
  BY ElementOfSeq
<1>2. IsWellFormed(s) /\ Decoded(s) = s
  BY AsciiIsItself
<1>3. Run(UTF8_ACCEPT, s) = UTF8_ACCEPT
  BY <1>1, <1>2, AcceptsUtf8
<1> QED
  BY <1>2, <1>3 DEF Validate
============================================================================
