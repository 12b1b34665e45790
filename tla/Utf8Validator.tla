--------------------------- MODULE Utf8Validator ---------------------------
(***************************************************************************)
(* utf8validator.py: the automaton of the "Flexible and Economical UTF-8   *)
(* Decoder".  The module's own class first has Python decode the octets it *)
(* is given, and then runs the automaton on the characters; wsaccel's,     *)
(* which takes its place where it is installed, runs it on the octets.     *)
(* The method decode has no caller.                                        *)
(***************************************************************************)
EXTENDS Integers, Sequences

\* The first 256 entries of UTF8VALIDATOR_DFA: the class of an octet.
OctetClass(b) ==
  CASE b \in 0..127 -> 0
    [] b \in 128..143 -> 1
    [] b \in 144..159 -> 9
    [] b \in 160..191 -> 7
    [] b \in {192, 193} \cup 245..255 -> 8
    [] b \in 194..223 -> 2
    [] b = 224 -> 10
    [] b \in 225..239 \ {237} -> 3
    [] b = 237 -> 4
    [] b = 240 -> 11
    [] b \in 241..243 -> 6
    [] b = 244 -> 5

\* The other 144: one row of sixteen classes for each state.
Transitions ==
  << <<0, 1, 2, 3, 5, 8, 7, 1, 1, 1, 4, 6, 1, 1, 1, 1>>,
     <<1, 1, 1, 1, 1, 1, 1, 1, 1, 1, 1, 1, 1, 1, 1, 1>>,
     <<1, 0, 1, 1, 1, 1, 1, 0, 1, 0, 1, 1, 1, 1, 1, 1>>,
     <<1, 2, 1, 1, 1, 1, 1, 2, 1, 2, 1, 1, 1, 1, 1, 1>>,
     <<1, 1, 1, 1, 1, 1, 1, 2, 1, 1, 1, 1, 1, 1, 1, 1>>,
     <<1, 2, 1, 1, 1, 1, 1, 1, 1, 2, 1, 1, 1, 1, 1, 1>>,
     <<1, 1, 1, 1, 1, 1, 1, 3, 1, 3, 1, 1, 1, 1, 1, 1>>,
     <<1, 3, 1, 1, 1, 1, 1, 3, 1, 3, 1, 1, 1, 1, 1, 1>>,
     <<1, 3, 1, 1, 1, 1, 1, 1, 1, 1, 1, 1, 1, 1, 1, 1>> >>

UTF8VALIDATOR_DFA ==
  [i \in 0..399 |-> IF i < 256 THEN OctetClass(i)
                    ELSE Transitions[((i - 256) \div 16) + 1][((i - 256) % 16) + 1]]

UTF8_ACCEPT == 0
UTF8_REJECT == 1
OutOfTable == 9   \* an IndexError: the character's number is no index of the table

\* The state after the octet or character c; the loop of validate stops at the first
\* rejection.
Step(state, c) ==
  IF state \in {UTF8_REJECT, OutOfTable} THEN state
  ELSE IF c \notin DOMAIN UTF8VALIDATOR_DFA THEN OutOfTable
  ELSE UTF8VALIDATOR_DFA[256 + (state * 16) + UTF8VALIDATOR_DFA[c]]

\* The loop of validate.
Run(state, chunk) ==
  LET after[i \in 0..Len(chunk)] ==
        IF i = 0 THEN state ELSE Step(after[i - 1], chunk[i])
  IN  after[Len(chunk)]

-----------------------------------------------------------------------------
(* Python's decode('utf-8'), after table 3-7 of the Unicode standard.      *)

\* The length of the well-formed sequence at position i, or 0.
Width(s, i) ==
  LET lead == s[i]
      Within(k, low, high) == i + k <= Len(s) /\ s[i + k] \in low..high
  IN  CASE lead \in 0..127 -> 1
        [] lead \in 194..223 /\ Within(1, 128, 191) -> 2
        [] /\ lead \in 224..239 /\ Within(2, 128, 191)
           /\ Within(1, IF lead = 224 THEN 160 ELSE 128, IF lead = 237 THEN 159 ELSE 191) -> 3
        [] /\ lead \in 240..244 /\ Within(2, 128, 191) /\ Within(3, 128, 191)
           /\ Within(1, IF lead = 240 THEN 144 ELSE 128, IF lead = 244 THEN 143 ELSE 191) -> 4
        [] OTHER -> 0

\* The number of the character at position i.
CodePoint(s, i) ==
  CASE Width(s, i) = 1 -> s[i]
    [] Width(s, i) = 2 -> ((s[i] - 192) * 64) + (s[i + 1] - 128)
    [] Width(s, i) = 3 -> ((s[i] - 224) * 4096) + ((s[i + 1] - 128) * 64) + (s[i + 2] - 128)
    [] Width(s, i) = 4 -> ((s[i] - 240) * 262144) + ((s[i + 1] - 128) * 4096)
                           + ((s[i + 2] - 128) * 64) + (s[i + 3] - 128)

\* The positions at which a character starts, when the octets are read from the left;
\* Len(s) + 1 is one of them if and only if all of them are read.
Starts(s) ==
  LET start[i \in 1..(Len(s) + 1)] ==
        i = 1 \/ \E w \in 1..4 : w < i /\ Width(s, i - w) = w /\ start[i - w]
  IN  {i \in 1..(Len(s) + 1) : start[i]}

IsWellFormed(s) == Len(s) + 1 \in Starts(s)

\* The values of f on 1..n at the positions in P, in order.
Selected(P, f, n) ==
  LET upTo[i \in 0..n] ==
        IF i = 0 THEN <<>> ELSE IF i \in P THEN Append(upTo[i - 1], f[i]) ELSE upTo[i - 1]
  IN  upTo[n]

Decoded(s) == Selected(Starts(s), [i \in 1..Len(s) |-> CodePoint(s, i)], Len(s))

-----------------------------------------------------------------------------
\* validate: the state afterwards.  An UnicodeDecodeError counts as a rejection, since
\* the callers treat both alike.
Validate(validator, state, octets) ==
  IF validator = "wsaccel" THEN Run(state, octets)
  ELSE IF IsWellFormed(octets) THEN Run(state, Decoded(octets)) ELSE UTF8_REJECT
=============================================================================
