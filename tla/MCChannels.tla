----------------------------- MODULE MCChannels -----------------------------
EXTENDS Channels, TLC

CONSTANTS ann, bob

Good == [get |-> TRUE, http11 |-> TRUE, upgrade |-> TRUE, version |-> "known", key |-> "good"]
MCEnviron == {Good, [Good EXCEPT !.key = "garbled"]}

Sub(kinds) == {"subscribe"} \X kinds
Pub(kinds) == {"publish"} \X kinds
MCWish == {Sub({"user", "group"}), Sub({"session"}) \cup Pub({"user", "group"})}

Nothing == [broadcast |-> FALSE, groups |-> {}, users |-> {}, sessions |-> {}, bare |-> {}]
MCAudience ==
  { [Nothing EXCEPT !.groups = {ann}], [Nothing EXCEPT !.users = {SELF}, !.sessions = {SELF}],
    [Nothing EXCEPT !.groups = {SELF}, !.bare = {"group"}] }

\* The workers are forked after the import.
OneAddress == [p \in Process |-> 1]

Alike == Permutations(Browser) \cup Permutations(Request) \cup Permutations(Key)
=============================================================================
