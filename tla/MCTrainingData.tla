--------------------------- MODULE MCTrainingData ---------------------------
(* Small sets of simulations.  The keys q and q1 and the values 1 and 11   *)
(* give different statistics with the same text.                           *)
EXTENDS TrainingData

begin == [kind |-> "begin"]
end == [kind |-> "end"]
short == [kind |-> "short"]
stat(k, v) == [kind |-> "stat", key |-> k, val |-> v]

s == <<"s">>
q == <<"q">>
q1 == <<"q", "1">>
r == <<"r">>
host == <<"h">>
one == <<"1">>
eleven == <<"1", "1">>
nan == <<"nan">>

AllLines == {begin, end, short} \cup {stat(k, v) : k \in {s, q, q1, r, host}, v \in {one, eleven, nan}}
HostFeatures == {host}
TwoTruths == << <<"sorted">>, <<"sorted", "twice">> >>

WarmUp == <<begin, stat(s, one), stat(q, one), end>>
BrokenWarmUp == <<begin, stat(s, one), short, end>>
Plain == <<begin, stat(s, one), stat(q, eleven), stat(host, one), end>>
SameText == <<begin, stat(s, one), stat(q, nan), stat(q1, one), end>>
Other == <<begin, stat(s, eleven), stat(r, one), end>>
BrokenOne == <<begin, stat(s, one), short, end>>

(* The writes of a simulation: its files after each, as numbers of lines   *)
(* and texts.                                                              *)
Writes(ns, ts) == [k \in DOMAIN ns |-> [lines |-> ns[k], text |-> ts[k]]]
Sim(fault, program, ls, text, flush) ==
    [fault |-> fault, program |-> program, lines |-> ls, text |-> text, flush |-> flush]

(* Duplicates, disjoint features, one cut in a section. *)
Varied == << Sim(1, 1, WarmUp \o Plain \o Other, <<"sorted">>, Writes(<<4, 11, 13>>, <<0, 1, 1>>)),
             Sim(1, 1, WarmUp \o Plain, <<"sorted">>, Writes(<<9>>, <<1>>)),
             Sim(2, 2, WarmUp \o SameText, <<"sorted", "twice">>, Writes(<<9>>, <<2>>)) >>

(* A faulty run that looks like a correct one of a later fault; output     *)
(* that goes on after it was right.                                        *)
Alike == << Sim(1, 2, WarmUp \o Plain, <<"sorted">>, Writes(<<9>>, <<1>>)),
            Sim(2, 2, WarmUp \o Plain, <<"sorted", "twice">>, Writes(<<2, 9>>, <<1, 2>>)),
            Sim(4, 1, WarmUp \o Other, <<"sorted", "panic">>, Writes(<<8, 8>>, <<1, 2>>)) >>

(* Broken lines, and a file that is too large in the end. *)
Damaged == << Sim(1, 1, BrokenWarmUp \o Other \o BrokenOne \o Plain, <<"sorted">>,
                  Writes(<<8, 17>>, <<0, 1>>)),
              Sim(3, 1, WarmUp \o Plain \o Other \o BrokenOne \o Plain, <<"sorted">>,
                  Writes(<<9, 22>>, <<0, 1>>)) >>

AllSetups == {[sims |-> m, timeout |-> t, pick |-> p] :
                m \in {Varied, Alike, Damaged}, t \in BOOLEAN, p \in BOOLEAN}

=============================================================================
