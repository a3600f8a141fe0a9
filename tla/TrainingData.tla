---------------------------- MODULE TrainingData ----------------------------
(***************************************************************************)
(* The training data: run_experiment.py and run_experiment_timeout.py run  *)
(* one simulation per fault file, each into a directory of its own;        *)
(* data_processor.py and data_processor_different_inputs.py then label the *)
(* directories by their terminal output and collect the statistics         *)
(* sections of their stats.txt files.  A timeout ends the shell a          *)
(* simulation was started with, which need not end the simulation: what    *)
(* the processor reads may still be growing.                               *)
(***************************************************************************)
EXTENDS Naturals, Sequences, FiniteSets

CONSTANTS
    Setups,         \* records with the fields
                    \*  sims: what the simulation of each directory writes, a sequence,
                    \*  timeout: run_experiment_timeout.py is used,
                    \*  pick: ..._different_inputs.py, which has a list of correct runs
    Lines,          \* the lines of a stats.txt file
    Truth,          \* the ground truth: the right terminal output of each program
    skip_features,  \* keys that are left out
    Shared,         \* the key that every section begins with (sim_seconds)
    NoNumber,       \* the values nan and inf
    SizeLimit       \* the largest stats.txt that is read, in lines

(* A simulation is a record: fault, its place in the list of fault names,  *)
(* program, which it runs, lines and text, what it writes to stats.txt and *)
(* to the terminal, and flush, how much of the two is on disk after each   *)
(* write.  A line of stats.txt has the kind "begin", "end", "stat" or      *)
(* "short", a stat has a key and a value.  Keys and values are sequences   *)
(* of characters.                                                          *)
Begins(s, i) == s[i].kind = "begin"
Ends(s, i) == s[i].kind = "end"

(* A section of s after the warm-up, from the line b to the line e. *)
Section(s, b, e) ==
    /\ 1 < b /\ b < e /\ Begins(s, b) /\ Ends(s, e)
    /\ \A k \in (b + 1)..(e - 1) : ~Ends(s, k)

(* Its statistics, and the text they make. *)
Kept(s, b, e) == {k \in b..e : s[k].kind = "stat" /\ s[k].key \notin skip_features
                                                  /\ s[k].val # NoNumber}
Entries(s, b, e) == {<<s[k].key, s[k].val>> : k \in Kept(s, b, e)}
Text(s, b, e) ==
    LET t[k \in b..e] ==
            IF k = b THEN <<>>
            ELSE IF k \in Kept(s, b, e) THEN t[k - 1] \o s[k].key \o s[k].val ELSE t[k - 1]
    IN t[e]

(* Every section has its marks, begins with the same statistic and has no  *)
(* statistic twice.                                                        *)
WellFormed(s) ==
    /\ s # <<>> => Begins(s, 1)
    /\ \A i \in 1..(Len(s) - 1) :
        /\ Begins(s, i) => /\ s[i + 1].kind = "stat" /\ s[i + 1].key = Shared
                           /\ s[i + 1].val # NoNumber
        /\ Begins(s, i + 1) <=> Ends(s, i)
    /\ \A j, k \in 1..Len(s) :
        j < k /\ s[j].kind = "stat" /\ s[k].kind = "stat" /\ s[j].key = s[k].key
        => \E i \in j..k : Ends(s, i)

(* The statistics are always written in the same order, that of the        *)
(* simulator's list of them: the same ones make the same text.             *)
SameOrder(s, t) ==
    \A b, e \in 1..Len(s), c, f \in 1..Len(t) :
        Section(s, b, e) /\ Section(t, c, f) /\ Entries(s, b, e) = Entries(t, c, f)
        => Text(s, b, e) = Text(t, c, f)

ASSUME TrainingAssumption ==
    /\ Shared \notin skip_features /\ SizeLimit \in Nat
    /\ \A u \in Setups :
        /\ u.timeout \in BOOLEAN /\ u.pick \in BOOLEAN
        /\ Len(u.sims) \in Nat /\ DOMAIN u.sims = 1..Len(u.sims)
        /\ \A d \in DOMAIN u.sims : LET m == u.sims[d] IN
            /\ m.fault \in 1..4
            /\ m.lines \in Seq(Lines) /\ WellFormed(m.lines)
            /\ Len(m.flush) \in Nat /\ DOMAIN m.flush = 1..Len(m.flush)
            /\ \A k \in DOMAIN m.flush : m.flush[k].lines \in 0..Len(m.lines)
            /\ \A j, k \in DOMAIN m.flush : j <= k => m.flush[j].lines <= m.flush[k].lines
        /\ \A c, d \in DOMAIN u.sims : SameOrder(u.sims[c].lines, u.sims[d].lines)

VARIABLES
    setup,    \* the circumstances (never change)
    i,        \* the experiment the runner is at
    sim,      \* each simulation: "unborn", "running" and "ended", or
              \*   "orphan" and "gone" when it outlives its timeout
    written,  \* how many writes each has made
    phase,    \* what the scripts are doing
    correct,  \* the directories on the list of correct ones
    unread,   \* the directories that are still to be read
    cur, label, lines, pos,             \* the directory being read, its label,
                                        \*   contents, and the line it is at
    skipped_warmup, remove_this_input, feat, feature_str,
    data, one_stat,                     \* rows and common features of this file
    all_data, feature_hash, common_features

runVars == <<i, sim>>
lineVars == <<skipped_warmup, remove_this_input, feat, feature_str, data, one_stat>>
fileVars == <<cur, label, lines, pos, lineVars>>
setVars == <<all_data, feature_hash, common_features>>
vars == <<setup, runVars, written, phase, correct, unread, fileVars, setVars>>

Dirs == DOMAIN setup.sims
Stats(d) == IF written[d] = 0 THEN <<>>
            ELSE SubSeq(setup.sims[d].lines, 1, setup.sims[d].flush[written[d]].lines)
Terminal(d) == IF written[d] = 0 THEN <<>>
               ELSE SubSeq(setup.sims[d].text, 1, setup.sims[d].flush[written[d]].text)

Init ==
    /\ setup \in Setups
    /\ i = 1
    /\ sim = [d \in Dirs |-> "unborn"]
    /\ written = [d \in Dirs |-> 0]
    /\ phase = "run"
    /\ correct = {} /\ unread = {}
    /\ cur = 0 /\ label = 0 /\ lines = <<>> /\ pos = 1
    /\ skipped_warmup = FALSE /\ remove_this_input = FALSE
    /\ feat = <<>> /\ feature_str = <<>>
    /\ data = <<>> /\ one_stat = {}
    /\ all_data = <<>> /\ feature_hash = {} /\ common_features = {}

---------------------------------------------------------------------------
(* The runner: one experiment after the other. *)
Launch ==
    /\ phase = "run" /\ i \in Dirs /\ sim[i] = "unborn"
    /\ sim' = [sim EXCEPT ![i] = "running"]
    /\ UNCHANGED <<setup, i, written, phase, correct, unread, fileVars, setVars>>

(* subprocess.call returns. *)
Return ==
    /\ phase = "run" /\ i \in Dirs /\ sim[i] = "ended"
    /\ i' = i + 1
    /\ UNCHANGED <<setup, sim, written, phase, correct, unread, fileVars, setVars>>

(* subprocess.call kills the shell, which may have become the simulation   *)
(* or have it as its child.                                                *)
TimesOut == setup.timeout /\ phase = "run" /\ i \in Dirs /\ sim[i] = "running"

Timeout_Waits ==
    /\ TimesOut
    /\ sim' = [sim EXCEPT ![i] = "orphan"]
    /\ UNCHANGED <<setup, i, written, phase, correct, unread, fileVars, setVars>>

Timeout_SkipsOne ==
    /\ TimesOut
    /\ sim' = [sim EXCEPT ![i] = "orphan"]
    /\ i' = i + 2
    /\ UNCHANGED <<setup, written, phase, correct, unread, fileVars, setVars>>

Timeout ==
    /\ TimesOut
    /\ \E s \in {"ended", "orphan"} : sim' = [sim EXCEPT ![i] = s]
    /\ i' = i + 1
    /\ UNCHANGED <<setup, written, phase, correct, unread, fileVars, setVars>>

(* A simulation writes, and ends: at its end, or aborted by what the fault *)
(* did to it.  It may also hang.                                           *)
Write(d) ==
    /\ sim[d] \in {"running", "orphan"} /\ written[d] < Len(setup.sims[d].flush)
    /\ written' = [written EXCEPT ![d] = @ + 1]
    /\ UNCHANGED <<setup, runVars, phase, correct, unread, fileVars, setVars>>

Exit(d) ==
    /\ sim[d] \in {"running", "orphan"}
    /\ sim' = [sim EXCEPT ![d] = IF @ = "orphan" THEN "gone" ELSE "ended"]
    /\ UNCHANGED <<setup, i, written, phase, correct, unread, fileVars, setVars>>

---------------------------------------------------------------------------
(* The processor.  The list of correct runs, if there is one, was made     *)
(* from complete runs that have printed the ground truth.                  *)
Complete(d) == sim[d] \in {"ended", "gone"} /\ written[d] = Len(setup.sims[d].flush)
IsTrue(d) == Terminal(d) = Truth[setup.sims[d].program]

read_faults ==
    /\ phase = "run" /\ i \notin Dirs
    /\ phase' = "next"
    /\ correct' = IF setup.pick THEN {d \in Dirs : Complete(d) /\ IsTrue(d)} ELSE {}
    /\ unread' = Dirs
    /\ UNCHANGED <<setup, runVars, written, fileVars, setVars>>

(* The correct ones first; by fault; in the order of os.walk. *)
Candidates_OnePass ==
    {d \in unread : \A e \in unread : setup.sims[d].fault <= setup.sims[e].fault}

Candidates ==
    LET pass == IF unread \cap correct # {} THEN unread \cap correct ELSE unread IN
    {d \in pass : \A e \in pass : setup.sims[d].fault <= setup.sims[e].fault}

NextDirectory ==
    /\ phase = "next"
    /\ \E d \in Candidates :
        /\ unread' = unread \ {d}
        /\ \/ /\ written[d] > 0 /\ Len(Stats(d)) <= SizeLimit
              /\ cur' = d /\ phase' = "label"
           \/ /\ written[d] = 0 \/ Len(Stats(d)) > SizeLimit
              /\ UNCHANGED <<cur, phase>>
    /\ UNCHANGED <<setup, runVars, written, correct, label, lines, pos, lineVars, setVars>>

Label_OneTruth(d) == IF Terminal(d) = Truth[1] THEN 0 ELSE setup.sims[d].fault
Label(d) == IF IsTrue(d) THEN 0 ELSE setup.sims[d].fault

ReadTerminal ==
    /\ phase = "label"
    /\ label' = Label(cur)
    /\ phase' = "load"
    /\ UNCHANGED <<setup, runVars, written, correct, unread, cur, lines, pos, lineVars, setVars>>

ReadContents ==
    /\ phase = "load"
    /\ lines' = Stats(cur) /\ pos' = 1
    /\ skipped_warmup' = FALSE /\ remove_this_input' = FALSE
    /\ feat' = <<>> /\ feature_str' = <<>>
    /\ data' = <<>> /\ one_stat' = {}
    /\ phase' = "lines"
    /\ UNCHANGED <<setup, runVars, written, correct, unread, cur, label, setVars>>

---------------------------------------------------------------------------
(* read_stats, one line of the file at a time. *)
AtLine(kind) ==
    /\ phase = "lines" /\ pos <= Len(lines) /\ lines[pos].kind = kind
    /\ pos' = pos + 1
    /\ UNCHANGED <<setup, runVars, written, phase, correct, unread, cur, label, lines,
                   all_data, common_features>>

BeginLine_FeatKept ==
    /\ AtLine("begin")
    /\ UNCHANGED <<lineVars, feature_hash>>

BeginLine ==
    /\ AtLine("begin")
    /\ feat' = <<>>
    /\ UNCHANGED <<skipped_warmup, remove_this_input, feature_str, data, one_stat, feature_hash>>

Extend(f, k, v) == [x \in DOMAIN f \cup {k} |-> IF x = k THEN v ELSE f[x]]

StatLine ==
    /\ AtLine("stat")
    /\ LET key == lines[pos].key
           val == lines[pos].val
       IN  \/ /\ skipped_warmup /\ key \notin skip_features /\ val # NoNumber
              /\ feat' = Extend(feat, key, val)
              /\ feature_str' = feature_str \o key \o val
           \/ /\ ~skipped_warmup \/ key \in skip_features \/ val = NoNumber
              /\ UNCHANGED <<feat, feature_str>>
    /\ UNCHANGED <<skipped_warmup, remove_this_input, data, one_stat, feature_hash>>

ShortLine_InWarmup ==
    /\ AtLine("short")
    /\ remove_this_input' = TRUE
    /\ UNCHANGED <<skipped_warmup, feat, feature_str, data, one_stat, feature_hash>>

ShortLine ==
    /\ AtLine("short")
    /\ remove_this_input' = (remove_this_input \/ skipped_warmup)
    /\ UNCHANGED <<skipped_warmup, feat, feature_str, data, one_stat, feature_hash>>

Row == [feat |-> feat, multi_label |-> label, label |-> IF label > 0 THEN 1 ELSE 0, from |-> cur]

(* A row for a text whose hash is new (md5 taken to be collision-free). *)
NewRow_NotHashed ==
    /\ feature_str \notin feature_hash
    /\ data' = Append(data, Row)
    /\ one_stat' = IF one_stat = {} THEN DOMAIN feat ELSE one_stat \cap DOMAIN feat
    /\ UNCHANGED feature_hash

NewRow ==
    /\ feature_str \notin feature_hash
    /\ data' = Append(data, Row)
    /\ feature_hash' = feature_hash \cup {feature_str}
    /\ one_stat' = IF one_stat = {} THEN DOMAIN feat ELSE one_stat \cap DOMAIN feat

(* remove_this_input is never reset: the assignment at the end of a        *)
(* section that was left out names another variable.                       *)
EndLine ==
    /\ AtLine("end")
    /\ \/ skipped_warmup /\ ~remove_this_input /\ NewRow
       \/ /\ ~skipped_warmup \/ remove_this_input \/ feature_str \in feature_hash
          /\ UNCHANGED <<data, feature_hash, one_stat>>
    /\ skipped_warmup' = TRUE
    /\ feature_str' = <<>>
    /\ UNCHANGED <<remove_this_input, feat>>

(* read_stats returns; read_faults adds the rows. *)
EndOfFile_NoGuard ==
    /\ phase = "lines" /\ pos > Len(lines)
    /\ all_data' = all_data \o data
    /\ common_features' = IF common_features = {} THEN one_stat
                          ELSE common_features \cap one_stat
    /\ phase' = "next"
    /\ UNCHANGED <<setup, runVars, written, correct, unread, fileVars, feature_hash>>

EndOfFile ==
    /\ phase = "lines" /\ pos > Len(lines)
    /\ all_data' = all_data \o data
    /\ common_features' = IF common_features = {} THEN one_stat
                          ELSE IF one_stat = {} THEN common_features
                          ELSE common_features \cap one_stat
    /\ phase' = "next"
    /\ UNCHANGED <<setup, runVars, written, correct, unread, fileVars, feature_hash>>

(* The csv file: a row without a feature of the heading is a KeyError. *)
WriteCsv ==
    /\ phase = "next" /\ unread = {}
    /\ phase' = IF \A r \in DOMAIN all_data : common_features \subseteq DOMAIN all_data[r].feat
                THEN "csv" ELSE "KeyError"
    /\ UNCHANGED <<setup, runVars, written, correct, unread, fileVars, setVars>>

Runner == Launch \/ Return \/ Timeout
Processor == \/ read_faults \/ NextDirectory \/ ReadTerminal \/ ReadContents
             \/ BeginLine \/ StatLine \/ ShortLine \/ EndLine \/ EndOfFile \/ WriteCsv
Simulation(d) == Write(d) \/ Exit(d)

Next == Runner \/ Processor \/ \E d \in Dirs : Simulation(d)

(* The scripts are run by the operating system and the timeout strikes;    *)
(* nothing is assumed of the simulations.                                  *)
Spec == Init /\ [][Next]_vars /\ WF_vars(Runner) /\ WF_vars(Processor)

---------------------------------------------------------------------------
TypeOK ==
    /\ i \in 1..(Len(setup.sims) + 1)
    /\ sim \in [Dirs -> {"unborn", "running", "ended", "orphan", "gone"}]
    /\ \A d \in Dirs : written[d] \in 0..Len(setup.sims[d].flush)
    /\ phase \in {"run", "next", "label", "load", "lines", "csv", "KeyError"}
    /\ correct \subseteq Dirs /\ unread \subseteq Dirs
    /\ label \in 0..4 /\ pos \in 1..(Len(lines) + 1)
    /\ skipped_warmup \in BOOLEAN /\ remove_this_input \in BOOLEAN

Rows == {all_data[r] : r \in DOMAIN all_data}

(* A broken line after the warm-up, in the first e lines. *)
Broken(s, e) == \E k \in 1..e : s[k].kind = "short" /\ \E w \in 1..k : Ends(s, w)
Graph(f) == {<<k, f[k]>> : k \in DOMAIN f}

(* No feature of the heading is missing in a row, though sections differ   *)
(* in their features and files may add no row: data[feat] in the loop      *)
(* that writes the csv file never raises a KeyError.                       *)
HeadingComplete == phase # "KeyError"

(* The hash keeps out every feature vector that is there already, over all *)
(* directories and faults: no row is repeated, with whatever label.        *)
RowsDistinct ==
    \A q, r \in DOMAIN all_data : all_data[q].feat = all_data[r].feat => q = r

(* The correct runs are read first so that what a correct run looks like   *)
(* is labelled 0, whichever faulty runs show the same statistics.  What    *)
(* follows a broken line of a correct run, or is too large, is not read.   *)
CorrectFirst ==
    phase = "csv" => \A d \in correct : LET s == Stats(d) IN
        \A b, e \in DOMAIN s : Section(s, b, e) /\ ~Broken(s, e) /\ Len(s) <= SizeLimit =>
            \A r \in Rows : Graph(r.feat) = Entries(s, b, e) => r.label = 0

(* The features of a row are those of one whole section of its directory,  *)
(* not the warm-up, not a cut one and without a broken line; nothing of    *)
(* another section remains in feat.                                        *)
RowsAreSections ==
    \A r \in Rows : LET s == Stats(r.from) IN
        \E b, e \in DOMAIN s :
            /\ Section(s, b, e) /\ Graph(r.feat) = Entries(s, b, e)
            /\ \A k \in b..e : s[k].kind # "short"

(* A row's label is what the terminal says, even at the end: only a        *)
(* simulation that outlived its timeout can make a label wrong later.      *)
LabelsCurrent ==
    \A r \in Rows : (r.label = 0 <=> IsTrue(r.from)) \/ sim[r.from] \in {"orphan", "gone"}

(* A section is left out only for a broken line at or before it (after the *)
(* warm-up), or because a row has the same text: the same statistics, or   *)
(* others that key + val writes without a separator to the same text.      *)
NothingLost ==
    phase = "next" /\ pos > Len(lines) =>
        \A b, e \in DOMAIN lines : Section(lines, b, e) =>
            \/ Text(lines, b, e) \in feature_hash
            \/ Broken(lines, e)

(* A simulation that hangs does not keep the experiments from ending and   *)
(* the csv file from being written, when they are run with a timeout.      *)
Finishes == setup.timeout => <>(phase = "csv")

=============================================================================
