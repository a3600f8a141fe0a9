------------------------------ MODULE Campaign ------------------------------
(***************************************************************************)
(* A fault-injection campaign: mainscript.sh starts one run.sh per core on *)
(* every workstation; all of them take experiments off the same lists,     *)
(* one file per pipeline stage, under a lock file.  A run.sh restores a    *)
(* simulator from a checkpoint for each experiment, time.sh kills it when  *)
(* it takes too long, writes too much or another user logs in, and run.sh  *)
(* stores what it finds in the output directory.                           *)
(***************************************************************************)
EXTENDS Naturals, FiniteSets, Sequences, Functions

CONSTANTS
    Workers,        \* the run.sh processes
    Lists,          \* the experiment files: a sequence of sequences
    Empty,          \* the text read from an empty file
    Setups,         \* the circumstances, a set of records with the fields
                    \*  cross: mv copies, because temp.txt is on another device,
                    \*  old: stage checkpoints a core directory may start with,
                    \*  crashes: bound, how often a worker dies
    NoOne

Files == 1..Len(Lists)
Experiments == UNION {Range(Lists[f]) : f \in Files}

(* The lists name every experiment once. *)
ASSUME CampaignAssumption ==
    /\ Lists \in Seq(Seq(Experiments)) /\ Lists # <<>>
    /\ Empty \notin Experiments /\ NoOne \notin Workers
    /\ IsFiniteSet(Workers) /\ Workers # {}
    /\ \A f, g \in Files : \A i \in DOMAIN Lists[f], j \in DOMAIN Lists[g] :
        Lists[f][i] = Lists[g][j] => f = g /\ i = j
    /\ \A s \in Setups :
        s.cross \in BOOLEAN /\ s.crashes \in Nat /\ s.old \subseteq SUBSET Files

VARIABLES
    setup,    \* the circumstances (never change)
    list,     \* the experiment files
    lock,     \* who holds script.lock
    pc, file, \* where each worker is, and in which file's loop
    exp,      \* its variable exp
    temp,     \* its temp.txt
    main_ckpt,  \* does its directory have the main checkpoint
    stage_ckpt, \* the files whose stage checkpoint its directory has
    output,   \* whose start/ApplicationOutput is there, NoOne's if none
    recent,   \* has it stored a result since it was started
    stored,   \* how many results carry each experiment as their input
    clash,    \* experiments whose result directory had a name already taken
    foreign,  \* results stored with the output of another experiment
    orphan,   \* whose simulator outlived the script that started it, NoOne's if none
    crashes

core == <<exp, temp, main_ckpt, stage_ckpt, output, recent>>
results == <<stored, clash, foreign>>
faultVars == <<setup, orphan, crashes>>
vars == <<list, lock, pc, file, core, results, faultVars>>

Init ==
    /\ setup \in Setups
    /\ list = Lists
    /\ lock = NoOne
    /\ pc = [w \in Workers |-> "checkpoint"]
    /\ file = [w \in Workers |-> 1]
    /\ exp = [w \in Workers |-> Empty]
    /\ temp = [w \in Workers |-> <<>>]
    /\ main_ckpt \in [Workers -> BOOLEAN]
    /\ stage_ckpt \in [Workers -> setup.old]
    /\ output = [w \in Workers |-> NoOne]
    /\ recent = [w \in Workers |-> FALSE]
    /\ stored = [e \in Experiments \cup {Empty} |-> 0]
    /\ clash = {}
    /\ foreign = 0
    /\ orphan = [w \in Workers |-> NoOne]
    /\ crashes = 0

Goto(w, from, to) == pc[w] = from /\ pc' = [pc EXCEPT ![w] = to]

---------------------------------------------------------------------------
(* The main checkpoint is made if it is missing; when that fails the       *)
(* script says so and goes on.                                             *)
Checkpoint(w) ==
    /\ Goto(w, "checkpoint", "test")
    /\ \/ main_ckpt[w] /\ UNCHANGED main_ckpt
       \/ ~main_ckpt[w] /\ \E ok \in BOOLEAN : main_ckpt' = [main_ckpt EXCEPT ![w] = ok]
    /\ UNCHANGED <<list, lock, file, exp, temp, stage_ckpt, output, recent, results, faultVars>>

(* while [ -s "$cur_exp" ], without the lock. *)
Test_Exists(w) ==
    /\ Goto(w, "test", "lock")
    /\ UNCHANGED <<list, lock, file, core, results, faultVars>>

Test_OneMore(w) ==
    /\ \/ list[file[w]] # <<>> /\ Goto(w, "test", "lock") /\ UNCHANGED file
       \/ /\ list[file[w]] = <<>> /\ file[w] <= Len(Lists)
          /\ Goto(w, "test", "test") /\ file' = [file EXCEPT ![w] = @ + 1]
    /\ UNCHANGED <<list, lock, core, results, faultVars>>

Test(w) ==
    /\ \/ list[file[w]] # <<>> /\ Goto(w, "test", "lock") /\ UNCHANGED file
       \/ /\ list[file[w]] = <<>> /\ file[w] < Len(Lists)
          /\ Goto(w, "test", "test") /\ file' = [file EXCEPT ![w] = @ + 1]
       \/ /\ list[file[w]] = <<>> /\ file[w] = Len(Lists)
          /\ Goto(w, "test", "done") /\ UNCHANGED file
    /\ UNCHANGED <<list, lock, core, results, faultVars>>

Lock_NoWait(w) ==
    /\ Goto(w, "lock", "read")
    /\ lock' = w
    /\ UNCHANGED <<list, file, core, results, faultVars>>

Lock(w) ==
    /\ lock = NoOne
    /\ Goto(w, "lock", "read")
    /\ lock' = w
    /\ UNCHANGED <<list, file, core, results, faultVars>>

(* tail -n 1 and head -n -1 > temp.txt: the file may have become empty. *)
Read(w) ==
    LET l == list[file[w]] IN
    /\ Goto(w, "read", IF setup.cross THEN "truncate" ELSE "move")
    /\ exp' = [exp EXCEPT ![w] = IF l = <<>> THEN Empty ELSE l[Len(l)]]
    /\ temp' = [temp EXCEPT ![w] = IF l = <<>> THEN <<>> ELSE SubSeq(l, 1, Len(l) - 1)]
    /\ UNCHANGED <<list, lock, file, main_ckpt, stage_ckpt, output, recent, results, faultVars>>

(* mv temp.txt: a rename, or across devices a truncation and a copy. *)
Truncate(w) ==
    /\ Goto(w, "truncate", "move")
    /\ list' = [list EXCEPT ![file[w]] = <<>>]
    /\ UNCHANGED <<lock, file, core, results, faultVars>>

Move_TwoLines(w) ==
    /\ Goto(w, "move", "unlock")
    /\ list' = [list EXCEPT ![file[w]] =
                    IF temp[w] = <<>> THEN <<>> ELSE SubSeq(temp[w], 1, Len(temp[w]) - 1)]
    /\ UNCHANGED <<lock, file, core, results, faultVars>>

Move(w) ==
    /\ Goto(w, "move", "unlock")
    /\ list' = [list EXCEPT ![file[w]] = temp[w]]
    /\ UNCHANGED <<lock, file, core, results, faultVars>>

Unlock_Kept(w) ==
    /\ Goto(w, "unlock", "simulate")
    /\ UNCHANGED <<list, lock, file, core, results, faultVars>>

Unlock(w) ==
    /\ Goto(w, "unlock", "simulate")
    /\ lock' = NoOne
    /\ UNCHANGED <<list, file, core, results, faultVars>>

---------------------------------------------------------------------------
(* The simulator is restored from a checkpoint and runs; it may finish,    *)
(* with or without an application output, or be killed by time.sh, which   *)
(* empties an oversized output directory.  With no checkpoint to restore   *)
(* it ends at once.                                                        *)
Restorable(w) == main_ckpt[w] \/ file[w] \in stage_ckpt[w]

Simulate(w) ==
    /\ Goto(w, "simulate", "store")
    /\ \/ Restorable(w) /\ output' = [output EXCEPT ![w] = exp[w]]
       \/ Restorable(w) /\ output' = [output EXCEPT ![w] = NoOne]
       \/ UNCHANGED output
    /\ UNCHANGED <<list, lock, file, exp, temp, main_ckpt, stage_ckpt, recent, results,
                   faultVars>>

(* The result directory, named after the core and the second, gets input   *)
(* and the contents of start, and is moved to the results: in vain if an   *)
(* experiment that ended at once has the name of the one before it.  The   *)
(* stage's checkpoint file is there only if it was restored from (no hook  *)
(* of Fi_System creates one) and goes back to where it came from.          *)
Deliver(w) ==
    \/ /\ stored' = [stored EXCEPT ![exp[w]] = @ + 1]
       /\ UNCHANGED clash
    \/ /\ ~Restorable(w) /\ recent[w]
       /\ clash' = clash \cup {exp[w]}
       /\ UNCHANGED stored

Store_OutputKept(w) ==
    /\ Goto(w, "store", "test")
    /\ Deliver(w)
    /\ foreign' = IF output[w] \in {exp[w], NoOne} THEN foreign ELSE foreign + 1
    /\ recent' = [recent EXCEPT ![w] = TRUE]
    /\ UNCHANGED <<list, lock, file, exp, temp, main_ckpt, stage_ckpt, output, faultVars>>

Store(w) ==
    /\ Goto(w, "store", "test")
    /\ Deliver(w)
    /\ foreign' = IF output[w] \in {exp[w], NoOne} THEN foreign ELSE foreign + 1
    /\ output' = [output EXCEPT ![w] = NoOne]
    /\ recent' = [recent EXCEPT ![w] = TRUE]
    /\ UNCHANGED <<list, lock, file, exp, temp, main_ckpt, stage_ckpt, faultVars>>

---------------------------------------------------------------------------
(* A workstation goes down, or someone kills the script; the lock file and *)
(* the core directory stay.  The simulator runs in the background and no   *)
(* trap kills it with the script.                                          *)
Crash(w) ==
    /\ crashes < setup.crashes
    /\ pc[w] \notin {"done", "dead"}
    /\ pc' = [pc EXCEPT ![w] = "dead"]
    /\ crashes' = crashes + 1
    /\ \/ UNCHANGED orphan
       \/ /\ pc[w] = "simulate" /\ Restorable(w)
          /\ orphan' = [orphan EXCEPT ![w] = exp[w]]
    /\ UNCHANGED <<setup, list, lock, file, core, results>>

(* A simulator without its script finishes and leaves its output. *)
OrphanWrites(w) ==
    /\ orphan[w] # NoOne
    /\ output' = [output EXCEPT ![w] = orphan[w]]
    /\ orphan' = [orphan EXCEPT ![w] = NoOne]
    /\ UNCHANGED <<setup, list, lock, pc, file, exp, temp, main_ckpt, stage_ckpt, recent,
                   results, crashes>>

(* mainscript.sh is run again; with start_new the core directories go.     *)
(* dmtcp_command -q ends the simulators that are left on the core's port.  *)
Restart(w) ==
    /\ Goto(w, "dead", "checkpoint")
    /\ file' = [file EXCEPT ![w] = 1]
    /\ recent' = [recent EXCEPT ![w] = FALSE]
    /\ orphan' = [orphan EXCEPT ![w] = NoOne]
    /\ \/ UNCHANGED <<exp, temp, main_ckpt, stage_ckpt, output>>
       \/ /\ main_ckpt' = [main_ckpt EXCEPT ![w] = FALSE]
          /\ stage_ckpt' = [stage_ckpt EXCEPT ![w] = {}]
          /\ output' = [output EXCEPT ![w] = NoOne]
          /\ UNCHANGED <<exp, temp>>
    /\ UNCHANGED <<setup, list, lock, results, crashes>>

Step(w) == \/ Checkpoint(w) \/ Test(w) \/ Lock(w) \/ Read(w) \/ Truncate(w)
           \/ Move(w) \/ Unlock(w) \/ Simulate(w) \/ Store(w)

Next == \E w \in Workers : Step(w) \/ Crash(w) \/ OrphanWrites(w) \/ Restart(w)

(* The operating system runs every script that can go on; time.sh ends the *)
(* simulations that do not end by themselves.                              *)
Spec == Init /\ [][Next]_vars /\ \A w \in Workers : WF_vars(Step(w))

---------------------------------------------------------------------------
TypeOK ==
    /\ DOMAIN list = Files /\ \A f \in Files : Range(list[f]) \subseteq Range(Lists[f])
    /\ lock \in Workers \cup {NoOne}
    /\ pc \in [Workers -> {"checkpoint", "test", "lock", "read", "truncate", "move",
                           "unlock", "simulate", "store", "done", "dead"}]
    /\ file \in [Workers -> Files]
    /\ exp \in [Workers -> Experiments \cup {Empty}]
    /\ output \in [Workers -> Experiments \cup {Empty, NoOne}]
    /\ stage_ckpt \in [Workers -> SUBSET Files]
    /\ main_ckpt \in [Workers -> BOOLEAN] /\ recent \in [Workers -> BOOLEAN]
    /\ stored \in [Experiments \cup {Empty} -> Nat]
    /\ clash \subseteq Experiments \cup {Empty}
    /\ foreign \in Nat /\ orphan \in [Workers -> Experiments \cup {Empty, NoOne}]

(* The workers that have taken exp off a list and not yet stored it. *)
Holding(e) == {w \in Workers : pc[w] \in {"unlock", "simulate", "store"} /\ exp[w] = e}

(* No experiment is run twice: the lock file makes taking the last line    *)
(* off a list exclusive among all workers of all workstations.             *)
AtMostOnce == \A e \in Experiments : Cardinality(Holding(e)) + stored[e] <= 1

(* Every experiment is on its list, in the hands of one worker or stored   *)
(* (or left in a core directory, its result's name being taken); each      *)
(* crash loses at most one, wherever it falls between reading the list,    *)
(* replacing it by a rename, and storing the result.  (A copy that is cut  *)
(* short loses what is left of the list.)                                  *)
Accounted ==
    LET listed == UNION {Range(list[f]) : f \in Files} IN
    ~setup.cross => Cardinality({e \in Experiments \ (listed \cup clash) :
                        Holding(e) = {} /\ stored[e] = 0}) <= crashes

(* A list that empties between the test and the lock makes a worker run    *)
(* and store an experiment without a fault: at most once per file and      *)
(* start of a worker, and never for the worker that took the last line.    *)
EmptyRunsBounded ==
    stored[Empty] <= (Cardinality(Workers) - 1 + crashes) * Len(Lists)

(* A result never carries the application output of another experiment,    *)
(* even when its own simulation was killed or could not be restored; only  *)
(* a crash, by what it or the simulator that survives it leaves in the     *)
(* core directory, can spoil a result, and one at most.                    *)
OwnOutput == foreign <= crashes

(* Without crashes, every worker comes to the end of all lists and every   *)
(* experiment has its result, even if a rewritten file looks empty for a   *)
(* moment; only a worker without main checkpoint may fail to deliver one.  *)
AllRun ==
    [](crashes = 0) =>
        <>[](/\ \A w \in Workers : pc[w] = "done"
             /\ \A e \in Experiments :
                    \/ stored[e] = 1
                    \/ e \in clash /\ \E w \in Workers : ~main_ckpt[w])

(* Crashes keep the other workers, and those restarted, from the end of    *)
(* the lists only through a lock file that its holder did not remove.      *)
SurvivorsFinish ==
    LET stale == /\ crashes > 0 /\ lock # NoOne
                 /\ pc[lock] \notin {"read", "truncate", "move", "unlock"}
    IN <>[](\A w \in Workers : pc[w] \in {"done", "dead"} \/ (pc[w] = "lock" /\ stale))

=============================================================================
